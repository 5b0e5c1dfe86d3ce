------------------------ MODULE ChangeStreamerProofs ------------------------
(* Proofs about ChangeStreamer, for every value of its constants.          *)
EXTENDS ChangeStreamer, TLAPS

-----------------------------------------------------------------------------
(* Row histories                                                           *)

\* The log after one more transaction.
LEMMA AppendedLog ==
    ASSUME NEW h \in Seq(Txn), NEW t \in Txn
    PROVE  /\ Append(h, t) \in Seq(Txn)
           /\ Len(h) \in Nat
           /\ Len(Append(h, t)) = Len(h) + 1
           /\ \A i \in 1..Len(h) : Append(h, t)[i] = h[i]
           /\ Append(h, t)[Len(h) + 1] = t
  OBVIOUS

\* Later transactions do not change what a row was.
LEMMA HasValueAppend ==
    ASSUME NEW h \in Seq(Txn), NEW t \in Txn, NEW k, NEW x,
           NEW n \in 0..Len(h), HasValue(h, k, n, x)
    PROVE  HasValue(Append(h, t), k, n, x)
  <1> DEFINE g == Append(h, t)
  <1>1. PICK m \in 0..n : /\ m = 0 \/ Touches(h, m, k)
                          /\ \A j \in (m + 1)..n : ~Touches(h, j, k)
                          /\ x = ValueAt(h, m, k)
    BY DEF HasValue
  <1>2. \A i \in 1..n : g[i] = h[i]
    BY AppendedLog
  <1>3. m = 0 \/ Touches(g, m, k)
    BY <1>1, <1>2 DEF Touches
  <1>4. \A j \in (m + 1)..n : ~Touches(g, j, k)
    BY <1>1, <1>2 DEF Touches
  <1>5. x = ValueAt(g, m, k)
    BY <1>1, <1>2 DEF ValueAt
  <1> HIDE DEF g
  <1>6. HasValue(g, k, n, x)
    BY <1>3, <1>4, <1>5 DEF HasValue
  <1> QED
    BY <1>6 DEF g

\* A replica that is complete stays complete.
LEMMA SinceAppend ==
    ASSUME NEW h \in Seq(Txn), NEW t \in Txn, NEW k, NEW x,
           NEW w \in Nat, HasValueSince(h, k, w, x)
    PROVE  HasValueSince(Append(h, t), k, w, x)
  <1>1. PICK n \in w..Len(h) : HasValue(h, k, n, x)
    BY DEF HasValueSince
  <1>2. n \in 0..Len(h) /\ n \in w..Len(Append(h, t))
    BY AppendedLog
  <1>3. HasValue(Append(h, t), k, n, x)
    BY <1>1, <1>2, HasValueAppend
  <1> QED
    BY <1>2, <1>3 DEF HasValueSince

\* A row no transaction touches stays as it is.
LEMMA HasValueQuiet ==
    ASSUME NEW h, NEW k, NEW x, NEW n \in Nat, NEW w \in Nat, n <= w,
           HasValue(h, k, n, x),
           \A i \in (n + 1)..w : ~Touches(h, i, k)
    PROVE  HasValue(h, k, w, x)
  <1>1. PICK m \in 0..n : /\ m = 0 \/ Touches(h, m, k)
                          /\ \A j \in (m + 1)..n : ~Touches(h, j, k)
                          /\ x = ValueAt(h, m, k)
    BY DEF HasValue
  <1>2. m \in 0..w /\ \A j \in (m + 1)..w : j \in (m + 1)..n
                                           \/ j \in (n + 1)..w
    OBVIOUS
  <1> QED
    BY <1>1, <1>2 DEF HasValue

\* Carrying a complete replica past transactions that leave the row alone.
LEMMA SinceQuiet ==
    ASSUME NEW h \in Seq(Txn), NEW k, NEW x, NEW u \in Nat, NEW w \in Nat,
           w <= Len(h), HasValueSince(h, k, u, x),
           \A i \in (u + 1)..w : ~Touches(h, i, k)
    PROVE  HasValueSince(h, k, w, x)
  <1>1. PICK n \in u..Len(h) : HasValue(h, k, n, x)
    BY DEF HasValueSince
  <1>2. n \in Nat /\ Len(h) \in Nat
    OBVIOUS
  <1>3. CASE w <= n
    BY <1>1, <1>2, <1>3 DEF HasValueSince
  <1>4. CASE n < w
    <2>1. HasValue(h, k, w, x)
      BY <1>1, <1>2, <1>4, HasValueQuiet
    <2> QED
      BY <1>2, <2>1 DEF HasValueSince
  <1> QED
    BY <1>2, <1>3, <1>4

\* The row right after a transaction, from the row right before it.
LEMMA HasValueCommit ==
    ASSUME NEW h \in Seq(Txn), NEW t \in Txn, NEW k \in Keys, NEW x,
           HasValue(h, k, Len(h), x)
    PROVE  HasValue(Append(h, t), k, Len(h) + 1,
                    CASE t.op[k] = "s" -> Len(h) + 1
                      [] t.op[k] = "d" -> 0
                      [] t.op[k] = "none" -> IF t.wide = "t" THEN 0 ELSE x)
  <1> DEFINE g == Append(h, t)
             n == Len(h) + 1
  <1>1. n \in Nat /\ n > 0 /\ g[n] = t /\ t.op[k] \in RowOps
    BY AppendedLog DEF Txn
  <1>2. CASE Touches(g, n, k)
    <2>1. n \in 0..n /\ \A j \in (n + 1)..n : ~Touches(g, j, k)
      BY <1>1
    <2>2. HasValue(g, k, n, ValueAt(g, n, k))
      BY <1>2, <2>1, Zenon DEF HasValue
    <2> QED
      BY <1>1, <1>2, <2>2 DEF ValueAt, Touches, RowOps
  <1>3. CASE ~Touches(g, n, k)
    <2>1. HasValue(g, k, Len(h), x)
      BY HasValueAppend
    <2>2. HasValue(g, k, n, x)
      BY <1>3, <2>1, HasValueQuiet
    <2> QED
      BY <1>1, <1>3, <2>2 DEF Touches, RowOps
  <1> QED
    BY <1>2, <1>3

-----------------------------------------------------------------------------
(* Type correctness                                                        *)

\* A batch names versions and rows of the first n transactions.
BoundedBatch(b, n) == /\ b \in Batch
                      /\ b.w <= n
                      /\ \A k \in Keys : b.val[k] <= n

\* What is in flight is bounded by the log, so what is applied is too.
TypeInv == /\ TypeOK
           /\ BoundedBatch(batch, Len(txns))
           /\ \A i \in 1..Len(wire) : BoundedBatch(wire[i], Len(txns))

\* The log only grows.
LEMMA LogGrows ==
    ASSUME OwnerOK, [Next]_vars
    PROVE  /\ txns' \in Seq(Txn)
           /\ Len(txns) \in Nat /\ Len(txns') \in Nat
           /\ Len(txns) <= Len(txns')
           /\ txns' = txns \/ \E t \in Txn : txns' = Append(txns, t)
  <1>0. txns \in Seq(Txn)
    BY DEF OwnerOK
  <1>1. EmptyTxn \in Txn
    BY DEF EmptyTxn, Txn, RowOps, WideOpsAll
  <1>2. txns' = txns \/ \E t \in Txn : txns' = Append(txns, t)
    <2> USE DEF streamVars
    <2>1. CASE Owner
      BY Zenon, <2>1, <1>1 DEF Owner, OwnerCommit, NextTxn, OwnerPublish,
         OwnerReplay, OwnerReset, OwnerMetadata, NewSnapshot, OwnerCopied,
         OwnerCrash, OwnerRestart, LitestreamSync
    <2>2. CASE Serve
      BY Zenon, <2>2 DEF Serve, Catchup, RecvCommit, RecvLagged, ResolveRow,
         SendTransaction
    <2>3. CASE ViewSyncer
      BY Zenon, <2>3 DEF ViewSyncer, ReserveSnapshot, RestoreSnapshot,
         Subscribe, SubscribeFails, ApplyCommit
    <2>4. CASE Disconnect
      BY Zenon, <2>4 DEF Disconnect
    <2>5. CASE UNCHANGED vars
      BY Zenon, <2>5 DEF vars
    <2> QED
      BY Zenon, <2>1, <2>2, <2>3, <2>4, <2>5 DEF Next
  <1>3. CASE txns' = txns
    BY <1>0, <1>3
  <1>4. ASSUME NEW t \in Txn, txns' = Append(txns, t)
        PROVE  /\ txns' \in Seq(Txn)
               /\ Len(txns) \in Nat /\ Len(txns') \in Nat
               /\ Len(txns) <= Len(txns')
    BY <1>0, <1>4, AppendedLog
  <1> QED
    BY <1>2, <1>3, <1>4

\* Rows stay rows of the log when the log grows.
LEMMA RowsGrow ==
    ASSUME NEW f, NEW n \in Nat, NEW m \in Nat, n <= m,
           f \in [Keys -> 0..n]
    PROVE  f \in [Keys -> 0..m]
  OBVIOUS

\* The owner's part.
LEMMA OwnerNext ==
    ASSUME TypeInv, [Next]_vars PROVE OwnerOK'
  <1> USE DEF ownerVars
  <1>0. OwnerOK
    BY DEF TypeInv, TypeOK
  <1>1. /\ txns' \in Seq(Txn)
        /\ Len(txns) \in Nat /\ Len(txns') \in Nat
        /\ Len(txns) <= Len(txns')
        /\ txns' = txns \/ \E t \in Txn : txns' = Append(txns, t)
    BY <1>0, LogGrows
  <1>2. /\ logV \in [Keys -> 0..Len(txns')] /\ rows \in [Keys -> 0..Len(txns')]
        /\ backup.rows \in [Keys -> 0..Len(txns')]
        /\ backup.version \in 0..Len(txns')
        /\ truncs \subseteq 1..Len(txns') /\ resets \subseteq 1..Len(txns')
        /\ replicaVersion \in 0..Len(txns')
        /\ wpos \in 0..Len(txns') /\ confirmed \in 0..Len(txns')
    BY <1>0, <1>1, RowsGrow DEF OwnerOK
  <1>3. CASE OwnerCommit
    <2>1. PICK t \in Txn :
             /\ NextTxn(t)
             /\ rows' = [k \in Keys |->
                           CASE t.op[k] = "s" -> wpos + 1
                             [] t.op[k] = "d" -> 0
                             [] t.op[k] = "none" ->
                                   IF t.wide = "t" THEN 0 ELSE rows[k]]
             /\ logV' = EntryVersion(t, wpos + 1)
             /\ logOp' = [k \in Keys |-> IF t.op[k] = "none" THEN logOp[k]
                                         ELSE t.op[k]]
             /\ truncs' = IF t.wide = "t" THEN truncs \cup {wpos + 1}
                          ELSE truncs
             /\ resets' = IF t.wide = "r" THEN resets \cup {wpos + 1}
                          ELSE resets
      BY <1>3 DEF OwnerCommit
    <2>2. wpos + 1 \in 1..Len(txns')
      <3>1. CASE wpos < Len(txns) /\ UNCHANGED txns
        BY <1>0, <1>1, <3>1 DEF OwnerOK
      <3>2. CASE wpos = Len(txns) /\ txns' = Append(txns, t)
        BY <1>0, <3>2, AppendedLog DEF OwnerOK
      <3> QED
        BY <2>1, <3>1, <3>2 DEF NextTxn
    <2>3. \A k \in Keys : t.op[k] \in RowOps
      BY DEF Txn
    <2>4. rows' \in [Keys -> 0..Len(txns')]
      <3>1. ASSUME NEW k \in Keys PROVE rows'[k] \in 0..Len(txns')
        <4>1. rows[k] \in 0..Len(txns') /\ t.op[k] \in RowOps
          BY <1>2, <2>3
        <4>2. rows'[k] \in {wpos + 1, 0, rows[k]}
          BY <2>1, <4>1 DEF RowOps
        <4> QED
          BY <4>1, <4>2, <2>2
      <3> DEFINE Row(k) == CASE t.op[k] = "s" -> wpos + 1
                             [] t.op[k] = "d" -> 0
                             [] t.op[k] = "none" ->
                                   IF t.wide = "t" THEN 0 ELSE rows[k]
      <3>2. rows' = [k \in Keys |-> Row(k)]
        BY <2>1, Zenon
      <3> HIDE DEF Row
      <3> QED
        BY <3>1, <3>2
    <2>5. logV' \in [Keys -> 0..Len(txns')]
      BY <1>2, <2>1, <2>2 DEF EntryVersion
    <2>6. logOp' \in [Keys -> RowOps]
      BY <1>0, <2>1, <2>3 DEF OwnerOK
    <2>7. truncs' \subseteq 1..Len(txns') /\ resets' \subseteq 1..Len(txns')
      BY <1>2, <2>1, <2>2
    <2>8. wpos' \in 0..Len(txns') /\ unpublished' = TRUE
      BY <1>3, <2>2 DEF OwnerCommit
    <2>9. UNCHANGED <<confirmed, owner, replicaVersion, backup>>
      BY <1>3 DEF OwnerCommit
    <2> QED
      BY <1>0, <1>1, <1>2, <2>4, <2>5, <2>6, <2>7, <2>8, <2>9 DEF OwnerOK
  <1>4. CASE OwnerPublish
    BY <1>0, <1>4 DEF OwnerPublish, OwnerOK, streamVars
  <1>5. CASE OwnerReplay
    <2>1. wpos' \in confirmed..wpos /\ confirmed' \in confirmed..wpos
      BY <1>5 DEF OwnerReplay
    <2>2. /\ UNCHANGED <<txns, ownerVars, backup>>
          /\ unpublished' \in BOOLEAN
      BY Zenon, <1>5 DEF OwnerReplay
    <2> QED
      BY <1>0, <2>1, <2>2 DEF OwnerOK
  <1>6. CASE OwnerReset
    BY <1>0, <1>6 DEF OwnerReset, OwnerOK, NoReplica, NoRows, RowOps,
       streamVars
  <1>7. ASSUME NewSnapshot
        PROVE  /\ wpos' \in 0..Len(txns') /\ confirmed' \in 0..Len(txns')
               /\ replicaVersion' \in 0..Len(txns')
               /\ Len(txns') = Len(txns) + 1
    <2>1. EmptyTxn \in Txn
      BY DEF EmptyTxn, Txn, RowOps, WideOpsAll
    <2>2. Len(txns') = Len(txns) + 1
      BY <1>0, <1>7, <2>1, AppendedLog DEF NewSnapshot, OwnerOK
    <2> QED
      BY <1>1, <1>7, <2>2 DEF NewSnapshot
  <1>8. CASE OwnerMetadata
    BY <1>0, <1>1, <1>2, <1>7, <1>8 DEF OwnerMetadata, OwnerOK
  <1>9. CASE OwnerCopied
    BY <1>0, <1>1, <1>2, <1>9 DEF OwnerCopied, OwnerOK, SnapshotRows,
       streamVars
  <1>10. CASE OwnerCrash
    <2>1. /\ UNCHANGED <<streamVars, replicaVersion, backup>>
          /\ NoReplica
          /\ owner' = "down" /\ unpublished' \in BOOLEAN
      BY Zenon, <1>10 DEF OwnerCrash
    <2> QED
      BY <1>0, <2>1 DEF OwnerOK, NoReplica, NoRows, RowOps, streamVars
  <1>11. CASE OwnerRestart
    <2>1. rows' \in [Keys -> 0..Len(txns)]
      BY <1>11 DEF OwnerRestart, SnapshotRows
    <2>2. rows' \in [Keys -> 0..Len(txns')]
      BY <2>1, <1>1, RowsGrow
    <2> QED
      BY <1>0, <1>1, <1>2, <1>7, <1>11, <2>2 DEF OwnerRestart, OwnerOK
  <1>12. CASE LitestreamSync
    BY <1>0, <1>12 DEF LitestreamSync, OwnerOK, streamVars
  <1>13. CASE Serve
    BY <1>0, <1>13 DEF Serve, Catchup, RecvCommit, RecvLagged, ResolveRow,
       SendTransaction, OwnerOK, streamVars
  <1>14. CASE ViewSyncer
    BY <1>0, <1>14 DEF ViewSyncer, ReserveSnapshot, RestoreSnapshot,
       Subscribe, SubscribeFails, ApplyCommit, OwnerOK, streamVars
  <1>15. CASE Disconnect
    BY <1>0, <1>15 DEF Disconnect, OwnerOK, streamVars
  <1>16. CASE UNCHANGED vars
    BY <1>0, <1>16 DEF vars, OwnerOK, streamVars
  <1> QED
    BY <1>3, <1>4, <1>5, <1>6, <1>8, <1>9, <1>10, <1>11, <1>12, <1>13, <1>14,
       <1>15, <1>16 DEF Next, Owner

\* The empty batch is one of any log.
LEMMA NoBatchBounded == ASSUME NEW n \in Nat PROVE BoundedBatch(NoBatch, n)
  BY DEF BoundedBatch, NoBatch, Batch, RowOps

\* What read_since finds is a batch of the log.
LEMMA ReadLogBounded ==
    ASSUME TypeInv, ReadLog
    PROVE  /\ task' \in {"resolve", "idle"}
           /\ BoundedBatch(batch', Len(txns))
           /\ todo' \subseteq Keys
  <1>1. CASE UNCHANGED <<batch, todo>> /\ task' = "idle"
    BY <1>1 DEF TypeInv, TypeOK, ServerOK
  <1>2. ASSUME NEW w \in NewerVersions,
               batch' = [w   |-> w,
                         op  |-> [k \in Keys |-> IF k \in NewerKeys
                                                 THEN logOp[k] ELSE "none"],
                         v   |-> [k \in Keys |-> IF k \in NewerKeys
                                                 THEN logV[k] ELSE 0],
                         val |-> NoRows,
                         truncs |-> {v \in truncs : v > last}],
               todo' = {k \in NewerKeys : logOp[k] = "s"},
               task' = "resolve"
        PROVE  /\ task' \in {"resolve", "idle"}
               /\ BoundedBatch(batch', Len(txns))
               /\ todo' \subseteq Keys
    <2>1. OwnerOK /\ Len(txns) \in Nat
      BY DEF TypeInv, TypeOK, OwnerOK
    <2>2. w \in 0..Len(txns)
      <3>1. logV \in [Keys -> 0..Len(txns)] /\ truncs \subseteq 1..Len(txns)
        BY <2>1 DEF OwnerOK
      <3>2. w \in truncs \/ \E k \in Keys : w = logV[k]
        BY DEF NewerVersions, NewerKeys
      <3>3. CASE w \in truncs
        BY <2>1, <3>1, <3>3
      <3>4. CASE \E k \in Keys : w = logV[k]
        BY <3>1, <3>4
      <3> QED
        BY <3>2, <3>3, <3>4
    <2>3. todo' \subseteq Keys
      BY <1>2 DEF NewerKeys
    <2>4. [k \in Keys |-> IF k \in NewerKeys THEN logOp[k] ELSE "none"]
             \in [Keys -> RowOps]
      BY <2>1 DEF OwnerOK, RowOps
    <2>5. [k \in Keys |-> IF k \in NewerKeys THEN logV[k] ELSE 0]
             \in [Keys -> Nat]
      BY <2>1 DEF OwnerOK
    <2>6. {v \in truncs : v > last} \in SUBSET Nat
      <3>1. truncs \subseteq Nat
        BY <2>1 DEF OwnerOK
      <3> QED
        BY <3>1
    <2>7. batch' \in Batch
      BY <1>2, <2>1, <2>2, <2>4, <2>5, <2>6 DEF Batch, NoRows
    <2>8. batch'.w <= Len(txns) /\ \A k \in Keys : batch'.val[k] <= Len(txns)
      BY <1>2, <2>1, <2>2 DEF NoRows
    <2> QED
      BY <1>2, <2>3, <2>7, <2>8 DEF BoundedBatch
  <1> QED
    BY <1>1, <1>2 DEF ReadLog

\* A batch of the log so far is one of the longer log.
LEMMA BatchGrows ==
    ASSUME NEW n \in Nat, NEW m \in Nat, n <= m, NEW b, BoundedBatch(b, n)
    PROVE  BoundedBatch(b, m)
  <1>1. b.w \in Nat /\ \A k \in Keys : b.val[k] \in Nat
    BY DEF BoundedBatch, Batch
  <1> QED
    BY <1>1 DEF BoundedBatch

\* The server's part.
LEMMA ServerNext ==
    ASSUME TypeInv, [Next]_vars
    PROVE  ServerOK' /\ BoundedBatch(batch', Len(txns'))
  <1>0. /\ OwnerOK /\ ServerOK /\ SubscriberOK /\ BoundedBatch(batch, Len(txns))
        /\ Capacity \in Nat \ {0}
    BY StreamerBounds DEF TypeInv, TypeOK
  <1>1. Len(txns) \in Nat /\ Len(txns') \in Nat /\ Len(txns) <= Len(txns')
    BY <1>0, LogGrows
  <1>2. last \in 0..Len(txns') /\ BoundedBatch(batch, Len(txns'))
    BY <1>0, <1>1, BatchGrows DEF ServerOK
  <1>3. ASSUME UNCHANGED taskVars, unread' \in 0..Capacity,
               lagged' \in BOOLEAN
        PROVE  ServerOK' /\ BoundedBatch(batch', Len(txns'))
    BY <1>0, <1>2, <1>3 DEF ServerOK, taskVars
  <1>4. ASSUME UNCHANGED <<taskVars, fanVars>>
        PROVE  ServerOK' /\ BoundedBatch(batch', Len(txns'))
    <2>1. unread' \in 0..Capacity /\ lagged' \in BOOLEAN
      BY Zenon, <1>0, <1>4 DEF ServerOK, fanVars
    <2> QED
      BY <1>3, <1>4, <2>1
  <1>5. ASSUME LoseConnection
        PROVE  ServerOK' /\ BoundedBatch(batch', Len(txns'))
    <2>1. /\ task' = "idle" /\ last' = 0 /\ batch' = NoBatch /\ todo' = {}
          /\ unread' = 0 /\ lagged' \in BOOLEAN
      BY Zenon, <1>5 DEF LoseConnection
    <2>2. BoundedBatch(batch', Len(txns'))
      BY <1>1, <2>1, NoBatchBounded
    <2>3. last' \in 0..Len(txns') /\ unread' \in 0..Capacity
      BY <1>0, <1>1, <2>1
    <2> QED
      BY <2>1, <2>2, <2>3 DEF ServerOK, BoundedBatch
  <1>6. ASSUME ReadLog, UNCHANGED <<last, lagged, txns>>,
               unread' \in 0..Capacity
        PROVE  ServerOK' /\ BoundedBatch(batch', Len(txns'))
    <2>1. /\ task' \in {"resolve", "idle"}
          /\ BoundedBatch(batch', Len(txns'))
          /\ todo' \subseteq Keys
      BY <1>6, ReadLogBounded
    <2>2. lagged' \in BOOLEAN
      BY Zenon, <1>0, <1>6 DEF ServerOK
    <2> QED
      BY <1>0, <1>6, <2>1, <2>2 DEF ServerOK, BoundedBatch
  <1>7. CASE OwnerPublish
    <2>1. UNCHANGED taskVars
      BY <1>7 DEF OwnerPublish
    <2>2. unread' \in 0..Capacity
      BY <1>0, <1>7 DEF OwnerPublish, Notify, fanVars, ServerOK
    <2>3. lagged' \in BOOLEAN
      BY Zenon, <1>0, <1>7 DEF OwnerPublish, Notify, fanVars, ServerOK
    <2> QED
      BY <1>3, <2>1, <2>2, <2>3
  <1>8. CASE OwnerCrash \/ Disconnect
    BY <1>5, <1>8 DEF OwnerCrash, Disconnect
  <1>9. CASE Owner /\ ~OwnerPublish /\ ~OwnerCrash
    <2>1. UNCHANGED <<taskVars, fanVars>>
      BY Zenon, <1>9 DEF Owner, OwnerCommit, OwnerReplay, OwnerReset,
         OwnerMetadata, OwnerCopied, OwnerRestart, LitestreamSync
    <2> QED
      BY <1>4, <2>1
  <1>10. CASE Catchup
    <2>1. ReadLog /\ UNCHANGED <<last, lagged, txns>> /\ UNCHANGED unread
      BY Zenon, <1>10 DEF Catchup, fanVars, streamVars
    <2> QED
      BY <1>0, <1>6, <2>1 DEF ServerOK
  <1>11. CASE RecvCommit
    <2>1. ReadLog /\ UNCHANGED <<last, lagged, txns>>
      BY Zenon, <1>11 DEF RecvCommit, streamVars
    <2>2. unread' \in 0..Capacity
      BY <1>0, <1>11 DEF RecvCommit, ServerOK
    <2> QED
      BY <1>6, <2>1, <2>2
  <1>12. CASE RecvLagged
    <2>1. UNCHANGED <<taskVars, unread>> /\ lagged' \in BOOLEAN
      BY Zenon, <1>12 DEF RecvLagged
    <2> QED
      BY <1>0, <1>3, <2>1 DEF ServerOK
  <1>13. CASE ResolveRow
    <2>1. PICK k \in todo :
             IF owner = "resetting" \/ rows[k] = 0
             THEN task' = "idle" /\ todo' = {} /\ UNCHANGED batch
             ELSE /\ batch' = [batch EXCEPT !.val[k] = rows[k]]
                  /\ todo' = todo \ {k}
                  /\ UNCHANGED task
      BY <1>13 DEF ResolveRow
    <2>2. UNCHANGED <<txns, last, unread>> /\ lagged' \in BOOLEAN
      BY Zenon, <1>0, <1>13 DEF ResolveRow, streamVars, fanVars, ServerOK
    <2>3. rows[k] \in 0..Len(txns) /\ k \in Keys
      BY <1>0, <2>1 DEF OwnerOK, ServerOK
    <2>4. BoundedBatch([batch EXCEPT !.val[k] = rows[k]], Len(txns))
      <3> DEFINE c == [batch EXCEPT !.val[k] = rows[k]]
      <3>1. batch \in Batch /\ batch.val \in [Keys -> Nat]
        BY <1>0 DEF BoundedBatch, Batch
      <3>2. c = [batch EXCEPT !.val = [batch.val EXCEPT ![k] = rows[k]]]
        OBVIOUS
      <3>3. [batch.val EXCEPT ![k] = rows[k]] \in [Keys -> Nat]
        BY <2>3, <3>1
      <3>4. c \in Batch
        BY <3>1, <3>2, <3>3 DEF Batch
      <3>5. c.w = batch.w /\ c.val = [batch.val EXCEPT ![k] = rows[k]]
        BY <3>1, <3>2 DEF Batch
      <3> QED
        BY <1>0, <1>1, <2>3, <3>1, <3>4, <3>5 DEF BoundedBatch
    <2>5. BoundedBatch(batch', Len(txns'))
      BY <1>0, <2>1, <2>2, <2>4
    <2>6. todo' \subseteq Keys /\ task' \in {"catchup", "resolve", "idle"}
      BY <1>0, <2>1 DEF ServerOK
    <2> QED
      BY <1>0, <2>2, <2>5, <2>6 DEF ServerOK, BoundedBatch
  <1>14. CASE SendTransaction
    <2>1. /\ UNCHANGED <<txns, batch, todo, unread>> /\ lagged' \in BOOLEAN
          /\ task' = "idle" /\ last' = batch.w
      BY Zenon, <1>0, <1>14 DEF SendTransaction, streamVars, fanVars, ServerOK
    <2>2. batch.w \in 0..Len(txns)
      BY <1>0 DEF BoundedBatch, Batch
    <2> QED
      BY <1>0, <2>1, <2>2 DEF ServerOK
  <1>15. CASE Subscribe
    <2>1. /\ UNCHANGED <<txns, batch, todo, unread>> /\ lagged' \in BOOLEAN
          /\ task' = "catchup" /\ last' = subWatermark
      BY Zenon, <1>0, <1>15 DEF Subscribe, streamVars, fanVars, ServerOK
    <2> QED
      BY <1>0, <2>1 DEF ServerOK, SubscriberOK
  <1>16. CASE (ViewSyncer /\ ~Subscribe) \/ UNCHANGED vars
    <2>1. UNCHANGED <<taskVars, fanVars>>
      BY Zenon, <1>16 DEF ViewSyncer, ReserveSnapshot, RestoreSnapshot,
         SubscribeFails, ApplyCommit, vars
    <2> QED
      BY <1>4, <2>1
  <1> QED
    BY <1>7, <1>8, <1>9, <1>10, <1>11, <1>12, <1>13, <1>14, <1>15, <1>16
       DEF Next, Serve

\* The socket after a transaction is taken from it.
LEMMA TakenFromWire ==
    ASSUME NEW q \in Seq(Batch), q # <<>>
    PROVE  /\ Len(q) \in Nat /\ Len(q) >= 1
           /\ Head(q) = q[1]
           /\ Tail(q) \in Seq(Batch)
           /\ Len(Tail(q)) = Len(q) - 1
           /\ \A i \in 1..Len(Tail(q)) : i + 1 \in 1..Len(q)
                                          /\ Tail(q)[i] = q[i + 1]
  OBVIOUS

\* The socket after one more transaction is sent.
LEMMA SentToWire ==
    ASSUME NEW q \in Seq(Batch), NEW b \in Batch
    PROVE  /\ Append(q, b) \in Seq(Batch)
           /\ Len(q) \in Nat
           /\ Len(Append(q, b)) = Len(q) + 1
           /\ \A i \in 1..Len(q) : Append(q, b)[i] = q[i]
           /\ Append(q, b)[Len(q) + 1] = b
  OBVIOUS

\* What a streamed transaction makes of a row.
LEMMA AppliedIs ==
    ASSUME NEW b \in Batch, NEW f, NEW k \in Keys
    PROVE  /\ b.op[k] \in RowOps
           /\ b.op[k] = "s" =>
                 Applied(f, b)[k] = IF \E v \in b.truncs : v > b.v[k] THEN 0
                                    ELSE b.val[k]
           /\ b.op[k] = "d" => Applied(f, b)[k] = 0
           /\ b.op[k] = "none" =>
                 Applied(f, b)[k] = IF b.truncs # {} THEN 0 ELSE f[k]
  <1>1. b.op[k] \in RowOps
    BY DEF Batch
  <1>2. ASSUME b.op[k] = "s"
        PROVE  Applied(f, b)[k] = IF \E v \in b.truncs : v > b.v[k] THEN 0
                                  ELSE b.val[k]
    BY <1>2 DEF Applied
  <1>3. ASSUME b.op[k] = "d" PROVE Applied(f, b)[k] = 0
    BY <1>3 DEF Applied
  <1>4. ASSUME b.op[k] = "none"
        PROVE  Applied(f, b)[k] = IF b.truncs # {} THEN 0 ELSE f[k]
    BY <1>4 DEF Applied
  <1> QED
    BY <1>1, <1>2, <1>3, <1>4, Zenon

\* A row after a streamed transaction is one it carries, the old one or none.
LEMMA AppliedRow ==
    ASSUME NEW b \in Batch, NEW f, NEW k \in Keys
    PROVE  Applied(f, b)[k] \in {b.val[k], 0, f[k]}
  BY AppliedIs DEF RowOps

\* The subscriber's part.
LEMMA SubscriberNext ==
    ASSUME TypeInv, [Next]_vars
    PROVE  /\ SubscriberOK'
           /\ \A i \in 1..Len(wire') : BoundedBatch(wire'[i], Len(txns'))
  <1>0. /\ OwnerOK /\ ServerOK /\ SubscriberOK
        /\ BoundedBatch(batch, Len(txns))
        /\ \A i \in 1..Len(wire) : BoundedBatch(wire[i], Len(txns))
        /\ MaxInFlight \in Nat
    BY StreamerBounds DEF TypeInv, TypeOK
  <1>1. Len(txns) \in Nat /\ Len(txns') \in Nat /\ Len(txns) <= Len(txns')
    BY <1>0, LogGrows
  <1>2. \A i \in 1..Len(wire) : BoundedBatch(wire[i], Len(txns'))
    BY <1>0, <1>1, BatchGrows
  <1>3. /\ subRows \in [Keys -> 0..Len(txns')]
        /\ subVersion \in {NoVersion} \cup 0..Len(txns')
        /\ subWatermark \in 0..Len(txns')
    BY <1>0, <1>1, RowsGrow DEF SubscriberOK
  <1>4. ASSUME UNCHANGED subVars, subPc' \in {"reserve", "restore",
                                             "subscribe", "live"},
               wire' \in {wire, <<>>}
        PROVE  /\ SubscriberOK'
               /\ \A i \in 1..Len(wire') : BoundedBatch(wire'[i], Len(txns'))
    <2>1. CASE wire' = wire
      BY <1>0, <1>2, <1>3, <1>4, <2>1 DEF SubscriberOK, subVars
    <2>2. CASE wire' = <<>>
      BY <1>0, <1>3, <1>4, <2>2 DEF SubscriberOK, subVars
    <2> QED
      BY <1>4, <2>1, <2>2
  <1>5. CASE OwnerCrash \/ Disconnect
    <2>1. /\ UNCHANGED subVars /\ wire' = <<>>
          /\ subPc' = IF subPc = "live" THEN "reserve" ELSE subPc
      BY Zenon, <1>5 DEF OwnerCrash, Disconnect, LoseConnection
    <2> QED
      BY <1>0, <1>4, <2>1 DEF SubscriberOK
  <1>6. CASE Owner /\ ~OwnerCrash
    <2>1. UNCHANGED <<subVars, subPc, wire>>
      BY Zenon, <1>6 DEF Owner, OwnerCommit, OwnerPublish, OwnerReplay,
         OwnerReset, OwnerMetadata, OwnerCopied, OwnerRestart, LitestreamSync
    <2> QED
      BY <1>0, <1>4, <2>1 DEF SubscriberOK
  <1>7. CASE Catchup \/ RecvCommit \/ RecvLagged \/ ResolveRow
             \/ SubscribeFails \/ Subscribe \/ UNCHANGED vars
    <2>1. /\ UNCHANGED <<subVars, wire>>
          /\ subPc' \in {subPc, "reserve", "live"}
      BY Zenon, <1>7 DEF Catchup, RecvCommit, RecvLagged, ResolveRow,
         SubscribeFails, Subscribe, vars
    <2> QED
      BY <1>0, <1>4, <2>1 DEF SubscriberOK
  <1>8. CASE SendTransaction
    <2>1. /\ UNCHANGED <<subVars, subPc, txns>>
          /\ wire' = Append(wire, batch) /\ Len(wire) < MaxInFlight
      BY Zenon, <1>8 DEF SendTransaction, streamVars
    <2>2. batch \in Batch /\ wire \in Seq(Batch)
      BY <1>0 DEF ServerOK, SubscriberOK
    <2>3. /\ wire' \in Seq(Batch) /\ Len(wire) \in Nat
          /\ Len(wire') = Len(wire) + 1
          /\ \A i \in 1..Len(wire) : wire'[i] = wire[i]
          /\ wire'[Len(wire) + 1] = batch
      BY <2>1, <2>2, SentToWire
    <2>4. Len(wire') <= MaxInFlight
      BY <1>0, <2>1, <2>3
    <2>5. ASSUME NEW i \in 1..Len(wire')
          PROVE  BoundedBatch(wire'[i], Len(txns'))
      <3>1. i \in 1..Len(wire) \/ i = Len(wire) + 1
        BY <2>3
      <3> QED
        BY <1>0, <1>2, <2>1, <2>3, <3>1
    <2> QED
      BY <1>0, <2>1, <2>3, <2>4, <2>5 DEF SubscriberOK, subVars
  <1>9. CASE ReserveSnapshot
    BY <1>0, <1>2, <1>9 DEF ReserveSnapshot, SubscriberOK, streamVars
  <1>10. CASE RestoreSnapshot
    BY <1>0, <1>2, <1>10 DEF RestoreSnapshot, SubscriberOK, OwnerOK,
       streamVars
  <1>11. CASE ApplyCommit
    <2>1. /\ wire # <<>> /\ subRows' = Applied(subRows, Head(wire))
          /\ subWatermark' = Head(wire).w /\ wire' = Tail(wire)
          /\ UNCHANGED <<subPc, subVersion, txns>>
      BY Zenon, <1>11 DEF ApplyCommit, streamVars
    <2>2. wire \in Seq(Batch)
      BY <1>0 DEF SubscriberOK
    <2>3. /\ Len(wire) \in Nat /\ Len(wire) >= 1
          /\ Head(wire) = wire[1]
          /\ wire' \in Seq(Batch) /\ Len(wire') = Len(wire) - 1
          /\ \A i \in 1..Len(wire') : i + 1 \in 1..Len(wire)
                                       /\ wire'[i] = wire[i + 1]
      BY <2>1, <2>2, TakenFromWire
    <2>4. BoundedBatch(Head(wire), Len(txns))
      BY <1>0, <2>3
    <2>5. ASSUME NEW k \in Keys
          PROVE  Applied(subRows, Head(wire))[k] \in 0..Len(txns)
      <3>1. Head(wire).val[k] \in 0..Len(txns)
        BY <1>1, <2>4 DEF BoundedBatch, Batch
      <3>2. subRows[k] \in 0..Len(txns)
        BY <1>0 DEF SubscriberOK
      <3>3. Head(wire) \in Batch
        BY <2>4 DEF BoundedBatch
      <3> QED
        BY <1>1, <3>1, <3>2, <3>3, AppliedRow
    <2>6. Applied(subRows, Head(wire)) \in [Keys -> 0..Len(txns)]
      <3> DEFINE b == Head(wire)
                 Row(k) == CASE b.op[k] = "s" ->
                                  IF \E v \in b.truncs : v > b.v[k] THEN 0
                                  ELSE b.val[k]
                             [] b.op[k] = "d" -> 0
                             [] b.op[k] = "none" ->
                                  IF b.truncs # {} THEN 0 ELSE subRows[k]
      <3>1. Applied(subRows, b) = [k \in Keys |-> Row(k)]
        BY Zenon DEF Applied
      <3> HIDE DEF Row
      <3> QED
        BY <2>5, <3>1
    <2>7. subWatermark' \in 0..Len(txns)
      BY <2>1, <2>4 DEF BoundedBatch, Batch
    <2>8. Len(wire') <= MaxInFlight
      BY <1>0, <2>3 DEF SubscriberOK
    <2> QED
      BY <1>0, <2>1, <2>3, <2>6, <2>7, <2>8 DEF SubscriberOK
  <1> QED
    BY <1>5, <1>6, <1>7, <1>8, <1>9, <1>10, <1>11 DEF Next, Serve, ViewSyncer

\* The first state.
LEMMA TypeInit == Init => TypeInv
  <1> SUFFICES ASSUME Init PROVE TypeInv
    OBVIOUS
  <1>1. txns = <<>> /\ Len(txns) = 0 /\ wire = <<>> /\ batch = NoBatch
    BY DEF Init
  <1>2. OwnerOK
    <2>1. unpublished \in BOOLEAN
      BY Zenon DEF Init
    <2>2. /\ wpos = 0 /\ confirmed = 0 /\ owner = "synced" /\ rows = NoRows
          /\ logV = NoRows /\ logOp = [k \in Keys |-> "none"]
          /\ truncs = {} /\ resets = {} /\ replicaVersion = 0
          /\ backup = [rows |-> NoRows, version |-> 0]
      BY Zenon DEF Init
    <2> QED
      BY <1>1, <2>1, <2>2 DEF OwnerOK, NoRows, RowOps
  <1>3. SubscriberOK
    BY <1>1, StreamerBounds DEF Init, SubscriberOK, NoRows
  <1>4. BoundedBatch(batch, Len(txns))
    BY <1>1, NoBatchBounded
  <1>5. ServerOK
    <2>1. /\ task = "idle" /\ last = 0 /\ todo = {} /\ unread = 0
          /\ lagged \in BOOLEAN
      BY Zenon DEF Init
    <2> QED
      BY <1>1, <1>4, <2>1, StreamerBounds DEF ServerOK, BoundedBatch
  <1> QED
    BY <1>1, <1>2, <1>3, <1>4, <1>5 DEF TypeInv, TypeOK

LEMMA TypeNext == TypeInv /\ [Next]_vars => TypeInv'
  BY OwnerNext, ServerNext, SubscriberNext DEF TypeInv, TypeOK

\* Every version a component holds is one of the upstream log, and the
\* notifications a subscriber has not received stay within the capacity of
\* its fan-out channel.
THEOREM TypeCorrect == Spec => []TypeOK
  <1>1. TypeInv => TypeOK
    BY DEF TypeInv
  <1> QED
    BY TypeInit, TypeNext, <1>1, PTL DEF Spec

-----------------------------------------------------------------------------
(* No lost wake-up                                                         *)

\* Something will make serve_subscriber read the log again.
WakeupDue == unread > 0 \/ unpublished \/ wpos < Len(txns)

\* A replica that is being replaced has an empty change log.
EmptyLogUnlessSynced ==
    owner # "synced" => /\ \A k \in Keys : logV[k] = 0
                        /\ truncs = {} /\ resets = {}

\* While a batch is resolved without a wake-up due, the log is the one it was
\* read from, or a resync has emptied it.
BatchIsTheLog ==
    (subPc = "live" /\ task = "resolve" /\ ~WakeupDue) =>
        /\ \A v \in NewerVersions : v <= batch.w
        /\ \/ NewerVersions = {}
           \/ \A k \in todo : k \in NewerKeys /\ logOp[k] = "s"

\* A batch is newer than what was sent before it.
BatchIsNewer == task = "resolve" => batch.w > last

\* A down owner serves nobody.
DownServesNobody == owner = "down" => subPc # "live"

WakeupInv == /\ TypeInv
             /\ EmptyLogUnlessSynced
             /\ BatchIsTheLog
             /\ BatchIsNewer
             /\ DownServesNobody
             /\ NoLostWakeup

\* serve_subscriber waits although it has something to send.
WaitsWithNews ==
    /\ subPc = "live" /\ task = "idle" /\ owner = "synced"
    /\ NewerVersions # {}
    /\ ~\E v \in resets : v > last
    /\ \A k \in NewerKeys : logOp[k] = "s" => rows[k] # 0

LEMMA NoLostWakeupMeans == NoLostWakeup <=> (WaitsWithNews => WakeupDue)
  BY Zenon DEF NoLostWakeup, WaitsWithNews, WakeupDue

\* What is newer depends on the log and on last only.
LEMMA SameNews ==
    ASSUME UNCHANGED <<logV, truncs, last>>
    PROVE  NewerKeys' = NewerKeys /\ NewerVersions' = NewerVersions
  <1>1. NewerKeys' = NewerKeys
    BY DEF NewerKeys
  <1> QED
    BY <1>1 DEF NewerVersions

\* An empty log has no news.
LEMMA EmptyLogNoNews ==
    ASSUME NEW lv, NEW tr, NEW l \in Nat,
           \A k \in Keys : lv[k] = 0, tr = {}
    PROVE  {lv[k] : k \in {j \in Keys : lv[j] > l}} \cup {v \in tr : v > l}
              = {}
  <1>1. {j \in Keys : lv[j] > l} = {}
    OBVIOUS
  <1>2. {v \in tr : v > l} = {}
    OBVIOUS
  <1> QED
    BY <1>1, <1>2, Zenon

LEMMA EmptyLogNext ==
    ASSUME EmptyLogUnlessSynced, [Next]_vars PROVE EmptyLogUnlessSynced'
  <1> USE DEF EmptyLogUnlessSynced
  <1>1. CASE OwnerReset \/ OwnerCrash
    <2>1. NoReplica
      BY Zenon, <1>1 DEF OwnerReset, OwnerCrash
    <2> QED
      BY <2>1 DEF NoReplica, NoRows
  <1>2. CASE OwnerCommit \/ OwnerCopied \/ OwnerRestart
    BY <1>2 DEF OwnerCommit, OwnerCopied, OwnerRestart
  <1>3. CASE OwnerMetadata
    BY <1>3 DEF OwnerMetadata
  <1>4. ASSUME UNCHANGED ownerVars PROVE EmptyLogUnlessSynced'
    BY <1>4 DEF ownerVars
  <1>5. CASE OwnerPublish \/ OwnerReplay \/ LitestreamSync \/ Disconnect
    BY Zenon, <1>4, <1>5 DEF OwnerPublish, OwnerReplay, LitestreamSync,
       Disconnect
  <1>6. CASE Serve
    BY Zenon, <1>4, <1>6 DEF Serve, Catchup, RecvCommit, RecvLagged,
       ResolveRow, SendTransaction
  <1>7. CASE ViewSyncer
    BY Zenon, <1>4, <1>7 DEF ViewSyncer, ReserveSnapshot, RestoreSnapshot,
       Subscribe, SubscribeFails, ApplyCommit
  <1>8. CASE UNCHANGED vars
    BY Zenon, <1>4, <1>8 DEF vars
  <1> QED
    BY <1>1, <1>2, <1>3, <1>5, <1>6, <1>7, <1>8 DEF Next, Owner

LEMMA DownNext ==
    ASSUME DownServesNobody, [Next]_vars PROVE DownServesNobody'
  <1> USE DEF DownServesNobody
  <1>1. CASE OwnerCrash
    BY Zenon, <1>1 DEF OwnerCrash, LoseConnection
  <1>2. CASE OwnerCommit \/ OwnerCopied \/ OwnerRestart \/ OwnerReset
             \/ OwnerMetadata
    BY <1>2 DEF OwnerCommit, OwnerCopied, OwnerRestart, OwnerReset,
       OwnerMetadata
  <1>3. CASE OwnerPublish \/ OwnerReplay \/ LitestreamSync
    BY Zenon, <1>3 DEF OwnerPublish, OwnerReplay, LitestreamSync, ownerVars
  <1>4. CASE Serve
    BY Zenon, <1>4 DEF Serve, Catchup, RecvCommit, RecvLagged,
       ResolveRow, SendTransaction, ownerVars
  <1>5. CASE ViewSyncer
    BY <1>5 DEF ViewSyncer, ReserveSnapshot, RestoreSnapshot,
       Subscribe, SubscribeFails, ApplyCommit, ownerVars
  <1>6. CASE Disconnect
    BY Zenon, <1>6 DEF Disconnect, ownerVars
  <1>7. CASE UNCHANGED vars
    BY Zenon, <1>7 DEF vars, ownerVars
  <1> QED
    BY <1>1, <1>2, <1>3, <1>4, <1>5, <1>6, <1>7 DEF Next, Owner

\* read_since returns entries newer than last.
LEMMA ReadLogNewer ==
    ASSUME TypeOK, ReadLog, task' = "resolve"
    PROVE  batch'.w > last
  <1>1. PICK w \in NewerVersions :
           batch' = [w   |-> w,
                     op  |-> [k \in Keys |-> IF k \in NewerKeys
                                             THEN logOp[k] ELSE "none"],
                     v   |-> [k \in Keys |-> IF k \in NewerKeys
                                             THEN logV[k] ELSE 0],
                     val |-> NoRows,
                     truncs |-> {v \in truncs : v > last}]
    BY DEF ReadLog
  <1>2. w > last
    BY DEF NewerVersions, NewerKeys
  <1> QED
    BY <1>1, <1>2

LEMMA NewerNext ==
    ASSUME TypeInv, BatchIsNewer, [Next]_vars PROVE BatchIsNewer'
  <1> USE DEF BatchIsNewer
  <1>1. ASSUME UNCHANGED taskVars PROVE BatchIsNewer'
    BY <1>1 DEF taskVars
  <1>2. CASE OwnerCrash \/ Disconnect
    BY <1>2 DEF OwnerCrash, Disconnect, LoseConnection
  <1>3. CASE Owner /\ ~OwnerCrash
    BY Zenon, <1>1, <1>3 DEF Owner, OwnerCommit, OwnerPublish, OwnerReplay,
       OwnerReset, OwnerMetadata, OwnerCopied, OwnerRestart, LitestreamSync
  <1>4. CASE Catchup \/ RecvCommit
    <2>1. ReadLog /\ UNCHANGED last /\ TypeOK
      BY <1>4 DEF Catchup, RecvCommit, TypeInv
    <2> QED
      BY <2>1, ReadLogNewer
  <1>5. CASE ResolveRow
    <2>1. PICK k \in todo :
             \/ task' = "idle"
             \/ batch' = [batch EXCEPT !.val[k] = rows[k]] /\ UNCHANGED task
      BY <1>5 DEF ResolveRow
    <2>2. UNCHANGED last /\ batch \in Batch
      BY <1>5 DEF ResolveRow, TypeInv, TypeOK, ServerOK
    <2>3. [batch EXCEPT !.val[k] = rows[k]].w = batch.w
      BY <2>2 DEF Batch
    <2> QED
      BY <2>1, <2>2, <2>3
  <1>6. CASE SendTransaction \/ Subscribe
    BY <1>6 DEF SendTransaction, Subscribe
  <1>7. CASE RecvLagged \/ (ViewSyncer /\ ~Subscribe) \/ UNCHANGED vars
    BY Zenon, <1>1, <1>7 DEF RecvLagged, ViewSyncer, ReserveSnapshot,
       RestoreSnapshot, SubscribeFails, ApplyCommit, vars
  <1> QED
    BY <1>2, <1>3, <1>4, <1>5, <1>6, <1>7 DEF Next, Serve

\* A wake-up that is due stays due until serve_subscriber reads the log, the
\* replica is replaced or the subscriber is gone.
LEMMA WakeupStays ==
    ASSUME TypeInv, [Next]_vars, WakeupDue, subPc' = "live", subPc = "live",
           ~OwnerMetadata, ~OwnerCrash, ~RecvCommit, ~OwnerRestart
    PROVE  WakeupDue'
  <1>0. /\ wpos \in Nat /\ Len(txns) \in Nat /\ wpos <= Len(txns)
        /\ confirmed \in Nat
        /\ unread \in Nat /\ unread <= Capacity /\ Capacity > 0
        /\ Capacity \in Nat
    BY StreamerBounds DEF TypeInv, TypeOK, OwnerOK, ServerOK
  <1>1. CASE OwnerCommit
    BY Zenon, <1>1 DEF OwnerCommit, WakeupDue
  <1>2. CASE OwnerPublish
    <2>1. unread' > 0
      BY <1>0, <1>2 DEF OwnerPublish, Notify
    <2> QED
      BY <2>1, Zenon DEF WakeupDue
  <1>3. CASE OwnerReplay
    <2>1. PICK p \in confirmed..wpos : (unpublished => p < wpos) /\ wpos' = p
      BY <1>3 DEF OwnerReplay
    <2>2. UNCHANGED <<txns, unread>>
      BY Zenon, <1>3 DEF OwnerReplay, fanVars
    <2>3. CASE unread > 0
      BY <2>2, <2>3, Zenon DEF WakeupDue
    <2>4. CASE unpublished \/ wpos < Len(txns)
      <3>1. wpos' < Len(txns')
        BY <1>0, <2>1, <2>2, <2>4
      <3> QED
        BY <3>1, Zenon DEF WakeupDue
    <2> QED
      BY <2>3, <2>4, Zenon DEF WakeupDue
  <1>4. ASSUME UNCHANGED <<txns, wpos, unpublished, unread>>
        PROVE  WakeupDue'
    BY <1>4, Zenon DEF WakeupDue
  <1>5. CASE OwnerReset \/ OwnerCopied \/ LitestreamSync
    BY Zenon, <1>4, <1>5 DEF OwnerReset, OwnerCopied, LitestreamSync,
       streamVars, fanVars
  <1>6. CASE Catchup \/ RecvLagged \/ ResolveRow \/ SendTransaction
    BY Zenon, <1>4, <1>6 DEF Catchup, RecvLagged, ResolveRow,
       SendTransaction, streamVars, fanVars
  <1>7. CASE ViewSyncer
    BY Zenon, <1>4, <1>7 DEF ViewSyncer, ReserveSnapshot, RestoreSnapshot,
       Subscribe, SubscribeFails, ApplyCommit, streamVars, fanVars
  <1>8. CASE Disconnect
    <2>1. subPc' = "reserve"
      BY <1>8, Zenon DEF Disconnect, LoseConnection
    <2> QED
      BY <2>1
  <1>9. CASE UNCHANGED vars
    BY Zenon, <1>4, <1>9 DEF vars, streamVars, fanVars
  <1> QED
    BY <1>1, <1>2, <1>3, <1>5, <1>6, <1>7, <1>8, <1>9 DEF Next, Owner, Serve

\* The batch being resolved and the log.
LEMMA BatchIsTheLogNext ==
    ASSUME WakeupInv, [Next]_vars PROVE BatchIsTheLog'
  <1> SUFFICES ASSUME subPc' = "live", task' = "resolve", ~WakeupDue'
               PROVE  /\ \A v \in NewerVersions' : v <= batch'.w
                      /\ \/ NewerVersions' = {}
                         \/ \A k \in todo' : k \in NewerKeys'
                                            /\ logOp'[k] = "s"
    BY DEF BatchIsTheLog
  <1>0. TypeInv /\ TypeOK /\ TypeInv' /\ TypeOK'
    BY TypeNext DEF WakeupInv, TypeInv
  <1>1. ASSUME ReadLog, UNCHANGED <<ownerVars, last>>
        PROVE  /\ \A v \in NewerVersions' : v <= batch'.w
               /\ \A k \in todo' : k \in NewerKeys' /\ logOp'[k] = "s"
    <2>1. /\ NewerKeys' = NewerKeys /\ NewerVersions' = NewerVersions
          /\ logOp' = logOp
      BY <1>1, SameNews DEF ownerVars
    <2>2. PICK w \in NewerVersions :
             /\ IsWatermark(w)
             /\ batch' = [w   |-> w,
                          op  |-> [k \in Keys |-> IF k \in NewerKeys
                                                  THEN logOp[k] ELSE "none"],
                          v   |-> [k \in Keys |-> IF k \in NewerKeys
                                                  THEN logV[k] ELSE 0],
                          val |-> NoRows,
                          truncs |-> {v \in truncs : v > last}]
      BY <1>1 DEF ReadLog
    <2>3. todo' = {k \in NewerKeys : logOp[k] = "s"}
      BY <1>1 DEF ReadLog
    <2>4. batch'.w = w
      BY <2>2
    <2> QED
      BY <2>1, <2>2, <2>3, <2>4 DEF IsWatermark
  <1>2. CASE Catchup \/ RecvCommit
    <2>1. ReadLog /\ UNCHANGED <<ownerVars, last>>
      BY Zenon, <1>2 DEF Catchup, RecvCommit
    <2> QED
      BY <1>1, <2>1
  <1>3. CASE OwnerMetadata \/ OwnerReset \/ OwnerCopied
    <2>1. (\A k \in Keys : logV'[k] = 0) /\ truncs' = {}
      <3>1. CASE OwnerReset
        <4>1. NoReplica
          BY <3>1 DEF OwnerReset
        <4> QED
          BY <4>1 DEF NoReplica, NoRows
      <3>2. CASE OwnerMetadata \/ OwnerCopied
        BY <3>2 DEF OwnerMetadata, OwnerCopied, WakeupInv,
           EmptyLogUnlessSynced
      <3> QED
        BY <1>3, <3>1, <3>2
    <2>2. NewerVersions' = {}
      <3>1. last' \in Nat
        BY <1>0 DEF TypeOK, ServerOK
      <3> QED
        BY Zenon, <2>1, <3>1, EmptyLogNoNews DEF NewerVersions, NewerKeys
    <2> QED
      BY <2>2
  <1>4. CASE OwnerCommit
    BY Zenon, <1>4 DEF OwnerCommit, WakeupDue
  <1>5. CASE OwnerCrash \/ Disconnect \/ SendTransaction \/ Subscribe
    BY <1>5 DEF OwnerCrash, Disconnect, LoseConnection, SendTransaction,
       Subscribe
  <1>6. CASE OwnerRestart
    BY <1>6 DEF OwnerRestart, WakeupInv, DownServesNobody
  <1>7. ASSUME UNCHANGED <<ownerVars, subPc, task, last>>,
               ~OwnerMetadata, ~OwnerCrash, ~RecvCommit, ~OwnerRestart,
               todo' \subseteq todo, batch'.w = batch.w
        PROVE  /\ \A v \in NewerVersions' : v <= batch'.w
               /\ \/ NewerVersions' = {}
                  \/ \A k \in todo' : k \in NewerKeys' /\ logOp'[k] = "s"
    <2>1. ~WakeupDue /\ subPc = "live" /\ task = "resolve"
      BY <1>0, <1>7, WakeupStays
    <2>2. /\ \A v \in NewerVersions : v <= batch.w
          /\ \/ NewerVersions = {}
             \/ \A k \in todo : k \in NewerKeys /\ logOp[k] = "s"
      BY <2>1 DEF WakeupInv, BatchIsTheLog
    <2>3. /\ NewerKeys' = NewerKeys /\ NewerVersions' = NewerVersions
          /\ logOp' = logOp
      BY <1>7, SameNews DEF ownerVars
    <2> QED
      BY <1>7, <2>2, <2>3
  <1>8. CASE OwnerPublish \/ OwnerReplay \/ LitestreamSync
    <2>1. /\ UNCHANGED <<ownerVars, subPc, taskVars>>
      BY Zenon, <1>8 DEF OwnerPublish, OwnerReplay, LitestreamSync
    <2>2. ~OwnerMetadata /\ ~OwnerCrash /\ ~OwnerRestart
      BY <2>1 DEF OwnerMetadata, OwnerCrash, OwnerRestart, ownerVars
    <2>3. ~RecvCommit
      BY <2>1 DEF RecvCommit, taskVars
    <2> QED
      BY <1>7, <2>1, <2>2, <2>3 DEF taskVars
  <1>9. CASE RecvLagged \/ ApplyCommit \/ ReserveSnapshot \/ RestoreSnapshot
             \/ SubscribeFails \/ UNCHANGED vars
    <2>1. /\ UNCHANGED <<ownerVars, taskVars>>
          /\ UNCHANGED subPc \/ subPc' # "live"
      BY Zenon, <1>9 DEF RecvLagged, ApplyCommit, ReserveSnapshot,
         RestoreSnapshot, SubscribeFails, vars
    <2>2. ~OwnerMetadata /\ ~OwnerCrash /\ ~OwnerRestart
      BY <2>1 DEF OwnerMetadata, OwnerCrash, OwnerRestart, ownerVars
    <2>3. ~RecvCommit
      BY <2>1 DEF RecvCommit, taskVars
    <2> QED
      BY <1>7, <2>1, <2>2, <2>3 DEF taskVars
  <1>10. CASE ResolveRow
    <2>1. UNCHANGED <<ownerVars, subPc, last>>
      BY Zenon, <1>10 DEF ResolveRow
    <2>2. ~OwnerMetadata /\ ~OwnerCrash /\ ~OwnerRestart
      BY <2>1 DEF OwnerMetadata, OwnerCrash, OwnerRestart, ownerVars
    <2>3. ~RecvCommit /\ task = "resolve"
      BY <1>10 DEF ResolveRow, RecvCommit
    <2>4. PICK k \in todo : /\ batch' = [batch EXCEPT !.val[k] = rows[k]]
                            /\ todo' = todo \ {k}
      BY <1>10 DEF ResolveRow
    <2>5. batch \in Batch
      BY <1>0 DEF TypeOK, ServerOK
    <2>6. batch'.w = batch.w
      BY <2>4, <2>5 DEF Batch
    <2> QED
      BY <1>7, <2>1, <2>2, <2>3, <2>4, <2>6
  <1> QED
    BY <1>2, <1>3, <1>4, <1>5, <1>6, <1>8, <1>9, <1>10
       DEF Next, Owner, Serve, ViewSyncer

\* Nobody is left waiting.
LEMMA NoLostWakeupNext ==
    ASSUME WakeupInv, [Next]_vars PROVE NoLostWakeup'
  <1> SUFFICES ASSUME WaitsWithNews' PROVE WakeupDue'
    BY Zenon DEF NoLostWakeup, WaitsWithNews, WakeupDue
  <1>0. /\ TypeInv /\ TypeOK /\ TypeInv' /\ TypeOK'
        /\ subPc' = "live" /\ task' = "idle" /\ owner' = "synced"
        /\ NewerVersions' # {}
    BY TypeNext DEF WakeupInv, TypeInv, WaitsWithNews
  <1>1. CASE OwnerCommit
    BY Zenon, <1>1 DEF OwnerCommit, WakeupDue
  <1>2. CASE OwnerReset \/ OwnerMetadata \/ OwnerCrash \/ OwnerCopied
             \/ OwnerRestart
    <2>1. CASE OwnerReset \/ OwnerMetadata \/ OwnerCrash
      BY <1>0, <2>1 DEF OwnerReset, OwnerMetadata, OwnerCrash
    <2>2. CASE OwnerCopied \/ OwnerRestart
      <3>1. (\A k \in Keys : logV'[k] = 0) /\ truncs' = {}
        BY <2>2 DEF OwnerCopied, OwnerRestart, WakeupInv,
           EmptyLogUnlessSynced
      <3>2. NewerVersions' = {}
        <4>1. last' \in Nat
          BY <1>0 DEF TypeOK, ServerOK
        <4> QED
          BY Zenon, <3>1, <4>1, EmptyLogNoNews DEF NewerVersions, NewerKeys
      <3> QED
        BY <1>0, <3>2
    <2> QED
      BY <1>2, <2>1, <2>2
  <1>3. CASE Catchup \/ RecvCommit
    <2>1. ReadLog /\ UNCHANGED <<ownerVars, last>>
      BY Zenon, <1>3 DEF Catchup, RecvCommit
    <2>2. \/ owner = "resetting" \/ NewerVersions = {}
          \/ \E v \in resets : v > last
      BY <1>0, <2>1 DEF ReadLog
    <2>3. NewerVersions' = NewerVersions
      BY <2>1, SameNews DEF ownerVars
    <2> QED
      BY <1>0, <2>1, <2>2, <2>3 DEF WaitsWithNews, ownerVars
  <1>4. CASE Subscribe \/ Disconnect
    BY <1>0, <1>4 DEF Subscribe, Disconnect, LoseConnection
  <1>5. ASSUME UNCHANGED <<ownerVars, subPc, taskVars>>
        PROVE  WakeupDue'
    <2>1. WaitsWithNews
      <3>1. NewerKeys' = NewerKeys /\ NewerVersions' = NewerVersions
        BY <1>5, SameNews DEF ownerVars, taskVars
      <3> QED
        BY <1>5, <3>1 DEF WaitsWithNews, ownerVars, taskVars
    <2>2. WakeupDue
      BY <2>1, NoLostWakeupMeans DEF WakeupInv
    <2>3. ~OwnerMetadata /\ ~OwnerCrash /\ ~OwnerRestart
      BY <1>5 DEF OwnerMetadata, OwnerCrash, OwnerRestart, ownerVars
    <2>4. CASE ~RecvCommit
      BY <1>0, <1>5, <2>2, <2>3, <2>4, WakeupStays
    <2> QED
      BY <1>3, <2>4
  <1>6. CASE OwnerPublish \/ OwnerReplay \/ LitestreamSync \/ UNCHANGED vars
    BY Zenon, <1>5, <1>6 DEF OwnerPublish, OwnerReplay, LitestreamSync, vars
  <1>7. CASE RecvLagged \/ ApplyCommit
    BY Zenon, <1>5, <1>7 DEF RecvLagged, ApplyCommit
  <1>8. CASE ReserveSnapshot \/ RestoreSnapshot \/ SubscribeFails
    BY Zenon, <1>0, <1>8 DEF ReserveSnapshot, RestoreSnapshot, SubscribeFails
  <1>9. CASE ResolveRow
    <2>1. UNCHANGED <<ownerVars, subPc, last>>
      BY Zenon, <1>9 DEF ResolveRow
    <2>2. subPc = "live" /\ task = "resolve"
      BY <1>9 DEF ResolveRow
    <2>3. PICK k \in todo : owner = "resetting" \/ rows[k] = 0
      BY <1>0, <1>9, <2>2 DEF ResolveRow
    <2>4. NewerKeys' = NewerKeys /\ NewerVersions' = NewerVersions
      BY <2>1, SameNews DEF ownerVars
    <2>5. ~(k \in NewerKeys /\ logOp[k] = "s")
      BY <1>0, <2>1, <2>3, <2>4 DEF WaitsWithNews, ownerVars
    <2>6. WakeupDue
      BY <1>0, <2>2, <2>4, <2>5 DEF WakeupInv, BatchIsTheLog
    <2>7. UNCHANGED <<txns, wpos, unpublished, unread>>
      BY Zenon, <1>9 DEF ResolveRow, streamVars, fanVars
    <2> QED
      BY Zenon, <2>6, <2>7 DEF WakeupDue
  <1>10. CASE SendTransaction
    <2>1. /\ UNCHANGED <<ownerVars, subPc>> /\ last' = batch.w
          /\ subPc = "live" /\ task = "resolve"
      BY Zenon, <1>10 DEF SendTransaction
    <2>2. /\ last \in Nat /\ batch.w \in Nat /\ batch.w > last
          /\ \A k \in Keys : logV[k] \in Nat
          /\ \A v \in truncs : v \in Nat
      BY SMTT(40), <1>0, <2>1 DEF TypeOK, ServerOK, OwnerOK, Batch, WakeupInv,
         BatchIsNewer
    <2>3. PICK v \in NewerVersions' : TRUE
      BY <1>0
    <2>4. v \in NewerVersions /\ v > batch.w /\ v \in Nat
      BY <2>1, <2>2, <2>3 DEF NewerVersions, NewerKeys, ownerVars
    <2>5. WakeupDue
      BY <2>1, <2>2, <2>4 DEF WakeupInv, BatchIsTheLog
    <2>6. UNCHANGED <<txns, wpos, unpublished, unread>>
      BY Zenon, <1>10 DEF SendTransaction, streamVars, fanVars
    <2> QED
      BY Zenon, <2>5, <2>6 DEF WakeupDue
  <1> QED
    BY <1>1, <1>2, <1>3, <1>4, <1>6, <1>7, <1>8, <1>9, <1>10
       DEF Next, Owner, Serve, ViewSyncer

\* A subscriber that waits has been sent everything that resolves, or a
\* notification, a commit that is not published yet or a replay is still to
\* wake it: ChangeFanout may drop notifications, serve_subscriber never loses
\* the wake-up.  It holds across replays, resyncs and crashes of the owner.
THEOREM WakeupsAreNeverLost == Spec => []NoLostWakeup
  <1>1. Init => WakeupInv
    <2> SUFFICES ASSUME Init PROVE WakeupInv
      OBVIOUS
    <2>1. TypeInv
      BY TypeInit
    <2>2. /\ owner = "synced" /\ subPc = "reserve" /\ task = "idle"
      BY DEF Init
    <2> QED
      BY <2>1, <2>2 DEF WakeupInv, EmptyLogUnlessSynced, BatchIsTheLog,
         BatchIsNewer, DownServesNobody, NoLostWakeup
  <1>2. WakeupInv /\ [Next]_vars => WakeupInv'
    BY TypeNext, EmptyLogNext, DownNext, NewerNext, BatchIsTheLogNext,
       NoLostWakeupNext DEF WakeupInv
  <1>3. WakeupInv => NoLostWakeup
    BY DEF WakeupInv
  <1> QED
    BY <1>1, <1>2, <1>3, PTL DEF Spec

-----------------------------------------------------------------------------
(* One snapshot                                                            *)

\* The running owner never replaces its replica.
NeverResynced == resyncs \in Nat /\ owner \in {"synced", "down"}

SnapshotInv == NeverResynced /\ DownServesNobody /\ LiveOnSameSnapshot

LEMMA NeverResyncedNext ==
    ASSUME MaxResyncs = 0, NeverResynced, [Next]_vars PROVE NeverResynced'
  <1> USE DEF NeverResynced
  <1>1. CASE OwnerReset
    BY <1>1 DEF OwnerReset
  <1>2. CASE OwnerMetadata \/ OwnerCopied
    BY <1>2 DEF OwnerMetadata, OwnerCopied
  <1>3. CASE OwnerCrash \/ OwnerRestart
    BY Zenon, <1>3 DEF OwnerCrash, OwnerRestart, countVars
  <1>4. CASE OwnerCommit \/ OwnerPublish \/ OwnerReplay \/ LitestreamSync
    BY Zenon, <1>4 DEF OwnerCommit, OwnerPublish, OwnerReplay, LitestreamSync,
       countVars, ownerVars
  <1>5. CASE Serve
    BY Zenon, <1>5 DEF Serve, Catchup, RecvCommit, RecvLagged, ResolveRow,
       SendTransaction, countVars, ownerVars
  <1>6. CASE ViewSyncer
    BY Zenon, <1>6 DEF ViewSyncer, ReserveSnapshot, RestoreSnapshot,
       Subscribe, SubscribeFails, ApplyCommit, countVars, ownerVars
  <1>7. CASE Disconnect \/ UNCHANGED vars
    BY Zenon, <1>7 DEF Disconnect, vars, countVars, ownerVars
  <1> QED
    BY <1>1, <1>2, <1>3, <1>4, <1>5, <1>6, <1>7 DEF Next, Owner

LEMMA LiveNext ==
    ASSUME MaxResyncs = 0, SnapshotInv, [Next]_vars
    PROVE  LiveOnSameSnapshot'
  <1> USE DEF LiveOnSameSnapshot
  <1>0. /\ owner \in {"synced", "down"} /\ resyncs \in Nat
        /\ owner = "down" => subPc # "live"
        /\ subPc = "live" => subVersion = replicaVersion
    BY DEF SnapshotInv, NeverResynced, DownServesNobody
  <1>1. CASE OwnerReset \/ OwnerMetadata \/ OwnerCopied
    BY <1>0, <1>1 DEF OwnerReset, OwnerMetadata, OwnerCopied
  <1>2. CASE OwnerCrash \/ Disconnect
    <2>1. subPc' # "live"
      BY Zenon, <1>2 DEF OwnerCrash, Disconnect, LoseConnection
    <2> QED
      BY <2>1
  <1>3. CASE OwnerRestart
    <2>1. UNCHANGED subPc /\ subPc # "live"
      BY <1>0, <1>3 DEF OwnerRestart
    <2> QED
      BY <2>1
  <1>4. CASE OwnerCommit \/ OwnerPublish \/ OwnerReplay \/ LitestreamSync
    BY Zenon, <1>0, <1>4 DEF OwnerCommit, OwnerPublish, OwnerReplay,
       LitestreamSync, ownerVars, subVars
  <1>5. CASE Serve
    BY Zenon, <1>0, <1>5 DEF Serve, Catchup, RecvCommit, RecvLagged,
       ResolveRow, SendTransaction, ownerVars, subVars
  <1>6. CASE Subscribe
    <2>1. ~Rejected /\ UNCHANGED <<ownerVars, subVars>>
      BY Zenon, <1>6 DEF Subscribe
    <2>2. ~WrongReplicaVersion
      BY <1>0, <2>1 DEF Rejected
    <2> QED
      BY <2>1, <2>2 DEF WrongReplicaVersion, ownerVars, subVars
  <1>7. CASE ReserveSnapshot \/ RestoreSnapshot \/ SubscribeFails
    <2>1. subPc' # "live"
      BY Zenon, <1>7 DEF ReserveSnapshot, RestoreSnapshot, SubscribeFails
    <2> QED
      BY <2>1
  <1>8. CASE ApplyCommit \/ UNCHANGED vars
    BY Zenon, <1>0, <1>8 DEF ApplyCommit, vars, ownerVars, subVars
  <1> QED
    BY <1>1, <1>2, <1>3, <1>4, <1>5, <1>6, <1>7, <1>8
       DEF Next, Owner, ViewSyncer

\* With an owner that resyncs only by restarting, a view-syncer is served from
\* the snapshot its replica derives from: validate_subscription compares the
\* versions and a connection does not outlive the owner's process.
THEOREM ServedFromOneSnapshot ==
    ASSUME MaxResyncs = 0 PROVE Spec => []LiveOnSameSnapshot
  <1>1. Init => SnapshotInv
    BY DEF Init, SnapshotInv, NeverResynced, DownServesNobody,
       LiveOnSameSnapshot
  <1>2. SnapshotInv /\ [Next]_vars => SnapshotInv'
    BY NeverResyncedNext, DownNext, LiveNext DEF SnapshotInv
  <1>3. SnapshotInv => LiveOnSameSnapshot
    BY DEF SnapshotInv
  <1> QED
    BY <1>1, <1>2, <1>3, PTL DEF Spec

-----------------------------------------------------------------------------
(* Nothing missed                                                          *)

\* The session never leaves the end of the log.
AtTheEnd == replays \in Nat /\ wpos = Len(txns)

\* The owner's rows are the upstream's.
OwnerRowsCurrent ==
    owner = "synced" =>
        \A k \in Keys : HasValue(txns, k, Len(txns), rows[k])

\* Every change since the initial sync is in the change log, and an entry is
\* the last operation on its row.
LogIsComplete ==
    owner = "synced" =>
        /\ \A i \in 1..Len(txns) : i > replicaVersion =>
              /\ \A k \in Keys : txns[i].op[k] # "none" => logV[k] >= i
              /\ txns[i].wide = "t" => i \in truncs
        /\ \A k \in Keys : logV[k] > 0 => /\ logOp[k] # "none"
                                           /\ logOp[k] = txns[logV[k]].op[k]
        /\ \A k \in Keys, i \in 1..Len(txns) :
              logV[k] > 0 /\ i > logV[k] => txns[i].op[k] = "none"
        /\ \A i \in truncs : txns[i].wide = "t"

\* A backup holds everything up to the version it is labelled with.
BackupComplete ==
    \A k \in Keys : HasValueSince(txns, k, backup.version, backup.rows[k])

\* b leaves the row of k alone.
Leaves(b, k) == b.op[k] = "none" /\ b.truncs = {}

\* The entry of k in b is followed by a truncation.
Truncated(b, k) == \E v \in b.truncs : v > b.v[k]

\* b takes a replica that is complete at from to one complete at b.w, once
\* the rows of ks are read.
Carries(h, b, from, ks) ==
    /\ from < b.w /\ b.w <= Len(h)
    /\ \A k \in Keys :
          /\ Leaves(b, k) => \A i \in (from + 1)..b.w : ~Touches(h, i, k)
          /\ ~Leaves(b, k) /\ (k \notin ks \/ Truncated(b, k)) =>
                HasValueSince(h, k, b.w, Applied(NoRows, b)[k])

\* The watermark before the i-th transaction on the socket is applied.
WatermarkBefore(q, w, i) == IF i = 1 THEN w ELSE q[i - 1].w

\* The transactions on the socket and the one being built take the view-syncer
\* from its watermark on without a gap.
StreamIsGapless ==
    subPc = "live" =>
        /\ last >= replicaVersion
        /\ last = WatermarkBefore(wire, subWatermark, Len(wire) + 1)
        /\ \A i \in 1..Len(wire) :
              Carries(txns, wire[i], WatermarkBefore(wire, subWatermark, i), {})
        /\ task = "resolve" => Carries(txns, batch, last, todo)

\* A new connection has an empty socket.
SocketIsFresh == subPc # "live" => wire = <<>>

\* What is being resolved is set by the batch.
TodoIsSet == \A k \in todo : batch.op[k] = "s"

\* A replica is never older than the snapshot it derives from; one is restored
\* only in the place of none.
ReplicaDerives ==
    /\ subVersion # NoVersion => subVersion <= subWatermark
    /\ subPc = "restore" => subVersion = NoVersion

FollowInv == /\ TypeInv /\ SnapshotInv
             /\ AtTheEnd
             /\ EmptyLogUnlessSynced
             /\ OwnerRowsCurrent /\ LogIsComplete
             /\ BackupComplete
             /\ TodoIsSet /\ SocketIsFresh /\ StreamIsGapless
             /\ ReplicaDerives
             /\ NothingMissed

\* A value of the log is one of the longer log.
LEMMA SinceNext ==
    ASSUME OwnerOK, [Next]_vars, NEW k, NEW w \in Nat, NEW x,
           HasValueSince(txns, k, w, x)
    PROVE  HasValueSince(txns', k, w, x)
  <1>1. txns' = txns \/ \E t \in Txn : txns' = Append(txns, t)
    BY LogGrows
  <1>2. txns \in Seq(Txn)
    BY DEF OwnerOK
  <1> QED
    BY <1>1, <1>2, SinceAppend

LEMMA AtTheEndNext ==
    ASSUME MaxReplays = 0, FollowInv, [Next]_vars PROVE AtTheEnd'
  <1>0. /\ OwnerOK /\ owner \in {"synced", "down"} /\ replays \in Nat
        /\ wpos = Len(txns) /\ txns \in Seq(Txn)
    BY DEF FollowInv, TypeInv, TypeOK, OwnerOK, SnapshotInv, NeverResynced,
       AtTheEnd
  <1> USE DEF AtTheEnd
  <1>1. CASE OwnerCommit
    <2>1. /\ \E t \in Txn : NextTxn(t)
          /\ wpos' = wpos + 1 /\ UNCHANGED replays
      BY Zenon, <1>1 DEF OwnerCommit, countVars
    <2>2. PICK t \in Txn : txns' = Append(txns, t)
      BY <1>0, <2>1 DEF NextTxn
    <2> QED
      BY <1>0, <2>1, <2>2, AppendedLog
  <1>2. CASE OwnerReplay
    BY <1>0, <1>2 DEF OwnerReplay
  <1>3. CASE OwnerMetadata
    BY <1>0, <1>3 DEF OwnerMetadata
  <1>4. CASE OwnerRestart
    <2>1. NewSnapshot /\ UNCHANGED replays
      BY Zenon, <1>4 DEF OwnerRestart, countVars
    <2>2. EmptyTxn \in Txn
      BY DEF EmptyTxn, Txn, RowOps, WideOpsAll
    <2> QED
      BY <1>0, <2>1, <2>2, AppendedLog DEF NewSnapshot
  <1>5. CASE OwnerPublish \/ OwnerReset \/ OwnerCopied \/ OwnerCrash
             \/ LitestreamSync \/ Disconnect \/ UNCHANGED vars
    BY Zenon, <1>0, <1>5 DEF OwnerPublish, OwnerReset, OwnerCopied,
       OwnerCrash, LitestreamSync, Disconnect, vars, streamVars, countVars
  <1>6. CASE Serve
    BY Zenon, <1>0, <1>6 DEF Serve, Catchup, RecvCommit, RecvLagged,
       ResolveRow, SendTransaction, streamVars, countVars
  <1>7. CASE ViewSyncer
    BY Zenon, <1>0, <1>7 DEF ViewSyncer, ReserveSnapshot, RestoreSnapshot,
       Subscribe, SubscribeFails, ApplyCommit, streamVars, countVars
  <1> QED
    BY <1>1, <1>2, <1>3, <1>4, <1>5, <1>6, <1>7 DEF Next, Owner

\* One replicated transaction, as the owner applies it.
LEMMA CommitIs ==
    ASSUME FollowInv, OwnerCommit
    PROVE  \E t \in Txn :
             /\ txns' = Append(txns, t)
             /\ rows' = [k \in Keys |->
                           CASE t.op[k] = "s" -> Len(txns) + 1
                             [] t.op[k] = "d" -> 0
                             [] t.op[k] = "none" ->
                                   IF t.wide = "t" THEN 0 ELSE rows[k]]
             /\ logV' = EntryVersion(t, Len(txns) + 1)
             /\ logOp' = [k \in Keys |-> IF t.op[k] = "none" THEN logOp[k]
                                         ELSE t.op[k]]
             /\ truncs' = IF t.wide = "t" THEN truncs \cup {Len(txns) + 1}
                          ELSE truncs
  <1>1. wpos = Len(txns) /\ Len(txns) \in Nat
    BY DEF FollowInv, AtTheEnd, TypeInv, TypeOK, OwnerOK
  <1> DEFINE Row(t, k, n) ==
                 CASE t.op[k] = "s" -> n
                   [] t.op[k] = "d" -> 0
                   [] t.op[k] = "none" -> IF t.wide = "t" THEN 0 ELSE rows[k]
  <1>2. PICK t \in Txn :
           /\ NextTxn(t)
           /\ rows' = [k \in Keys |-> Row(t, k, wpos + 1)]
           /\ logV' = EntryVersion(t, wpos + 1)
           /\ logOp' = [k \in Keys |-> IF t.op[k] = "none" THEN logOp[k]
                                       ELSE t.op[k]]
           /\ truncs' = IF t.wide = "t" THEN truncs \cup {wpos + 1}
                        ELSE truncs
    BY Zenon DEF OwnerCommit
  <1>3. txns' = Append(txns, t)
    BY <1>1, <1>2 DEF NextTxn
  <1> HIDE DEF Row
  <1>4. rows' = [k \in Keys |-> Row(t, k, Len(txns) + 1)]
    BY <1>1, <1>2
  <1>5. logV' = EntryVersion(t, Len(txns) + 1)
    BY <1>1, <1>2
  <1>6. truncs' = IF t.wide = "t" THEN truncs \cup {Len(txns) + 1} ELSE truncs
    BY <1>1, <1>2
  <1> QED
    BY Zenon, <1>2, <1>3, <1>4, <1>5, <1>6 DEF Row

\* A step that is neither of these leaves the owner's database alone.
LEMMA OwnerStays ==
    ASSUME MaxReplays = 0, MaxResyncs = 0, FollowInv, [Next]_vars,
           ~OwnerCommit, ~OwnerCrash, ~OwnerRestart
    PROVE  UNCHANGED <<streamVars, ownerVars>>
  <1>0. /\ owner \in {"synced", "down"} /\ resyncs \in Nat /\ replays \in Nat
    BY DEF FollowInv, SnapshotInv, NeverResynced, AtTheEnd
  <1>1. CASE OwnerReplay \/ OwnerReset \/ OwnerMetadata \/ OwnerCopied
    BY <1>0, <1>1 DEF OwnerReplay, OwnerReset, OwnerMetadata, OwnerCopied
  <1>2. CASE OwnerPublish \/ LitestreamSync \/ Disconnect \/ UNCHANGED vars
    BY Zenon, <1>2 DEF OwnerPublish, LitestreamSync, Disconnect, vars
  <1>3. CASE Serve
    BY Zenon, <1>3 DEF Serve, Catchup, RecvCommit, RecvLagged, ResolveRow,
       SendTransaction
  <1>4. CASE ViewSyncer
    BY Zenon, <1>4 DEF ViewSyncer, ReserveSnapshot, RestoreSnapshot,
       Subscribe, SubscribeFails, ApplyCommit
  <1> QED
    BY <1>1, <1>2, <1>3, <1>4 DEF Next, Owner

\* A restarted owner has the rows of a new snapshot and an empty log.
LEMMA RestartIs ==
    ASSUME FollowInv, OwnerRestart
    PROVE  /\ EmptyTxn \in Txn
           /\ txns' = Append(txns, EmptyTxn)
           /\ Len(txns') = Len(txns) + 1
           /\ replicaVersion' = Len(txns) + 1
           /\ \A k \in Keys : HasValue(txns, k, Len(txns), rows'[k])
           /\ \A k \in Keys : logV'[k] = 0
           /\ truncs' = {}
  <1>1. EmptyTxn \in Txn
    BY DEF EmptyTxn, Txn, RowOps, WideOpsAll
  <1>2. txns \in Seq(Txn)
    BY DEF FollowInv, TypeInv, TypeOK, OwnerOK
  <1>3. /\ owner = "down" /\ NewSnapshot /\ rows' \in SnapshotRows(txns)
        /\ UNCHANGED <<logV, truncs>>
    BY Zenon DEF OwnerRestart
  <1>4. \A k \in Keys : HasValue(txns, k, Len(txns), rows'[k])
    BY <1>3 DEF SnapshotRows
  <1>5. (\A k \in Keys : logV[k] = 0) /\ truncs = {}
    BY <1>3 DEF FollowInv, EmptyLogUnlessSynced
  <1> QED
    BY <1>1, <1>2, <1>3, <1>4, <1>5, AppendedLog DEF NewSnapshot

LEMMA OwnerRowsNext ==
    ASSUME MaxReplays = 0, MaxResyncs = 0, FollowInv, [Next]_vars
    PROVE  OwnerRowsCurrent'
  <1>0. txns \in Seq(Txn) /\ OwnerRowsCurrent
    BY DEF FollowInv, TypeInv, TypeOK, OwnerOK
  <1>1. CASE OwnerCommit
    <2>1. PICK t \in Txn :
             /\ txns' = Append(txns, t)
             /\ rows' = [k \in Keys |->
                           CASE t.op[k] = "s" -> Len(txns) + 1
                             [] t.op[k] = "d" -> 0
                             [] t.op[k] = "none" ->
                                   IF t.wide = "t" THEN 0 ELSE rows[k]]
      BY <1>1, CommitIs, Zenon
    <2>2. owner = "synced" /\ Len(txns') = Len(txns) + 1
      BY <1>0, <1>1, <2>1, AppendedLog DEF OwnerCommit
    <2>3. ASSUME NEW k \in Keys
          PROVE  HasValue(txns', k, Len(txns'), rows'[k])
      <3>1. HasValue(txns, k, Len(txns), rows[k])
        BY <1>0, <2>2 DEF OwnerRowsCurrent
      <3> DEFINE Row(j) == CASE t.op[j] = "s" -> Len(txns) + 1
                             [] t.op[j] = "d" -> 0
                             [] t.op[j] = "none" ->
                                   IF t.wide = "t" THEN 0 ELSE rows[j]
      <3>2. HasValue(txns', k, Len(txns) + 1, Row(k))
        BY Zenon, <1>0, <2>1, <3>1, HasValueCommit
      <3>3. rows' = [j \in Keys |-> Row(j)]
        BY Zenon, <2>1
      <3> HIDE DEF Row
      <3> QED
        BY <2>2, <3>2, <3>3
    <2> QED
      BY <2>3 DEF OwnerRowsCurrent
  <1>2. CASE OwnerRestart
    <2>1. /\ EmptyTxn \in Txn
          /\ txns' = Append(txns, EmptyTxn)
          /\ Len(txns') = Len(txns) + 1 /\ Len(txns) \in Nat
          /\ \A k \in Keys : HasValue(txns, k, Len(txns), rows'[k])
      BY <1>0, <1>2, RestartIs
    <2>2. ASSUME NEW k \in Keys
          PROVE  HasValue(txns', k, Len(txns'), rows'[k])
      <3>1. HasValue(txns', k, Len(txns), rows'[k])
        BY <1>0, <2>1, HasValueAppend
      <3>2. txns'[Len(txns) + 1] = EmptyTxn
        BY <1>0, <2>1, AppendedLog
      <3>3. ~Touches(txns', Len(txns) + 1, k)
        BY <3>2 DEF Touches, EmptyTxn
      <3> QED
        BY <2>1, <3>1, <3>3, HasValueQuiet
    <2> QED
      BY <2>2 DEF OwnerRowsCurrent
  <1>3. CASE OwnerCrash
    BY <1>3 DEF OwnerCrash, OwnerRowsCurrent
  <1>4. CASE ~OwnerCommit /\ ~OwnerCrash /\ ~OwnerRestart
    BY Zenon, <1>0, <1>4, OwnerStays DEF OwnerRowsCurrent, streamVars,
       ownerVars
  <1> QED
    BY <1>1, <1>2, <1>3, <1>4

LEMMA LogNext ==
    ASSUME MaxReplays = 0, MaxResyncs = 0, FollowInv, [Next]_vars
    PROVE  LogIsComplete'
  <1>0. /\ txns \in Seq(Txn) /\ LogIsComplete /\ Len(txns) \in Nat
        /\ replicaVersion \in Nat
        /\ \A k \in Keys : logV[k] \in 0..Len(txns)
        /\ truncs \subseteq 1..Len(txns)
    BY DEF FollowInv, TypeInv, TypeOK, OwnerOK
  <1>1. CASE OwnerCommit
    <2>1. PICK t \in Txn :
             /\ txns' = Append(txns, t)
             /\ logV' = EntryVersion(t, Len(txns) + 1)
             /\ logOp' = [k \in Keys |-> IF t.op[k] = "none" THEN logOp[k]
                                         ELSE t.op[k]]
             /\ truncs' = IF t.wide = "t" THEN truncs \cup {Len(txns) + 1}
                          ELSE truncs
      BY <1>1, CommitIs, Zenon
    <2>2. /\ owner = "synced" /\ Len(txns') = Len(txns) + 1
          /\ UNCHANGED replicaVersion
          /\ \A i \in 1..Len(txns) : txns'[i] = txns[i]
          /\ txns'[Len(txns) + 1] = t
      BY <1>0, <1>1, <2>1, AppendedLog DEF OwnerCommit
    <2>3. \A k \in Keys : /\ logV'[k] = IF t.op[k] = "none" THEN logV[k]
                                        ELSE Len(txns) + 1
                          /\ logOp'[k] = IF t.op[k] = "none" THEN logOp[k]
                                         ELSE t.op[k]
      BY <2>1 DEF EntryVersion
    <2>4. ASSUME NEW i \in 1..Len(txns'), i > replicaVersion'
          PROVE  /\ \A k \in Keys : txns'[i].op[k] # "none" => logV'[k] >= i
                 /\ txns'[i].wide = "t" => i \in truncs'
      <3>1. CASE i \in 1..Len(txns)
        <4>1. /\ \A k \in Keys : txns[i].op[k] # "none" => logV[k] >= i
              /\ txns[i].wide = "t" => i \in truncs
          BY <1>0, <2>2, <2>4, <3>1 DEF LogIsComplete
        <4>2. txns'[i] = txns[i]
          BY <2>2, <3>1
        <4>3. truncs \subseteq truncs'
          BY <2>1
        <4>4. \A k \in Keys : logV'[k] >= logV[k] /\ logV'[k] \in Nat
          BY <1>0, <2>3
        <4> QED
          BY <1>0, <4>1, <4>2, <4>3, <4>4
      <3>2. CASE i = Len(txns) + 1
        BY <1>0, <2>1, <2>2, <2>3, <3>2
      <3> QED
        BY <1>0, <2>2, <3>1, <3>2
    <2>5. ASSUME NEW k \in Keys, logV'[k] > 0
          PROVE  logOp'[k] # "none" /\ logOp'[k] = txns'[logV'[k]].op[k]
      <3>1. CASE t.op[k] = "none"
        <4>1. logV'[k] = logV[k] /\ logOp'[k] = logOp[k] /\ logV[k] > 0
          BY <2>3, <2>5, <3>1
        <4>2. logOp[k] # "none" /\ logOp[k] = txns[logV[k]].op[k]
          BY <1>0, <2>2, <4>1 DEF LogIsComplete
        <4> QED
          BY <1>0, <2>2, <4>1, <4>2
      <3>2. CASE t.op[k] # "none"
        BY <2>2, <2>3, <3>2
      <3> QED
        BY <3>1, <3>2
    <2>6. ASSUME NEW k \in Keys, NEW i \in 1..Len(txns'), logV'[k] > 0,
                 i > logV'[k]
          PROVE  txns'[i].op[k] = "none"
      <3>1. t.op[k] = "none" /\ logV'[k] = logV[k]
        BY <1>0, <2>2, <2>3, <2>6
      <3>2. CASE i \in 1..Len(txns)
        <4>1. txns[i].op[k] = "none"
          BY <1>0, <2>2, <2>6, <3>1, <3>2 DEF LogIsComplete
        <4> QED
          BY <2>2, <3>2, <4>1
      <3>3. CASE i = Len(txns) + 1
        BY <2>2, <3>1, <3>3
      <3> QED
        BY <1>0, <2>2, <3>2, <3>3
    <2>7. ASSUME NEW i \in truncs' PROVE txns'[i].wide = "t"
      <3>1. CASE i \in truncs
        BY <1>0, <2>2, <3>1 DEF LogIsComplete
      <3>2. CASE i = Len(txns) + 1 /\ t.wide = "t"
        BY <2>2, <3>2
      <3> QED
        BY <2>1, <3>1, <3>2
    <2> QED
      BY <2>4, <2>5, <2>6, <2>7 DEF LogIsComplete
  <1>2. CASE OwnerRestart
    <2>1. /\ Len(txns') = Len(txns) + 1 /\ replicaVersion' = Len(txns) + 1
          /\ \A k \in Keys : logV'[k] = 0
          /\ truncs' = {}
      BY <1>2, RestartIs
    <2> QED
      BY <1>0, <2>1 DEF LogIsComplete
  <1>3. CASE OwnerCrash
    BY <1>3 DEF OwnerCrash, LogIsComplete
  <1>4. CASE ~OwnerCommit /\ ~OwnerCrash /\ ~OwnerRestart
    BY Zenon, <1>0, <1>4, OwnerStays DEF LogIsComplete, streamVars, ownerVars
  <1> QED
    BY <1>1, <1>2, <1>3, <1>4

LEMMA BackupNext ==
    ASSUME FollowInv, [Next]_vars PROVE BackupComplete'
  <1>0. /\ OwnerOK /\ BackupComplete /\ OwnerRowsCurrent
        /\ owner \in {"synced", "down"}
    BY DEF FollowInv, TypeInv, TypeOK, SnapshotInv, NeverResynced
  <1>1. CASE LitestreamSync
    <2>1. /\ owner = "synced" /\ UNCHANGED txns
          /\ backup' = [rows |-> rows, version |-> replicaVersion]
      BY <1>0, <1>1 DEF LitestreamSync, streamVars
    <2>2. /\ \A k \in Keys : HasValue(txns, k, Len(txns), rows[k])
          /\ Len(txns) \in replicaVersion..Len(txns)
      BY <1>0, <2>1 DEF OwnerRowsCurrent, OwnerOK
    <2>3. \A k \in Keys : HasValueSince(txns, k, replicaVersion, rows[k])
      BY <2>2, Zenon DEF HasValueSince
    <2>4. backup'.rows = rows /\ backup'.version = replicaVersion
      BY <2>1
    <2> QED
      BY <2>1, <2>3, <2>4 DEF BackupComplete
  <1>2. CASE UNCHANGED backup
    <2>1. backup.version \in Nat
      BY <1>0 DEF OwnerOK
    <2>2. \A k \in Keys :
             HasValueSince(txns', k, backup.version, backup.rows[k])
      BY <1>0, <2>1, SinceNext DEF BackupComplete
    <2> QED
      BY <1>2, <2>2 DEF BackupComplete
  <1>3. CASE Owner /\ ~LitestreamSync
    BY Zenon, <1>2, <1>3 DEF Owner, OwnerCommit, OwnerPublish, OwnerReplay,
       OwnerReset, OwnerMetadata, OwnerCopied, OwnerCrash, OwnerRestart
  <1>4. CASE Serve \/ Disconnect \/ UNCHANGED vars
    BY Zenon, <1>2, <1>4 DEF Serve, Catchup, RecvCommit, RecvLagged,
       ResolveRow, SendTransaction, Disconnect, vars
  <1>5. CASE ViewSyncer
    BY Zenon, <1>2, <1>5 DEF ViewSyncer, ReserveSnapshot, RestoreSnapshot,
       Subscribe, SubscribeFails, ApplyCommit
  <1> QED
    BY <1>1, <1>3, <1>4, <1>5 DEF Next

\* A transaction that bridges a gap of the log bridges it in the longer one.
LEMMA CarriesNext ==
    ASSUME OwnerOK, [Next]_vars, NEW b \in Batch, NEW from \in Nat, NEW ks,
           Carries(txns, b, from, ks)
    PROVE  Carries(txns', b, from, ks)
  <1>1. /\ Len(txns) \in Nat /\ Len(txns') \in Nat
        /\ Len(txns) <= Len(txns') /\ txns \in Seq(Txn)
        /\ txns' = txns \/ \E t \in Txn : txns' = Append(txns, t)
    BY LogGrows DEF OwnerOK
  <1>2. \A i \in 1..Len(txns) : txns'[i] = txns[i]
    BY <1>1, AppendedLog
  <1>3. /\ b.w \in Nat /\ from < b.w /\ b.w <= Len(txns)
    BY DEF Carries, Batch
  <1>4. ASSUME NEW k \in Keys, Leaves(b, k), NEW i \in (from + 1)..b.w
        PROVE  ~Touches(txns', i, k)
    <2>1. ~Touches(txns, i, k) /\ i \in 1..Len(txns)
      BY <1>1, <1>3, <1>4 DEF Carries
    <2> QED
      BY <1>2, <2>1 DEF Touches
  <1>5. ASSUME NEW k \in Keys, ~Leaves(b, k), k \notin ks \/ Truncated(b, k)
        PROVE  HasValueSince(txns', k, b.w, Applied(NoRows, b)[k])
    <2>1. HasValueSince(txns, k, b.w, Applied(NoRows, b)[k])
      BY <1>5 DEF Carries
    <2> QED
      BY <1>3, <2>1, SinceNext
  <1> QED
    BY <1>1, <1>3, <1>4, <1>5 DEF Carries

\* The batch read_since finds takes a replica from last to its watermark: every
\* row touched in between has an entry or is covered by a truncation, and w is
\* the last position that touches anything.
LEMMA ReadLogCarries ==
    ASSUME FollowInv, subPc = "live", ReadLog, task' = "resolve"
    PROVE  Carries(txns, batch', last, todo')
  <1>0. /\ OwnerOK /\ Len(txns) \in Nat /\ LogIsComplete /\ OwnerRowsCurrent
        /\ owner = "synced" /\ last \in Nat /\ last >= replicaVersion
        /\ replicaVersion \in Nat
        /\ \A k \in Keys : logV[k] \in 0..Len(txns)
        /\ truncs \subseteq 1..Len(txns)
    BY DEF FollowInv, TypeInv, TypeOK, OwnerOK, ServerOK, SnapshotInv,
       NeverResynced, DownServesNobody, StreamIsGapless
  <1>1. PICK w \in NewerVersions :
           /\ IsWatermark(w)
           /\ batch' = [w   |-> w,
                        op  |-> [k \in Keys |-> IF k \in NewerKeys
                                                THEN logOp[k] ELSE "none"],
                        v   |-> [k \in Keys |-> IF k \in NewerKeys
                                                THEN logV[k] ELSE 0],
                        val |-> NoRows,
                        truncs |-> {v \in truncs : v > last}]
    BY DEF ReadLog
  <1>2. todo' = {k \in NewerKeys : logOp[k] = "s"}
    BY DEF ReadLog
  <1>3. batch' \in Batch
    BY ReadLogBounded DEF FollowInv, BoundedBatch
  <1>4. /\ batch'.w = w /\ batch'.truncs = {v \in truncs : v > last}
        /\ \A k \in Keys :
              /\ batch'.op[k] = IF k \in NewerKeys THEN logOp[k] ELSE "none"
              /\ batch'.v[k] = IF k \in NewerKeys THEN logV[k] ELSE 0
    BY <1>1
  <1>5. /\ w \in Nat /\ w > last /\ w <= Len(txns)
        /\ \A k \in NewerKeys : logV[k] <= w
        /\ \A v \in truncs : v > last => v <= w
    <2>1. ASSUME NEW v \in NewerVersions
          PROVE  v \in Nat /\ v > last /\ v <= Len(txns)
      <3>1. CASE v \in truncs
        BY <1>0, <3>1 DEF NewerVersions, NewerKeys
      <3>2. CASE v \notin truncs
        <4>1. PICK k \in NewerKeys : v = logV[k]
          BY <3>2 DEF NewerVersions
        <4> QED
          BY <1>0, <4>1 DEF NewerKeys
      <3> QED
        BY <3>1, <3>2
    <2>2. /\ \A k \in NewerKeys : logV[k] \in NewerVersions
          /\ \A v \in truncs : v > last => v \in NewerVersions
      BY DEF NewerVersions
    <2> QED
      BY <1>1, <2>1, <2>2 DEF IsWatermark
  <1>6. \A k \in Keys : k \in NewerKeys <=> logV[k] > last
    BY DEF NewerKeys
  <1>7. ASSUME NEW k \in Keys, NEW i \in (last + 1)..Len(txns),
               Touches(txns, i, k)
        PROVE  /\ i <= w
               /\ \/ logV[k] >= i
                  \/ i \in batch'.truncs
    <2>1. i \in 1..Len(txns) /\ i > replicaVersion /\ i > last
      BY <1>0
    <2>2. logV[k] >= i \/ i \in truncs
      BY <1>0, <1>7, <2>1 DEF LogIsComplete, Touches
    <2> QED
      BY <1>0, <1>4, <1>5, <1>6, <2>1, <2>2
  <1>8. \A k \in Keys : k \in NewerKeys => logOp[k] # "none"
    BY <1>0, <1>6 DEF LogIsComplete
  <1>9. ASSUME NEW k \in Keys, Leaves(batch', k), NEW i \in (last + 1)..w
        PROVE  ~Touches(txns, i, k)
    <2>1. k \notin NewerKeys /\ batch'.truncs = {}
      BY <1>4, <1>8, <1>9 DEF Leaves
    <2>2. ~(logV[k] >= i)
      BY <1>0, <1>5, <1>6, <2>1
    <2>3. i \in (last + 1)..Len(txns)
      BY <1>0, <1>5
    <2> QED
      BY <1>7, <2>1, <2>2, <2>3
  <1>10. ASSUME NEW k \in Keys, ~Leaves(batch', k),
                k \notin todo' \/ Truncated(batch', k)
         PROVE  HasValueSince(txns, k, w, Applied(NoRows, batch')[k])
    <2>1. PICK m \in 0..Len(txns) :
             /\ m = 0 \/ Touches(txns, m, k)
             /\ \A j \in (m + 1)..Len(txns) : ~Touches(txns, j, k)
      BY <1>0 DEF OwnerRowsCurrent, HasValue
    <2>2. m <= w
      <3>1. CASE m <= last
        BY <1>0, <1>5, <3>1
      <3>2. CASE m > last
        <4>1. m \in (last + 1)..Len(txns) /\ Touches(txns, m, k)
          BY <1>0, <2>1, <3>2
        <4> QED
          BY <1>7, <4>1
      <3> QED
        BY <1>0, <3>1, <3>2
    <2>3. HasValue(txns, k, w, ValueAt(txns, m, k))
      <3>1. m \in 0..w /\ \A j \in (m + 1)..w : ~Touches(txns, j, k)
        BY <1>0, <1>5, <2>1, <2>2
      <3> QED
        BY <2>1, <3>1, Zenon DEF HasValue
    <2>4. Applied(NoRows, batch')[k] = 0
      <3>1. CASE batch'.op[k] = "s"
        <4>1. k \in NewerKeys /\ logOp[k] = "s"
          BY <1>4, <3>1
        <4>2. Truncated(batch', k)
          BY <1>2, <1>10, <4>1
        <4> QED
          BY <1>3, <3>1, <4>2, AppliedIs DEF Truncated
      <3>2. CASE batch'.op[k] = "d"
        BY <1>3, <3>2, AppliedIs
      <3>3. CASE batch'.op[k] = "none"
        BY <1>3, <1>10, <3>3, AppliedIs DEF Leaves
      <3> QED
        BY <1>3, <3>1, <3>2, <3>3, AppliedIs DEF RowOps
    <2>5. ValueAt(txns, m, k) = 0
      <3> SUFFICES ASSUME m > 0, txns[m].op[k] = "s" PROVE FALSE
        BY DEF ValueAt
      <3>1. m \in 1..Len(txns)
        OBVIOUS
      <3>2. \A i \in 1..Len(txns) : Touches(txns, i, k) => i <= m
        BY <1>0, <2>1
      <3>3. CASE k \in NewerKeys
        <4>1. /\ logV[k] > 0 /\ logV[k] \in 1..Len(txns)
              /\ logOp[k] = txns[logV[k]].op[k] /\ logOp[k] # "none"
          BY <1>0, <1>6, <3>3 DEF LogIsComplete
        <4>2. logV[k] <= m
          BY <3>2, <4>1 DEF Touches
        <4>3. ~(m > logV[k])
          BY <1>0, <3>1, <4>1 DEF LogIsComplete
        <4>4. m = logV[k]
          BY <3>1, <4>1, <4>2, <4>3
        <4>5. logOp[k] = "s" /\ k \in todo'
          BY <1>2, <3>3, <4>1, <4>4
        <4>6. PICK v \in batch'.truncs : v > logV[k]
          BY <1>4, <1>10, <3>3, <4>5 DEF Truncated
        <4>7. v \in 1..Len(txns) /\ txns[v].wide = "t"
          BY <1>0, <1>4, <4>6 DEF LogIsComplete
        <4>8. v <= m
          BY <3>2, <4>7 DEF Touches
        <4> QED
          BY <4>1, <4>4, <4>6, <4>7, <4>8
      <3>4. CASE k \notin NewerKeys
        <4>1. batch'.truncs # {}
          BY <1>4, <1>10, <3>4 DEF Leaves
        <4>2. PICK v \in truncs : v > last
          BY <1>4, <4>1
        <4>3. v \in 1..Len(txns) /\ txns[v].wide = "t"
          BY <1>0, <4>2 DEF LogIsComplete
        <4>4. v <= m
          BY <3>2, <4>3 DEF Touches
        <4>5. logV[k] >= m
          BY <1>0, <3>1, <4>2, <4>3, <4>4 DEF LogIsComplete
        <4> QED
          BY <1>0, <1>6, <3>1, <3>4, <4>2, <4>3, <4>4, <4>5
      <3> QED
        BY <3>3, <3>4
    <2> QED
      BY <1>0, <1>5, <2>3, <2>4, <2>5 DEF HasValueSince
  <1> QED
    BY <1>4, <1>5, <1>9, <1>10 DEF Carries

\* Reading one row of the batch: the row is at least as new as the batch.
LEMMA ResolveCarries ==
    ASSUME FollowInv, subPc = "live", task = "resolve", NEW k \in todo,
           NEW c, c = [batch EXCEPT !.val[k] = rows[k]]
    PROVE  Carries(txns, c, last, todo \ {k})
  <1> DEFINE RowOf(b, j) ==
                 IF b.op[j] = "s" /\ ~Truncated(b, j) THEN b.val[j] ELSE 0
  <1>0. /\ OwnerOK /\ Len(txns) \in Nat /\ OwnerRowsCurrent
        /\ owner = "synced" /\ Carries(txns, batch, last, todo)
        /\ batch \in Batch /\ todo \subseteq Keys /\ batch.op[k] = "s"
        /\ rows[k] \in 0..Len(txns)
    BY SMTT(40) DEF FollowInv, TypeInv, TypeOK, OwnerOK, ServerOK, SnapshotInv,
       NeverResynced, DownServesNobody, StreamIsGapless, TodoIsSet
  <1>1. /\ c.w = batch.w /\ c.op = batch.op /\ c.v = batch.v
        /\ c.truncs = batch.truncs
        /\ c.val = [batch.val EXCEPT ![k] = rows[k]]
    BY <1>0 DEF Batch
  <1>2. batch.val \in [Keys -> Nat] /\ k \in Keys /\ batch.w \in Nat
    BY <1>0 DEF Batch
  <1>3. c.val[k] = rows[k] /\ \A j \in Keys : j # k => c.val[j] = batch.val[j]
    BY <1>1, <1>2
  <1>4. c \in Batch
    <2>1. c = [batch EXCEPT !.val = [batch.val EXCEPT ![k] = rows[k]]]
      OBVIOUS
    <2>2. [batch.val EXCEPT ![k] = rows[k]] \in [Keys -> Nat]
      BY <1>0, <1>2
    <2> QED
      BY <1>0, <2>1, <2>2 DEF Batch
  <1>5. \A j \in Keys : /\ Leaves(c, j) <=> Leaves(batch, j)
                        /\ Truncated(c, j) <=> Truncated(batch, j)
    BY <1>1 DEF Leaves, Truncated
  <1>6. ASSUME NEW b \in Batch, NEW j \in Keys
        PROVE  Applied(NoRows, b)[j] = RowOf(b, j)
    <2>1. NoRows[j] = 0
      BY DEF NoRows
    <2> QED
      BY <2>1, AppliedIs DEF RowOf, Truncated, RowOps
  <1> HIDE DEF RowOf
  <1>7. ASSUME NEW j \in Keys, ~Leaves(c, j),
               j \notin todo \ {k} \/ Truncated(c, j)
        PROVE  HasValueSince(txns, j, c.w, Applied(NoRows, c)[j])
    <2>1. CASE j # k \/ Truncated(c, j)
      <3>1. HasValueSince(txns, j, batch.w, Applied(NoRows, batch)[j])
        BY <1>0, <1>5, <1>7, <2>1 DEF Carries
      <3>2. Applied(NoRows, c)[j] = Applied(NoRows, batch)[j]
        <4>1. Applied(NoRows, c)[j] = RowOf(c, j)
          BY Zenon, <1>4, <1>6
        <4>2. Applied(NoRows, batch)[j] = RowOf(batch, j)
          BY Zenon, <1>0, <1>6
        <4>3. c.op[j] = batch.op[j] /\ c.v[j] = batch.v[j]
          BY <1>1
        <4>4. ~Truncated(c, j) => c.val[j] = batch.val[j]
          BY <1>3, <2>1
        <4>5. RowOf(c, j) = RowOf(batch, j)
          BY <1>5, <4>3, <4>4 DEF RowOf
        <4> QED
          BY <4>1, <4>2, <4>5
      <3> QED
        BY <1>1, <3>1, <3>2
    <2>2. CASE j = k /\ ~Truncated(c, j)
      <3>1. Applied(NoRows, c)[k] = RowOf(c, k)
        BY Zenon, <1>2, <1>4, <1>6
      <3>2. RowOf(c, k) = rows[k]
        BY <1>0, <1>1, <1>3, <2>2 DEF RowOf
      <3>3. HasValue(txns, k, Len(txns), rows[k])
        BY <1>0, <1>2 DEF OwnerRowsCurrent
      <3>4. Len(txns) \in c.w..Len(txns)
        BY <1>0, <1>1, <1>2 DEF Carries
      <3> QED
        BY <2>2, <3>1, <3>2, <3>3, <3>4, Zenon DEF HasValueSince
    <2> QED
      BY <2>1, <2>2
  <1> QED
    BY <1>0, <1>1, <1>5, <1>7 DEF Carries

\* read_since gives each row it will read a set entry.
LEMMA TodoNext ==
    ASSUME TypeInv, TodoIsSet, [Next]_vars PROVE TodoIsSet'
  <1> USE DEF TodoIsSet
  <1>1. ASSUME UNCHANGED <<batch, todo>> PROVE TodoIsSet'
    BY <1>1
  <1>2. ASSUME ReadLog PROVE TodoIsSet'
    <2>1. CASE UNCHANGED <<batch, todo>>
      BY <2>1
    <2>2. CASE /\ todo' = {k \in NewerKeys : logOp[k] = "s"}
               /\ \A k \in Keys : batch'.op[k] = IF k \in NewerKeys
                                               THEN logOp[k] ELSE "none"
      BY <2>2 DEF NewerKeys
    <2> QED
      BY <1>2, <2>1, <2>2 DEF ReadLog
  <1>3. CASE OwnerCrash \/ Disconnect
    <2>1. todo' = {}
      BY Zenon, <1>3 DEF OwnerCrash, Disconnect, LoseConnection
    <2> QED
      BY <2>1
  <1>4. CASE Owner /\ ~OwnerCrash
    BY Zenon, <1>1, <1>4 DEF Owner, OwnerCommit, OwnerPublish, OwnerReplay,
       OwnerReset, OwnerMetadata, OwnerCopied, OwnerRestart, LitestreamSync,
       taskVars
  <1>5. CASE Catchup \/ RecvCommit
    BY Zenon, <1>2, <1>5 DEF Catchup, RecvCommit
  <1>6. CASE ResolveRow
    <2>1. batch \in Batch
      BY DEF TypeInv, TypeOK, ServerOK
    <2>2. PICK k \in todo : \/ todo' = {}
                            \/ /\ batch' = [batch EXCEPT !.val[k] = rows[k]]
                               /\ todo' = todo \ {k}
      BY <1>6 DEF ResolveRow
    <2>3. [batch EXCEPT !.val[k] = rows[k]].op = batch.op
      BY <2>1 DEF Batch
    <2> QED
      BY <2>2, <2>3
  <1>7. CASE RecvLagged \/ SendTransaction \/ ViewSyncer \/ UNCHANGED vars
    BY Zenon, <1>1, <1>7 DEF RecvLagged, SendTransaction, ViewSyncer,
       ReserveSnapshot, RestoreSnapshot, Subscribe, SubscribeFails,
       ApplyCommit, taskVars, vars
  <1> QED
    BY <1>3, <1>4, <1>5, <1>6, <1>7 DEF Next, Serve

\* The socket while it is not used.
LEMMA WireCarries ==
    ASSUME TypeInv, [Next]_vars, StreamIsGapless, subPc = "live",
           UNCHANGED <<wire, subWatermark>>
    PROVE  \A i \in 1..Len(wire') :
              Carries(txns', wire'[i],
                      WatermarkBefore(wire', subWatermark', i), {})
  <1> SUFFICES ASSUME NEW i \in 1..Len(wire)
               PROVE  Carries(txns', wire[i],
                              WatermarkBefore(wire, subWatermark, i), {})
    BY DEF WatermarkBefore
  <1>1. OwnerOK /\ wire \in Seq(Batch) /\ subWatermark \in Nat
    BY DEF TypeInv, TypeOK, SubscriberOK
  <1>2. wire[i] \in Batch
    BY <1>1
  <1>3. WatermarkBefore(wire, subWatermark, i) \in Nat
    <2>1. CASE i = 1
      BY <1>1, <2>1 DEF WatermarkBefore
    <2>2. CASE i # 1
      <3>1. wire[i - 1] \in Batch
        BY <1>1, <2>2
      <3> QED
        BY <2>2, <3>1 DEF WatermarkBefore, Batch
    <2> QED
      BY <2>1, <2>2
  <1>4. Carries(txns, wire[i], WatermarkBefore(wire, subWatermark, i), {})
    BY DEF StreamIsGapless
  <1> QED
    BY <1>1, <1>2, <1>3, <1>4, CarriesNext

LEMMA StreamNext ==
    ASSUME MaxReplays = 0, MaxResyncs = 0, FollowInv, [Next]_vars
    PROVE  StreamIsGapless'
  <1>0. /\ TypeInv /\ OwnerOK /\ StreamIsGapless /\ batch \in Batch
        /\ wire \in Seq(Batch) /\ Len(wire) \in Nat
        /\ subWatermark \in Nat /\ last \in Nat /\ replicaVersion \in Nat
    <2>1. TypeInv /\ StreamIsGapless
      BY DEF FollowInv
    <2>2. OwnerOK /\ SubscriberOK /\ ServerOK
      BY <2>1 DEF TypeInv, TypeOK
    <2>3. batch \in Batch /\ wire \in Seq(Batch)
      BY <2>2 DEF SubscriberOK, ServerOK
    <2>4. subWatermark \in Nat /\ last \in Nat /\ replicaVersion \in Nat
      BY <2>2 DEF SubscriberOK, ServerOK, OwnerOK
    <2> QED
      BY <2>1, <2>2, <2>3, <2>4
  <1>1. ASSUME UNCHANGED <<subPc, wire, subWatermark, last, replicaVersion>>,
               subPc = "live" /\ task' = "resolve"
                  => Carries(txns', batch', last, todo')
        PROVE  StreamIsGapless'
    <2> SUFFICES ASSUME subPc' = "live" PROVE StreamIsGapless'
      BY DEF StreamIsGapless
    <2>1. subPc = "live" /\ last >= replicaVersion
          /\ last = WatermarkBefore(wire, subWatermark, Len(wire) + 1)
      BY <1>0, <1>1 DEF StreamIsGapless
    <2>2. \A i \in 1..Len(wire') :
             Carries(txns', wire'[i],
                     WatermarkBefore(wire', subWatermark', i), {})
      BY <1>0, <1>1, <2>1, WireCarries
    <2>3. last' >= replicaVersion'
          /\ last' = WatermarkBefore(wire', subWatermark', Len(wire') + 1)
      BY <1>1, <2>1 DEF WatermarkBefore
    <2> QED
      BY <1>1, <2>1, <2>2, <2>3 DEF StreamIsGapless
  <1>2. ASSUME UNCHANGED <<subPc, wire, subWatermark, taskVars,
                           replicaVersion>>
        PROVE  StreamIsGapless'
    <2>1. ASSUME subPc = "live", task' = "resolve"
          PROVE  Carries(txns', batch', last, todo')
      <3>1. Carries(txns, batch, last, todo)
        BY <1>0, <1>2, <2>1 DEF StreamIsGapless, taskVars
      <3>2. Carries(txns', batch, last, todo)
        BY <1>0, <3>1, CarriesNext
      <3> QED
        BY <1>2, <3>2 DEF taskVars
    <2>2. UNCHANGED <<subPc, wire, subWatermark, last, replicaVersion>>
      BY <1>2 DEF taskVars
    <2> QED
      BY <1>1, <2>1, <2>2
  <1>3. ASSUME subPc' # "live" PROVE StreamIsGapless'
    BY <1>3 DEF StreamIsGapless
  <1>4. CASE OwnerCommit \/ OwnerPublish \/ LitestreamSync \/ RecvLagged
             \/ UNCHANGED vars
    BY Zenon, <1>2, <1>4 DEF OwnerCommit, OwnerPublish, LitestreamSync,
       RecvLagged, vars, ownerVars, subVars
  <1>5. CASE OwnerReplay \/ OwnerReset \/ OwnerMetadata \/ OwnerCopied
    <2>1. owner \in {"synced", "down"} /\ resyncs \in Nat /\ replays \in Nat
      BY DEF FollowInv, SnapshotInv, NeverResynced, AtTheEnd
    <2> QED
      BY <1>5, <2>1 DEF OwnerReplay, OwnerReset, OwnerMetadata, OwnerCopied
  <1>6. CASE OwnerCrash \/ Disconnect
    <2>1. subPc' # "live"
      BY Zenon, <1>6 DEF OwnerCrash, Disconnect, LoseConnection
    <2> QED
      BY <1>3, <2>1
  <1>7. CASE OwnerRestart
    <2>1. subPc' # "live"
      BY <1>7 DEF OwnerRestart, FollowInv, SnapshotInv, DownServesNobody
    <2> QED
      BY <1>3, <2>1
  <1>8. CASE Catchup \/ RecvCommit
    <2>1. /\ ReadLog /\ subPc = "live" /\ UNCHANGED txns
          /\ UNCHANGED <<subPc, wire, subWatermark, last, replicaVersion>>
      BY Zenon, <1>8 DEF Catchup, RecvCommit, subVars, ownerVars, streamVars
    <2>2. task' = "resolve" => Carries(txns', batch', last, todo')
      BY <2>1, ReadLogCarries
    <2> QED
      BY <1>1, <2>1, <2>2
  <1>9. CASE ResolveRow
    <2>1. /\ subPc = "live" /\ task = "resolve" /\ UNCHANGED txns
          /\ UNCHANGED <<subPc, wire, subWatermark, last, replicaVersion>>
      BY Zenon, <1>9 DEF ResolveRow, subVars, ownerVars, streamVars
    <2>2. PICK k \in todo :
             \/ task' = "idle"
             \/ batch' = [batch EXCEPT !.val[k] = rows[k]]
                /\ todo' = todo \ {k}
      BY <1>9 DEF ResolveRow
    <2>3. task' = "resolve" => Carries(txns', batch', last, todo')
      BY <2>1, <2>2, ResolveCarries
    <2> QED
      BY <1>1, <2>1, <2>3
  <1>10. CASE SendTransaction
    <2>1. /\ subPc = "live" /\ task = "resolve" /\ todo = {}
          /\ wire' = Append(wire, batch) /\ last' = batch.w
          /\ task' = "idle"
          /\ UNCHANGED <<txns, subPc, subWatermark, replicaVersion>>
      BY Zenon, <1>10 DEF SendTransaction, subVars, ownerVars, streamVars
    <2>2. /\ Len(wire') = Len(wire) + 1
          /\ \A i \in 1..Len(wire) : wire'[i] = wire[i]
          /\ wire'[Len(wire) + 1] = batch
      BY <1>0, <2>1, SentToWire
    <2>3. /\ Carries(txns, batch, last, {})
          /\ last >= replicaVersion
          /\ last = WatermarkBefore(wire, subWatermark, Len(wire) + 1)
      BY <1>0, <2>1 DEF StreamIsGapless
    <2>4. last' >= replicaVersion'
      BY <1>0, <2>1, <2>3 DEF Carries, Batch
    <2>5. last' = WatermarkBefore(wire', subWatermark', Len(wire') + 1)
      BY <1>0, <2>1, <2>2 DEF WatermarkBefore
    <2>6. ASSUME NEW i \in 1..Len(wire')
          PROVE  Carries(txns', wire'[i],
                         WatermarkBefore(wire', subWatermark', i), {})
      <3>1. WatermarkBefore(wire', subWatermark', i)
              = WatermarkBefore(wire, subWatermark, i)
        <4>1. i = 1 \/ i - 1 \in 1..Len(wire)
          BY <1>0, <2>2
        <4> QED
          BY <2>1, <2>2, <4>1 DEF WatermarkBefore
      <3>2. CASE i \in 1..Len(wire)
        BY <1>0, <2>1, <2>2, <3>1, <3>2 DEF StreamIsGapless
      <3>3. CASE i = Len(wire) + 1
        BY <2>1, <2>2, <2>3, <3>1, <3>3
      <3> QED
        BY <1>0, <2>2, <3>2, <3>3
    <2> QED
      BY <2>1, <2>4, <2>5, <2>6 DEF StreamIsGapless
  <1>11. CASE ReserveSnapshot \/ RestoreSnapshot \/ SubscribeFails
    <2>1. subPc' # "live"
      BY Zenon, <1>11 DEF ReserveSnapshot, RestoreSnapshot, SubscribeFails
    <2> QED
      BY <1>3, <2>1
  <1>12. CASE Subscribe
    <2>1. /\ ~Rejected /\ task' = "catchup" /\ last' = subWatermark
          /\ UNCHANGED <<wire, subWatermark, replicaVersion, subVersion>>
          /\ subPc = "subscribe"
      BY Zenon, <1>12 DEF Subscribe, subVars, ownerVars
    <2>2. wire = <<>> /\ owner # "resetting"
      BY <2>1 DEF FollowInv, SocketIsFresh, SnapshotInv, NeverResynced
    <2>3. subVersion = replicaVersion
      BY <2>1, <2>2 DEF Rejected, WrongReplicaVersion
    <2>4. subWatermark >= replicaVersion
      BY <1>0, <2>3 DEF FollowInv, ReplicaDerives, NoVersion
    <2>5. last' = WatermarkBefore(wire', subWatermark', Len(wire') + 1)
      BY <2>1, <2>2 DEF WatermarkBefore
    <2>6. Len(wire') = 0
      BY <2>1, <2>2
    <2> QED
      BY <2>1, <2>4, <2>5, <2>6 DEF StreamIsGapless
  <1>13. CASE ApplyCommit
    <2>1. /\ wire # <<>> /\ subWatermark' = Head(wire).w
          /\ wire' = Tail(wire) /\ subPc = "live"
          /\ UNCHANGED <<txns, subPc, taskVars, replicaVersion>>
      BY Zenon, <1>13 DEF ApplyCommit, streamVars, ownerVars
    <2>2. /\ Len(wire) >= 1 /\ Head(wire) = wire[1]
          /\ wire' \in Seq(Batch) /\ Len(wire') = Len(wire) - 1
          /\ \A i \in 1..Len(wire') : i + 1 \in 1..Len(wire)
                                       /\ wire'[i] = wire[i + 1]
      BY <1>0, <2>1, TakenFromWire
    <2>3. ASSUME NEW i \in 1..Len(wire)
          PROVE  WatermarkBefore(wire', subWatermark', i)
                   = WatermarkBefore(wire, subWatermark, i + 1)
      <3>1. CASE i = 1
        BY <2>1, <2>2, <3>1 DEF WatermarkBefore
      <3>2. CASE i # 1
        <4>1. i - 1 \in 1..Len(wire')
          BY <1>0, <2>2, <3>2
        <4>2. wire'[i - 1] = wire[(i - 1) + 1] /\ (i - 1) + 1 = i
          BY <2>2, <4>1
        <4> QED
          BY <3>2, <4>2 DEF WatermarkBefore
      <3> QED
        BY <3>1, <3>2
    <2>4. /\ last >= replicaVersion
          /\ last = WatermarkBefore(wire, subWatermark, Len(wire) + 1)
          /\ task = "resolve" => Carries(txns, batch, last, todo)
          /\ \A i \in 1..Len(wire) :
                Carries(txns, wire[i], WatermarkBefore(wire, subWatermark, i),
                        {})
      BY <1>0, <2>1 DEF StreamIsGapless
    <2>5. last = WatermarkBefore(wire', subWatermark', Len(wire') + 1)
      <3>1. Len(wire) \in 1..Len(wire) /\ Len(wire') + 1 = Len(wire)
        BY <1>0, <2>2
      <3> QED
        BY <2>3, <2>4, <3>1
    <2>6. \A i \in 1..Len(wire') :
             Carries(txns, wire'[i],
                     WatermarkBefore(wire', subWatermark', i), {})
      <3> TAKE i \in 1..Len(wire')
      <3>1. /\ i \in 1..Len(wire) /\ i + 1 \in 1..Len(wire)
            /\ wire'[i] = wire[i + 1]
        BY <1>0, <2>2
      <3> QED
        BY <2>3, <2>4, <3>1
    <2> QED
      BY <2>1, <2>4, <2>5, <2>6 DEF StreamIsGapless, taskVars
  <1> QED
    BY <1>4, <1>5, <1>6, <1>7, <1>8, <1>9, <1>10, <1>11, <1>12,
       <1>13 DEF Next, Owner, Serve, ViewSyncer

LEMMA SocketNext ==
    ASSUME SocketIsFresh, [Next]_vars PROVE SocketIsFresh'
  <1> USE DEF SocketIsFresh
  <1>1. CASE OwnerCrash \/ Disconnect
    BY Zenon, <1>1 DEF OwnerCrash, Disconnect, LoseConnection
  <1>2. CASE Owner /\ ~OwnerCrash
    BY Zenon, <1>2 DEF Owner, OwnerCommit, OwnerPublish, OwnerReplay,
       OwnerReset, OwnerMetadata, OwnerCopied, OwnerRestart, LitestreamSync
  <1>3. CASE Serve
    BY Zenon, <1>3 DEF Serve, Catchup, RecvCommit, RecvLagged, ResolveRow,
       SendTransaction
  <1>4. CASE ViewSyncer
    BY <1>4 DEF ViewSyncer, ReserveSnapshot, RestoreSnapshot, Subscribe,
       SubscribeFails, ApplyCommit
  <1>5. CASE UNCHANGED vars
    BY Zenon, <1>5 DEF vars
  <1> QED
    BY <1>1, <1>2, <1>3, <1>4, <1>5 DEF Next

\* A transaction taken from the socket is later than the replica and completes
\* it at its own watermark.
LEMMA ApplyIsComplete ==
    ASSUME FollowInv, ApplyCommit
    PROVE  /\ subVersion # NoVersion
           /\ subWatermark \in Nat /\ subWatermark' \in Nat
           /\ subWatermark' > subWatermark
           /\ \A k \in Keys :
                 HasValueSince(txns, k, subWatermark', subRows'[k])
  <1>1. /\ subPc = "live" /\ wire # <<>>
        /\ subRows' = Applied(subRows, Head(wire))
        /\ subWatermark' = Head(wire).w
    BY Zenon DEF ApplyCommit
  <1>2. /\ wire \in Seq(Batch) /\ txns \in Seq(Txn) /\ subWatermark \in Nat
        /\ replicaVersion \in Nat /\ Len(txns) \in Nat
    BY DEF FollowInv, TypeInv, TypeOK, OwnerOK, SubscriberOK
  <1>3. Len(wire) \in Nat /\ Len(wire) >= 1 /\ Head(wire) = wire[1]
    BY <1>1, <1>2, TakenFromWire
  <1> DEFINE b == wire[1]
  <1>4. b \in Batch /\ Carries(txns, b, subWatermark, {})
    BY <1>1, <1>2, <1>3 DEF FollowInv, StreamIsGapless, WatermarkBefore
  <1>5. b.w \in Nat /\ b.w > subWatermark /\ b.w <= Len(txns)
    BY <1>2, <1>4 DEF Carries, Batch
  <1>6. subVersion # NoVersion
    BY <1>1, <1>2 DEF FollowInv, SnapshotInv, LiveOnSameSnapshot, NoVersion
  <1> HIDE DEF b
  <1>7. ASSUME NEW k \in Keys
        PROVE  HasValueSince(txns, k, b.w, Applied(subRows, b)[k])
    <2>1. CASE Leaves(b, k)
      <3>1. Applied(subRows, b)[k] = subRows[k]
        BY <1>4, <2>1, AppliedIs DEF Leaves
      <3>2. HasValueSince(txns, k, subWatermark, subRows[k])
        BY <1>6 DEF FollowInv, NothingMissed
      <3>3. \A i \in (subWatermark + 1)..b.w : ~Touches(txns, i, k)
        BY <1>4, <2>1 DEF Carries
      <3> QED
        BY <1>2, <1>5, <3>1, <3>2, <3>3, SinceQuiet
    <2>2. CASE ~Leaves(b, k)
      <3>1. HasValueSince(txns, k, b.w, Applied(NoRows, b)[k])
        BY <1>4, <2>2 DEF Carries
      <3>2. Applied(subRows, b)[k] = Applied(NoRows, b)[k]
        <4>1. CASE b.op[k] = "none"
          BY <1>4, <2>2, <4>1, AppliedIs DEF Leaves
        <4>2. CASE b.op[k] = "s"
          BY <1>4, <4>2, AppliedIs
        <4>3. CASE b.op[k] = "d"
          BY <1>4, <4>3, AppliedIs
        <4> QED
          BY <1>4, <4>1, <4>2, <4>3, AppliedIs DEF RowOps
      <3> QED
        BY <3>1, <3>2
    <2> QED
      BY <2>1, <2>2
  <1> QED
    BY <1>1, <1>2, <1>3, <1>5, <1>6, <1>7 DEF b

LEMMA ReplicaNext ==
    ASSUME FollowInv, [Next]_vars
    PROVE  ReplicaDerives' /\ NothingMissed'
  <1>0. /\ OwnerOK /\ subWatermark \in Nat /\ backup.version \in Nat
        /\ subVersion \in {NoVersion} \cup Nat
        /\ ReplicaDerives /\ NothingMissed /\ BackupComplete
    BY DEF FollowInv, TypeInv, TypeOK, OwnerOK, SubscriberOK
  <1>1. ASSUME UNCHANGED <<subRows, subWatermark>>,
               subVersion' \in {subVersion, NoVersion},
               subPc' = "restore" => subVersion' = NoVersion
        PROVE  ReplicaDerives' /\ NothingMissed'
    <2>1. ReplicaDerives'
      BY <1>0, <1>1 DEF ReplicaDerives
    <2>2. ASSUME subVersion' # NoVersion, NEW k \in Keys
          PROVE  HasValueSince(txns', k, subWatermark, subRows[k])
      <3>1. HasValueSince(txns, k, subWatermark, subRows[k])
        BY <1>0, <1>1, <2>2 DEF NothingMissed
      <3> QED
        BY <1>0, <3>1, SinceNext
    <2>3. NothingMissed'
      BY <1>1, <2>2 DEF NothingMissed
    <2> QED
      BY <2>1, <2>3
  <1>2. ASSUME UNCHANGED subVars,
               subPc' \in {subPc, "reserve", "subscribe", "live"}
        PROVE  ReplicaDerives' /\ NothingMissed'
    <2>1. subPc' = "restore" => subVersion' = NoVersion
      BY <1>0, <1>2 DEF ReplicaDerives, subVars
    <2> QED
      BY <1>1, <1>2, <2>1 DEF subVars
  <1>3. CASE Owner
    <2>1. UNCHANGED subVars /\ subPc' \in {subPc, "reserve"}
      BY Zenon, <1>3 DEF Owner, OwnerCommit, OwnerPublish, OwnerReplay,
         OwnerReset, OwnerMetadata, OwnerCopied, OwnerCrash, LoseConnection,
         OwnerRestart, LitestreamSync
    <2> QED
      BY <1>2, <2>1
  <1>4. CASE Serve \/ Disconnect \/ UNCHANGED vars
    <2>1. UNCHANGED subVars /\ subPc' \in {subPc, "reserve"}
      BY Zenon, <1>4 DEF Serve, Catchup, RecvCommit, RecvLagged, ResolveRow,
         SendTransaction, Disconnect, LoseConnection, vars
    <2> QED
      BY <1>2, <2>1
  <1>5. CASE Subscribe \/ SubscribeFails
    <2>1. UNCHANGED subVars /\ subPc' \in {"reserve", "live"}
      BY Zenon, <1>5 DEF Subscribe, SubscribeFails
    <2> QED
      BY <1>2, <2>1
  <1>6. CASE ReserveSnapshot
    <2>1. /\ UNCHANGED <<subRows, subWatermark>>
          /\ subVersion' \in {subVersion, NoVersion}
          /\ subPc' = "restore" => subVersion' = NoVersion
      BY <1>6 DEF ReserveSnapshot
    <2> QED
      BY <1>1, <2>1
  <1>7. CASE RestoreSnapshot
    <2>1. /\ subRows' = backup.rows /\ subVersion' = backup.version
          /\ subWatermark' = backup.version /\ subPc' = "subscribe"
          /\ UNCHANGED txns
      BY Zenon, <1>7 DEF RestoreSnapshot, streamVars
    <2> QED
      BY <1>0, <2>1 DEF ReplicaDerives, NothingMissed, BackupComplete
  <1>8. CASE ApplyCommit
    <2>1. /\ subPc = "live"
          /\ UNCHANGED <<txns, subPc, subVersion>>
      BY Zenon, <1>8 DEF ApplyCommit, streamVars
    <2>2. /\ subWatermark' \in Nat /\ subWatermark' > subWatermark
          /\ \A k \in Keys :
                HasValueSince(txns, k, subWatermark', subRows'[k])
      BY <1>8, ApplyIsComplete
    <2>3. ReplicaDerives'
      BY <1>0, <2>1, <2>2 DEF ReplicaDerives, NoVersion
    <2>4. NothingMissed'
      BY <2>1, <2>2 DEF NothingMissed
    <2> QED
      BY <2>3, <2>4
  <1> QED
    BY <1>3, <1>4, <1>5, <1>6, <1>7, <1>8 DEF Next, ViewSyncer

LEMMA FollowInit == Init => FollowInv
  <1> SUFFICES ASSUME Init PROVE FollowInv
    OBVIOUS
  <1>1. TypeInv
    BY TypeInit
  <1>2. /\ txns = <<>> /\ wpos = 0 /\ owner = "synced" /\ rows = NoRows
        /\ logV = NoRows /\ truncs = {} /\ replicaVersion = 0
        /\ backup = [rows |-> NoRows, version |-> 0]
        /\ subPc = "reserve" /\ subVersion = NoVersion
        /\ todo = {} /\ wire = <<>> /\ replays = 0 /\ resyncs = 0
    BY Zenon DEF Init
  <1>3. Len(txns) = 0
    BY <1>2
  <1>4. \A k \in Keys : HasValue(txns, k, 0, 0)
    BY <1>2 DEF HasValue, ValueAt
  <1>5. \A k \in Keys : HasValueSince(txns, k, 0, 0)
    <2>1. 0 \in 0..Len(txns)
      BY <1>3
    <2> QED
      BY Zenon, <1>4, <2>1 DEF HasValueSince
  <1>6. OwnerRowsCurrent /\ LogIsComplete
    BY <1>2, <1>3, <1>4 DEF OwnerRowsCurrent, LogIsComplete, NoRows
  <1>7. BackupComplete
    BY <1>2, <1>5 DEF BackupComplete, NoRows
  <1>8. SnapshotInv /\ AtTheEnd /\ EmptyLogUnlessSynced
    BY <1>2, <1>3 DEF SnapshotInv, NeverResynced, DownServesNobody,
       LiveOnSameSnapshot, AtTheEnd, EmptyLogUnlessSynced
  <1>9. /\ TodoIsSet /\ SocketIsFresh /\ StreamIsGapless /\ ReplicaDerives
        /\ NothingMissed
    BY <1>2 DEF TodoIsSet, SocketIsFresh, StreamIsGapless, ReplicaDerives,
       NothingMissed
  <1> QED
    BY <1>1, <1>6, <1>7, <1>8, <1>9 DEF FollowInv

LEMMA FollowNext ==
    ASSUME MaxReplays = 0, MaxResyncs = 0, FollowInv, [Next]_vars
    PROVE  FollowInv'
  <1>1. TypeInv' /\ SnapshotInv'
    BY TypeNext, NeverResyncedNext, DownNext, LiveNext
       DEF FollowInv, SnapshotInv
  <1>2. AtTheEnd' /\ EmptyLogUnlessSynced' /\ OwnerRowsCurrent'
        /\ LogIsComplete'
    BY AtTheEndNext, EmptyLogNext, OwnerRowsNext, LogNext DEF FollowInv
  <1>3. BackupComplete' /\ TodoIsSet' /\ SocketIsFresh' /\ StreamIsGapless'
    BY BackupNext, TodoNext, SocketNext, StreamNext DEF FollowInv
  <1> QED
    BY <1>1, <1>2, <1>3, ReplicaNext DEF FollowInv

\* "a lagging or reconnecting subscriber never misses data": with an owner
\* that neither replays nor resyncs in place, every row of a view-syncer is one
\* the upstream had at the replica's watermark or later, for every number of
\* keys, transactions, disconnections and restarts.
THEOREM NothingIsMissed ==
    ASSUME MaxReplays = 0, MaxResyncs = 0 PROVE Spec => []NothingMissed
  <1>1. FollowInv => NothingMissed
    BY DEF FollowInv
  <1> QED
    BY FollowInit, FollowNext, <1>1, PTL DEF Spec

\* The change-streamer keeps its promise: every step of the owner, the server
\* and the view-syncer is a step of FollowedReplica or leaves it alone.
THEOREM PromiseIsKept ==
    ASSUME MaxReplays = 0, MaxResyncs = 0 PROVE Spec => FollowsPromise
  <1>1. Init => Promise!FollowInit
    BY DEF Init, Promise!FollowInit, NoVersion, NoRows
  <1>2. Promise!Txn = Txn
    BY Zenon DEF Promise!Txn, Txn, Promise!RowOps, RowOps,
       Promise!WideOpsAll, WideOpsAll
  <1>3. ASSUME NEW h, NEW k, NEW w, NEW x, HasValueSince(h, k, w, x)
        PROVE  Promise!HasValueSince(h, k, w, x)
    BY Zenon, <1>3 DEF HasValueSince, Promise!HasValueSince, HasValue,
       Promise!HasValue, Touches, Promise!Touches, ValueAt, Promise!ValueAt
  <1>4. ASSUME FollowInv, FollowInv', [Next]_vars
        PROVE  [Promise!FollowNext]_<<txns, subRows, subVersion, subWatermark>>
    <2>0. /\ OwnerOK /\ OwnerOK' /\ Len(txns) \in Nat
          /\ subRows' \in [Keys -> Nat]
      <3>1. OwnerOK /\ OwnerOK' /\ SubscriberOK'
        BY <1>4 DEF FollowInv, TypeInv, TypeOK
      <3>2. Len(txns) \in Nat /\ Len(txns') \in Nat
        BY <3>1 DEF OwnerOK
      <3> QED
        BY <3>1, <3>2 DEF SubscriberOK
    <2>1. ASSUME UNCHANGED subVars
          PROVE  [Promise!FollowNext]_<<txns, subRows, subVersion,
                                        subWatermark>>
      <3>1. txns' = txns \/ \E t \in Txn : txns' = Append(txns, t)
        BY <1>4, <2>0, LogGrows
      <3>2. CASE txns' = txns
        BY <2>1, <3>2 DEF subVars
      <3>3. CASE \E t \in Txn : txns' = Append(txns, t)
        BY <1>2, <2>1, <3>3 DEF subVars, Promise!FollowNext, Promise!Grow
      <3> QED
        BY <3>1, <3>2, <3>3
    <2>2. CASE Owner
      BY Zenon, <2>1, <2>2 DEF Owner, OwnerCommit, OwnerPublish, OwnerReplay,
         OwnerReset, OwnerMetadata, OwnerCopied, OwnerCrash, OwnerRestart,
         LitestreamSync
    <2>3. CASE Serve \/ Disconnect \/ UNCHANGED vars
      BY Zenon, <2>1, <2>3 DEF Serve, Catchup, RecvCommit, RecvLagged,
         ResolveRow, SendTransaction, Disconnect, vars
    <2>4. CASE Subscribe \/ SubscribeFails
      BY Zenon, <2>1, <2>4 DEF Subscribe, SubscribeFails
    <2>5. CASE ReserveSnapshot
      <3>1. UNCHANGED <<txns, subRows, subWatermark>>
        BY Zenon, <2>5 DEF ReserveSnapshot, streamVars
      <3>2. UNCHANGED subVersion \/ subVersion' = NoVersion
        BY <2>5 DEF ReserveSnapshot
      <3> QED
        BY <3>1, <3>2 DEF Promise!FollowNext, Promise!Discard, NoVersion
    <2>6. CASE RestoreSnapshot
      <3>1. /\ subRows' = backup.rows /\ subVersion' = backup.version
            /\ subWatermark' = backup.version /\ subPc = "restore"
            /\ UNCHANGED txns
        BY Zenon, <2>6 DEF RestoreSnapshot, streamVars
      <3>2. subVersion = -1
        BY <1>4, <3>1 DEF FollowInv, ReplicaDerives, NoVersion
      <3>3. Promise!Complete(subRows', subWatermark')
        BY <1>3, <1>4, <3>1 DEF FollowInv, BackupComplete, Promise!Complete
      <3>4. subVersion' \in 0..Len(txns) /\ subWatermark' = subVersion'
        BY <2>0, <3>1 DEF OwnerOK
      <3> QED
        BY <2>0, <3>1, <3>2, <3>3, <3>4
           DEF Promise!FollowNext, Promise!Restore
    <2>7. CASE ApplyCommit
      <3>1. UNCHANGED <<txns, subVersion>>
        BY Zenon, <2>7 DEF ApplyCommit, streamVars
      <3>2. /\ subVersion # -1 /\ subWatermark' > subWatermark
            /\ \A k \in Keys :
                  HasValueSince(txns, k, subWatermark', subRows'[k])
        BY <1>4, <2>7, ApplyIsComplete DEF NoVersion
      <3>3. Promise!Complete(subRows', subWatermark')
        BY <1>3, <3>2 DEF Promise!Complete
      <3> QED
        BY <2>0, <3>1, <3>2, <3>3 DEF Promise!FollowNext, Promise!Follow
    <2> QED
      BY <1>4, <2>2, <2>3, <2>4, <2>5, <2>6, <2>7 DEF Next, ViewSyncer
  <1> QED
    BY FollowInit, FollowNext, <1>1, <1>4, PTL
       DEF Spec, FollowsPromise, Promise!FollowSpec, Promise!followVars
=============================================================================
