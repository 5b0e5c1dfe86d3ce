--------------------------- MODULE FollowedReplica ---------------------------
(***************************************************************************)
(* What the change-streamer promises a view-syncer: a replica labelled     *)
(* with a watermark never lacks a change at or before that watermark.  It  *)
(* may hold some rows that are newer.  While it follows one upstream       *)
(* snapshot its watermark grows; otherwise it is discarded and restored.   *)
(***************************************************************************)
EXTENDS RowHistory

VARIABLES
    history,     \* the upstream transactions
    rows,        \* the subscriber's rows
    version,     \* the initial snapshot they derive from, -1: no replica
    mark         \* the watermark they are labelled with

followVars == <<history, rows, version, mark>>

\* The replica holds everything up to its watermark.
Complete(f, w) == \A k \in Keys : HasValueSince(history, k, w, f[k])

FollowInit ==
    /\ history = <<>>
    /\ version = -1
    /\ mark = 0
    /\ rows = [k \in Keys |-> 0]

\* The upstream history grows.
Grow ==
    /\ \E t \in Txn : history' = Append(history, t)
    /\ UNCHANGED <<rows, version, mark>>

\* The replica moves to a later watermark of the same snapshot.
Follow ==
    /\ version # -1
    /\ version' = version
    /\ mark' > mark
    /\ rows' \in [Keys -> Nat]
    /\ Complete(rows', mark')
    /\ UNCHANGED history

\* The replica is discarded.
Discard ==
    /\ version' = -1
    /\ UNCHANGED <<history, rows, mark>>

\* A snapshot is restored; its watermark is the version it derives from.
Restore ==
    /\ version = -1
    /\ version' \in 0..Len(history)
    /\ mark' = version'
    /\ rows' \in [Keys -> Nat]
    /\ Complete(rows', mark')
    /\ UNCHANGED history

FollowNext == Grow \/ Follow \/ Discard \/ Restore

FollowSpec == FollowInit /\ [][FollowNext]_followVars
=============================================================================
