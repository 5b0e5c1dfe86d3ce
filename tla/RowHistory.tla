----------------------------- MODULE RowHistory -----------------------------
(***************************************************************************)
(* What a sequence of transactions makes of each row.  A transaction is a  *)
(* record: op says, per key, whether the transaction sets the row, deletes *)
(* it or leaves it alone, and wide is a truncation ("t") or a schema change *)
(* ("r") of the whole table, run before the row operations.  The value of  *)
(* a row is the index of the transaction that set it, 0 when it is absent. *)
(***************************************************************************)
EXTENDS Integers, Sequences

CONSTANT Keys            \* row keys of the table

RowOps == {"none", "s", "d"}

WideOpsAll == {"none", "t", "r"}

Txn == [op : [Keys -> RowOps], wide : WideOpsAll]

\* A position of the log that carries nothing for the table.
EmptyTxn == [op |-> [k \in Keys |-> "none"], wide |-> "none"]

\* Transaction i of h changes, or may change, the row of k.
Touches(h, i, k) == h[i].op[k] # "none" \/ h[i].wide = "t"

\* What the row of k is right after transaction m of h touched it.
ValueAt(h, m, k) == IF m > 0 /\ h[m].op[k] = "s" THEN m ELSE 0

\* x is the row of k once the first n transactions of h have committed.
HasValue(h, k, n, x) ==
    \E m \in 0..n :
        /\ m = 0 \/ Touches(h, m, k)
        /\ \A j \in (m + 1)..n : ~Touches(h, j, k)
        /\ x = ValueAt(h, m, k)

\* x is a value the row of k had at version w of h or at a later one.
HasValueSince(h, k, w, x) == \E n \in w..Len(h) : HasValue(h, k, n, x)
=============================================================================
