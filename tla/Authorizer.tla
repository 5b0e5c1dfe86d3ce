----------------------------- MODULE Authorizer -----------------------------
(***************************************************************************)
(* Row permissions.  transform_query adds the select rules of each table   *)
(* to a query, and authorize_crud_ops decides a CRUD mutation on the rows  *)
(* of the replica.  Both bind the rules to the claims of the connection's  *)
(* token.  A case is one query or one mutation with its rules, its claims  *)
(* and the rows it meets.                                                  *)
(*                                                                         *)
(* A condition is a record with a kind k: a comparison of a column with a  *)
(* literal, or with a claim; "and", "or" with a sequence; "exists" with a  *)
(* subquery whose rows have the row as their parent.                       *)
(***************************************************************************)
EXTENDS Integers, Sequences, FiniteSets, SequencesExt

CONSTANTS
    Tables,       \* the tables that the replica has
    ReadCases,    \* queries: [db, auth, rules, query]
    WriteCases    \* mutations: [db, auth, rules, ops]

VARIABLE authCase

NoCase == [kind |-> "none"]

Null == "null"
And(cs) == [k |-> "and", cs |-> cs]
Or(cs) == [k |-> "or", cs |-> cs]
Cmp(col, val) == [k |-> "cmp", col |-> col, val |-> val]
Param(col, claim) == [k |-> "param", col |-> col, claim |-> claim]
Exists(q, not) == [k |-> "exists", sub |-> q, not |-> not]
Query(table, where, related) == [table |-> table, where |-> where, related |-> related]

-----------------------------------------------------------------------------
(***************************************************************************)
(* bind_condition: a parameter becomes the literal of its claim, or null.  *)
(***************************************************************************)
resolve_parameter(claim, auth) == IF claim \in DOMAIN auth THEN auth[claim] ELSE Null

RECURSIVE bind_condition(_, _), bind_static_parameters(_, _)
bind_condition(c, auth) ==
    CASE c.k = "cmp" -> c
      [] c.k = "param" -> Cmp(c.col, resolve_parameter(c.claim, auth))
      [] c.k \in {"and", "or"} -> [c EXCEPT !.cs = [i \in DOMAIN c.cs |-> bind_condition(c.cs[i], auth)]]
      [] c.k = "exists" -> [c EXCEPT !.sub = bind_static_parameters(@, auth)]

bind_static_parameters(q, auth) ==
    [q EXCEPT !.where = [i \in DOMAIN q.where |-> bind_condition(q.where[i], auth)],
              !.related = [i \in DOMAIN q.related |-> bind_static_parameters(q.related[i], auth)]]

(***************************************************************************)
(* simplify_condition: nested conjunctions and disjunctions are flattened, *)
(* and an empty one absorbs the compound it is in.                         *)
(***************************************************************************)
IsAlwaysTrue(c) == c = And(<<>>)
IsAlwaysFalse(c) == c = Or(<<>>)

Flat(c, k) == IF c.k = k THEN c.cs ELSE <<c>>

RECURSIVE simplify_condition(_)
simplify_condition(c) ==
    IF c.k \notin {"and", "or"} THEN c
    ELSE IF Len(c.cs) = 1 THEN simplify_condition(c.cs[1])
    ELSE LET flat == FlattenSeq([i \in DOMAIN c.cs |-> Flat(simplify_condition(c.cs[i]), c.k)])
         IN  IF c.k = "and" /\ \E i \in DOMAIN flat : IsAlwaysFalse(flat[i]) THEN Or(<<>>)
             ELSE IF c.k = "or" /\ \E i \in DOMAIN flat : IsAlwaysTrue(flat[i]) THEN And(<<>>)
             ELSE [c EXCEPT !.cs = flat]

(***************************************************************************)
(* transform_query: every table of the query, also below EXISTS and in     *)
(* related rows, gets the disjunction of its select rules; without rules   *)
(* that is FALSE.  The rules themselves are not transformed.               *)
(***************************************************************************)
RowSelectRules(rules, table) == IF table \in DOMAIN rules THEN rules[table] ELSE <<>>

(* Mutant: a table without rules is open. *)
AddRules_open(where, policy) == IF policy = <<>> THEN And(where) ELSE And(Append(where, Or(policy)))

AddRules(where, policy) == And(Append(where, Or(policy)))

RECURSIVE transform_query(_, _), transform_condition(_, _)
transform_condition(c, rules) ==
    CASE c.k \in {"cmp", "param"} -> c
      [] c.k \in {"and", "or"} -> [c EXCEPT !.cs = [i \in DOMAIN c.cs |-> transform_condition(c.cs[i], rules)]]
      [] c.k = "exists" -> [c EXCEPT !.sub = transform_query(@, rules)]

transform_query(q, rules) ==
    LET where == [i \in DOMAIN q.where |-> transform_condition(q.where[i], rules)]
    IN  [q EXCEPT !.where = <<simplify_condition(AddRules(where, RowSelectRules(rules, q.table)))>>,
                  !.related = [i \in DOMAIN q.related |-> transform_query(q.related[i], rules)]]

transform_and_hash_query_with_auth_data(q, rules, auth) ==
    bind_static_parameters(transform_query(q, rules), auth)

-----------------------------------------------------------------------------
(***************************************************************************)
(* What a bound condition and a bound query mean on the rows of a replica. *)
(***************************************************************************)
RECURSIVE Holds(_, _, _)
Holds(db, c, row) ==
    CASE c.k = "cmp" -> c.val # Null /\ row[c.col] = c.val
      [] c.k = "and" -> \A i \in DOMAIN c.cs : Holds(db, c.cs[i], row)
      [] c.k = "or" -> \E i \in DOMAIN c.cs : Holds(db, c.cs[i], row)
      [] c.k = "exists" ->
           c.not # \E child \in db[c.sub.table] :
                       child.parent = row.id /\ \A i \in DOMAIN c.sub.where : Holds(db, c.sub.where[i], child)

RowsOf(db, q) == {r \in db[q.table] : \A i \in DOMAIN q.where : Holds(db, q.where[i], r)}

RECURSIVE AnswerTo(_, _)
AnswerTo(db, q) ==
    {[row |-> r,
      related |-> [i \in DOMAIN q.related |->
                     {a \in AnswerTo(db, q.related[i]) : a.row.parent = r.id}]] : r \in RowsOf(db, q)}

-----------------------------------------------------------------------------
(***************************************************************************)
(* authorize_crud_ops: operations must name the replica's primary key and  *)
(* carry it; an upsert is an update if the replica has the row; each       *)
(* operation is judged on the replica's rows, before and after it, by the  *)
(* policy of the row and those of the cells it changes.                    *)
(***************************************************************************)
RowOf(db, op) == {r \in db[op.table] : r.id = op.id}

ops_match_replica_schema(ops) == \A i \in DOMAIN ops : ops[i].table \in Tables /\ ops[i].keyed

Normalize(db, op) ==
    IF op.op # "upsert" THEN op
    ELSE [op EXCEPT !.op = IF RowOf(db, op) # {} THEN "update" ELSE "insert"]

PassesPolicy(db, policy, row) == \E i \in DOMAIN policy : Holds(db, policy[i], row)

(* The policies that apply: none means no rule, and no rule means no. *)
ApplicableCells(entry, action, changed) ==
    {entry.cells[col][action] : col \in {x \in DOMAIN entry.cells :
        /\ action \in DOMAIN entry.cells[x]
        /\ action \in {"pre", "post"} => x \in changed}}

can_do(db, rules, table, action, row, changed) ==
    /\ table \in DOMAIN rules
    /\ action \in DOMAIN rules[table].row
    /\ PassesPolicy(db, rules[table].row[action], row)
    /\ \A policy \in ApplicableCells(rules[table], action, changed) : PassesPolicy(db, policy, row)

Resulting(db, op) ==
    IF op.op = "insert" THEN op.value ELSE op.value @@ (CHOOSE r \in RowOf(db, op) : TRUE)

CanPre(db, rules, op) ==
    CASE op.op = "insert" -> TRUE
      [] op.op = "update" -> \E r \in RowOf(db, op) : can_do(db, rules, op.table, "pre", r, DOMAIN op.value)
      [] op.op = "delete" -> \E r \in RowOf(db, op) : can_do(db, rules, op.table, "delete", r, {})

CanPost(db, rules, op) ==
    CASE op.op = "insert" -> can_do(db, rules, op.table, "insert", Resulting(db, op), {})
      [] op.op = "update" -> can_do(db, rules, op.table, "post", Resulting(db, op), DOMAIN op.value)
      [] op.op = "delete" -> TRUE

BoundPolicies(ps, auth) ==
    [action \in DOMAIN ps |-> [i \in DOMAIN ps[action] |-> bind_condition(ps[action][i], auth)]]

bind_permissions_auth_data(rules, auth) ==
    [t \in DOMAIN rules |->
        [row |-> BoundPolicies(rules[t].row, auth),
         cells |-> [col \in DOMAIN rules[t].cells |-> BoundPolicies(rules[t].cells[col], auth)]]]

authorize_crud_ops(db, rules, auth, ops) ==
    LET bound == bind_permissions_auth_data(rules, auth)
        normal == [i \in DOMAIN ops |-> Normalize(db, ops[i])]
    IN  /\ ops_match_replica_schema(ops)
        /\ \A i \in DOMAIN normal : CanPre(db, bound, normal[i])
        /\ \A i \in DOMAIN normal : CanPost(db, bound, normal[i])

-----------------------------------------------------------------------------
AuthInit == authCase = NoCase

AuthNext ==
    /\ authCase = NoCase
    /\ \/ \E c \in ReadCases : authCase' = [kind |-> "read", case |-> c]
       \/ \E c \in WriteCases : authCase' = [kind |-> "write", case |-> c]

(***************************************************************************)
(* Reference: the rows that a user may see, by rules that look at all      *)
(* rows; and what an operation leaves of a table.                          *)
(***************************************************************************)
Visible(db, rules, auth) ==
    [t \in DOMAIN db |-> {r \in db[t] : \E i \in DOMAIN RowSelectRules(rules, t) :
                             Holds(db, bind_condition(rules[t][i], auth), r)}]

Performed(db, op) ==
    [db EXCEPT ![op.table] = CASE op.op = "delete" -> @ \ RowOf(db, op)
                               [] op.op = "insert" -> @ \cup {op.value}
                               [] op.op = "update" -> (@ \ RowOf(db, op)) \cup {Resulting(db, op)}]

(* Is a step allowed by the rules, on the rows it finds when it runs? *)
StepAllowed(db, rules, op) ==
    LET n == Normalize(db, op)
    IN  CASE n.op = "insert" -> can_do(Performed(db, n), rules, n.table, "insert", n.value, {})
          [] n.op = "update" -> /\ RowOf(db, n) # {}
                                /\ \A r \in RowOf(db, n) : can_do(db, rules, n.table, "pre", r, DOMAIN n.value)
                                /\ can_do(Performed(db, n), rules, n.table, "post", Resulting(db, n), DOMAIN n.value)
          [] n.op = "delete" -> \E r \in RowOf(db, n) : can_do(db, rules, n.table, "delete", r, {})

(***************************************************************************)
(* The tables, besides its own rows, that the write rules of a table look  *)
(* at: those below EXISTS.                                                 *)
(***************************************************************************)
RECURSIVE ReadBy(_)
ReadBy(c) ==
    CASE c.k \in {"cmp", "param"} -> {}
      [] c.k \in {"and", "or"} -> UNION {ReadBy(c.cs[i]) : i \in DOMAIN c.cs}
      [] c.k = "exists" -> {c.sub.table} \cup UNION {ReadBy(c.sub.where[i]) : i \in DOMAIN c.sub.where}

PoliciesOf(entry) ==
    UNION {{ps[action] : action \in DOMAIN ps} :
             ps \in {entry.row} \cup {entry.cells[col] : col \in DOMAIN entry.cells}}

TablesRead(rules, table) ==
    UNION {UNION {ReadBy(p[i]) : i \in DOMAIN p} :
             p \in UNION {PoliciesOf(rules[t]) : t \in {table} \cap DOMAIN rules}}

(***************************************************************************)
(* The answer to a transformed query is the answer to the query on the     *)
(* rows its user may see, below EXISTS and NOT EXISTS and in related rows  *)
(* too.  A mutation that writes no row twice is authorized exactly when it *)
(* fits the schema and each of its operations is allowed on the rows that  *)
(* it finds when it runs; but an operation whose rules look, below EXISTS, *)
(* at a table that other operations of the mutation write is judged on the *)
(* rows the replica had before the mutation (authorize_crud_ops).  Rules   *)
(* that look at other rows of their own table are left out.                *)
(***************************************************************************)
AuthorizedExactly ==
    /\ authCase.kind = "read" =>
         LET c == authCase.case
         IN  AnswerTo(c.db, transform_and_hash_query_with_auth_data(c.query, c.rules, c.auth)) =
             AnswerTo(Visible(c.db, c.rules, c.auth), bind_static_parameters(c.query, c.auth))
    /\ authCase.kind = "write" =>
         LET c == authCase.case
             bound == bind_permissions_auth_data(c.rules, c.auth)
             after(i) == FoldLeft(LAMBDA d, op : Performed(d, Normalize(d, op)), c.db, SubSeq(c.ops, 1, i))
             others(i) == {c.ops[j] : j \in DOMAIN c.ops \ {i}}
             reads(i) == TablesRead(c.rules, c.ops[i].table)
             found(i) == IF \E op \in others(i) : op.table \in reads(i) THEN c.db ELSE after(i - 1)
         IN  (\A i \in DOMAIN c.ops :
                 /\ c.ops[i].table \notin reads(i)
                 /\ \A op \in others(i) : op.table # c.ops[i].table \/ op.id # c.ops[i].id) =>
                (authorize_crud_ops(c.db, c.rules, c.auth, c.ops) <=>
                    /\ ops_match_replica_schema(c.ops)
                    /\ \A i \in DOMAIN c.ops : StepAllowed(found(i), bound, c.ops[i]))
=============================================================================
