----------------------------- MODULE QueryGraph -----------------------------
(***************************************************************************)
(* The query engine: the operator graph that build_pipeline assembles for  *)
(* a query (sources, skip, filters, joins, EXISTS, OR fan-out, take), how  *)
(* it is pulled (fetch) to hydrate a query, and how a row change is pushed *)
(* through it.  Rows are records of small integers; Null is 0, which the   *)
(* engine sorts before every value.  A relationship name is a tuple        *)
(* <<alias>> or <<alias, number>>.                                         *)
(*                                                                         *)
(* An operator is a record that holds its inputs.  A world                 *)
(* w = [db, ov, tk, hid, acc] is what operators read and write: the tables *)
(* of the snapshot, the changes pushed since (the overlay of the sources), *)
(* the storage of every Take, the row a Take hides and what a FanIn has    *)
(* accumulated.                                                            *)
(***************************************************************************)
EXTENDS Integers, Sequences, SequencesExt, FiniteSets, TLC

Null == 0
NoStart == [basis |-> "none"]
NoLimit == -1
NoCond == [type |-> "none"]
NoAlias == "none"
NoTake == [size |-> -1, bound |-> <<>>]
NoRow == <<>>
NoPartition == <<"*">>

-----------------------------------------------------------------------------
(* Values, orderings and constraints.                                      *)

values_equal(a, b) == a # Null /\ b # Null /\ a = b

\* `order` is a sequence of <<column, "asc" | "desc">>; a missing column is Null.
Get(row, col) == IF col \in DOMAIN row THEN row[col] ELSE Null

make_comparator(order, reverse, a, b) ==
  \E i \in DOMAIN order :
    /\ \A j \in 1 .. (i - 1) : Get(a, order[j][1]) = Get(b, order[j][1])
    /\ IF (order[i][2] = "asc") # reverse
       THEN Get(a, order[i][1]) < Get(b, order[i][1])
       ELSE Get(a, order[i][1]) > Get(b, order[i][1])

Tied(order, a, b) == \A i \in DOMAIN order : Get(a, order[i][1]) = Get(b, order[i][1])

\* A constraint is a function from some columns to the value each must equal.
NoConstraint == <<>>
constraint_matches_row(c, row) == \A k \in DOMAIN c : values_equal(Get(row, k), c[k])

KeyValues(cols, row) == [i \in DOMAIN cols |-> Get(row, cols[i])]
Correlated(fromCols, toCols, row) ==
  [k \in {toCols[i] : i \in DOMAIN toCols} |->
     Get(row, fromCols[CHOOSE i \in DOMAIN toCols : toCols[i] = k])]

-----------------------------------------------------------------------------
(* What a simple condition says of a row.                                  *)

eval_is(op, l, r) == IF op = "IS" THEN l = r ELSE l # r

eval_non_null_op(op, l, r) ==
  CASE op = "=" -> l = r [] op = "!=" -> l # r
    [] op = "<" -> l < r [] op = "<=" -> l <= r
    [] op = ">" -> l > r [] op = ">=" -> l >= r
    [] op = "IN" -> l \in r [] op = "NOT IN" -> l \notin r

create_simple_predicate(cond, row) ==
  LET l == Get(row, cond.col) IN
  IF cond.op \in {"IS", "IS NOT"} THEN eval_is(cond.op, l, cond.val)
  ELSE /\ cond.op \in {"IN", "NOT IN"} \/ cond.val # Null
       /\ l # Null
       /\ eval_non_null_op(cond.op, l, cond.val)

RECURSIVE create_predicate(_, _)
create_predicate(cond, row) ==
  CASE cond.type = "simple" -> create_simple_predicate(cond, row)
    [] cond.type = "and" -> \A i \in DOMAIN cond.args : create_predicate(cond.args[i], row)
    [] cond.type = "or" -> \E i \in DOMAIN cond.args : create_predicate(cond.args[i], row)

-----------------------------------------------------------------------------
(* A source: the SELECT it runs on the snapshot, then its overlay.         *)

\* How much of the ordering a start row gives values for.
StartPrefix(order, row) ==
  LET missing == {i \in DOMAIN order : order[i][1] \notin DOMAIN row} IN
  IF missing = {} THEN order
  ELSE SubSeq(order, 1, (CHOOSE i \in missing : \A j \in missing : i <= j) - 1)

nullable_aware_range_comparison(l, v, op) ==
  IF v = Null THEN op = ">" /\ l # Null
  ELSE IF op = ">" THEN l # Null /\ l > v
  ELSE l = Null \/ l < v

gather_start_constraints(start, reverse, fullOrder, row) ==
  LET order == StartPrefix(fullOrder, start.row)
      same(i) == Get(row, order[i][1]) = Get(start.row, order[i][1])
      beyond(i) == nullable_aware_range_comparison(
                     Get(row, order[i][1]), Get(start.row, order[i][1]),
                     IF (order[i][2] = "asc") # reverse THEN ">" ELSE "<")
  IN \/ order = <<>>
     \/ \E i \in DOMAIN order : beyond(i) /\ \A j \in 1 .. (i - 1) : same(j)
     \/ start.basis = "at" /\ \A i \in DOMAIN order : same(i)

build_select_query(rows, order, req) ==
  SetToSortSeq({r \in rows : /\ constraint_matches_row(req.constraint, r)
                             /\ \/ req.start = NoStart
                                \/ gather_start_constraints(req.start, req.reverse, order, r)},
               LAMBDA a, b : make_comparator(order, req.reverse, a, b))

\* One pushed change, spliced into the rows a fetch read.
apply_overlay(rows, change, order, req) ==
  LET seen(r) == /\ r # NoRow
                 /\ \/ req.start = NoStart
                    \/ ~make_comparator(order, req.reverse, r, req.start.row)
                 /\ constraint_matches_row(req.constraint, r)
      dropped == IF seen(change.old) THEN SelectSeq(rows, LAMBDA r : r.id # change.old.id)
                 ELSE rows
      others == SelectSeq(dropped, LAMBDA r : r.id # change.new.id)
  IN IF ~seen(change.new) THEN dropped
     ELSE SelectSeq(others, LAMBDA r : make_comparator(order, req.reverse, r, change.new))
          \o <<change.new>>
          \o SelectSeq(others, LAMBDA r : ~make_comparator(order, req.reverse, r, change.new))

\* The source's ordering always ends in the primary key.
source_ordering(orderBy) ==
  IF \E i \in DOMAIN orderBy : orderBy[i][1] = "id" THEN orderBy
  ELSE Append(orderBy, <<"id", "asc">>)

Leaf(row) == [row |-> row, rel |-> <<>>]

SourceFetch(op, req, w) ==
  LET base == build_select_query(w.db[op.table], op.order, req)
      read == FoldLeft(LAMBDA rows, ch : apply_overlay(rows, ch, op.order, req), base,
                       SelectSeq(w.ov, LAMBDA ch : ch.src = <<op.table, op.order>>))
  IN [i \in DOMAIN read |-> Leaf(read[i])]

-----------------------------------------------------------------------------
(* The graph of a query.                                                   *)

RECURSIVE condition_has_correlated(_)
condition_has_correlated(cond) ==
  \/ cond.type = "csq"
  \/ cond.type \in {"and", "or"} /\ \E i \in DOMAIN cond.args : condition_has_correlated(cond.args[i])

RECURSIVE condition_has_correlated_under_or(_)
condition_has_correlated_under_or(cond) ==
  \/ cond.type = "or" /\ condition_has_correlated(cond)
  \/ cond.type = "and" /\ \E i \in DOMAIN cond.args : condition_has_correlated_under_or(cond.args[i])

\* The subqueries of a condition, in the order they are written.
RECURSIVE gather_exists_conditions(_)
gather_exists_conditions(cond) ==
  CASE cond.type = "csq" -> <<cond>>
    [] cond.type \in {"and", "or"} ->
         FlattenSeq([i \in DOMAIN cond.args |-> gather_exists_conditions(cond.args[i])])
    [] OTHER -> <<>>

\* Numbers the subqueries below an AND or an OR so that their names differ.
RECURSIVE uniquify_condition(_, _)
uniquify_condition(cond, count) ==
  CASE cond.type = "csq" -> [cond EXCEPT !.alias = <<@[1], count>>]
    [] cond.type \in {"and", "or"} ->
         [cond EXCEPT !.args =
            [i \in DOMAIN cond.args |->
               uniquify_condition(cond.args[i],
                 count + Len(FlattenSeq([j \in 1 .. (i - 1) |->
                               gather_exists_conditions(cond.args[j])])))]]
    [] OTHER -> cond

uniquify_correlated_subquery_condition_aliases(cond) ==
  IF cond.type \in {"and", "or"} THEN uniquify_condition(cond, 0) ELSE cond

\* What is left of a condition without its subqueries; NoCond when nothing is.
RECURSIVE strip_correlated(_)
strip_correlated(cond) ==
  CASE cond.type = "csq" -> NoCond
    [] cond.type \in {"and", "or"} ->
         LET kept == SelectSeq([i \in DOMAIN cond.args |-> strip_correlated(cond.args[i])],
                               LAMBDA c : c # NoCond)
         IN IF cond.type = "or" THEN [cond EXCEPT !.args = kept]
            ELSE IF kept = <<>> THEN NoCond
            ELSE IF Len(kept) = 1 THEN kept[1]
            ELSE [cond EXCEPT !.args = kept]
    [] OTHER -> cond

relationship_name(csq, index) ==
  IF csq.alias[1] = NoAlias /\ Len(csq.alias) = 1 THEN <<"zsubq", index>> ELSE csq.alias

\* Of two related hops with one alias the later replaces the earlier, in its place.
ChosenRelated(related) ==
  LET same(i, j) == i = j \/ (related[i].alias = related[j].alias /\ related[i].alias # <<NoAlias>>)
      first(i) == ~\E j \in 1 .. (i - 1) : same(i, j)
      last(i) == CHOOSE k \in DOMAIN related :
                   same(i, k) /\ \A m \in DOMAIN related : same(i, m) => m <= k
      firsts == SelectSeq([i \in DOMAIN related |-> i], first)
  IN [n \in DOMAIN firsts |-> related[last(firsts[n])]]

JoinOf(parent, child, csq, name) ==
  [op |-> "join", parent |-> parent, child |-> child,
   pk |-> csq.parentField, ck |-> csq.childField, name |-> name]

RECURSIVE build_pipeline_with_partition(_, _, _)
RECURSIVE apply_where(_, _, _)

\* `at` names the place of a subgraph in the whole: the key of its Take's storage.
apply_or(input, cond, at) ==
  LET fanOut == [op |-> "fanout", input |-> input, at |-> at]
      arms == [i \in DOMAIN cond.args |-> [c |-> cond.args[i], i |-> i]]
      subs == SelectSeq(arms, LAMBDA a : condition_has_correlated(a.c))
      others == SelectSeq(arms, LAMBDA a : ~condition_has_correlated(a.c))
      branches == [n \in DOMAIN subs |->
                     apply_where(fanOut, subs[n].c, Append(at, <<"arm", subs[n].i>>))]
      rest == [op |-> "filter", input |-> fanOut,
               cond |-> [type |-> "or", args |-> [n \in DOMAIN others |-> others[n].c]]]
  IN [op |-> "fanin", input |-> input, at |-> at,
      branches |-> IF others = <<>> THEN branches ELSE Append(branches, rest)]

\* Joins for every subquery, a filter for the rest, then one EXISTS per subquery.
ApplyConjunction(input, cond, at) ==
  LET subs == gather_exists_conditions(cond)
      joined == FoldLeft(
        LAMBDA end, i :
          JoinOf(end, build_pipeline_with_partition(subs[i].sub, subs[i].childField,
                                                    Append(at, <<"exists", i>>)),
                 subs[i], relationship_name(subs[i], i - 1)),
        input, [i \in DOMAIN subs |-> i])
      rest == strip_correlated(cond)
      filtered == IF rest = NoCond THEN joined
                  ELSE [op |-> "filter", input |-> joined, cond |-> rest]
  IN FoldLeft(LAMBDA end, i : [op |-> "exists", input |-> end,
                               name |-> relationship_name(subs[i], i - 1),
                               not |-> subs[i].exists = "NOT EXISTS"],
              filtered, [i \in DOMAIN subs |-> i])

apply_where(input, cond, at) ==
  IF cond.type = "or" /\ condition_has_correlated(cond) THEN apply_or(input, cond, at)
  ELSE IF ~condition_has_correlated(cond)
       THEN [op |-> "filter", input |-> input, cond |-> cond]
  ELSE IF cond.type = "and" /\ condition_has_correlated_under_or(cond)
       THEN LET rest == SelectSeq(cond.args, LAMBDA c : ~condition_has_correlated_under_or(c))
                ors == SelectSeq(cond.args, condition_has_correlated_under_or)
                first == IF rest = <<>> THEN input
                         ELSE IF Len(rest) = 1 THEN apply_where(input, rest[1], Append(at, <<"rest">>))
                         ELSE apply_where(input, [type |-> "and", args |-> rest], Append(at, <<"rest">>))
            IN FoldLeft(LAMBDA end, i : apply_where(end, ors[i], Append(at, <<"or", i>>)),
                        first, [i \in DOMAIN ors |-> i])
  ELSE ApplyConjunction(input, cond, at)

apply_related(parent, csq, index, at) ==
  JoinOf(parent,
         build_pipeline_with_partition(csq.sub, csq.childField, Append(at, <<"related", index>>)),
         csq, relationship_name(csq, index))

build_pipeline_with_partition(ast, partition, at) ==
  LET source == [op |-> "source", table |-> ast.table, order |-> source_ordering(ast.orderBy)]
      skipped == IF ast.start = NoStart THEN source
                 ELSE [op |-> "skip", input |-> source, bound |-> ast.start]
      filtered == IF ast.where = NoCond THEN skipped
                  ELSE apply_where(skipped,
                         uniquify_correlated_subquery_condition_aliases(ast.where), at)
      taken == IF ast.limit = NoLimit THEN filtered
               ELSE [op |-> "take", input |-> filtered, limit |-> ast.limit,
                     partition |-> partition, at |-> at]
      hops == ChosenRelated(ast.related)
  IN FoldLeft(LAMBDA end, i : apply_related(end, hops[i], i - 1, at), taken,
              [i \in DOMAIN hops |-> i])

build_pipeline(ast) == build_pipeline_with_partition(ast, NoPartition, <<>>)

\* The schema an operator reports: its table, ordering and joined relationships.
RECURSIVE get_schema(_)
get_schema(op) ==
  CASE op.op = "source" -> [table |-> op.table, sort |-> op.order, rel |-> <<>>]
    [] op.op = "join" -> LET s == get_schema(op.parent) IN
         [s EXCEPT !.rel = (op.name :> get_schema(op.child)) @@ @]
    [] OTHER -> get_schema(op.input)

SortOf(op) == get_schema(op).sort

-----------------------------------------------------------------------------
(* Pulling rows: fetch.  A fetch returns the nodes and the world after it, *)
(* because the first fetch of a Take records its state.                    *)

AllRows == [constraint |-> NoConstraint, start |-> NoStart, reverse |-> FALSE]
Constrained(c) == [AllRows EXCEPT !.constraint = c]

\* The bound's ordering: the leading sort columns it has values for, or all of them.
BoundSort(op) ==
  LET prefix == StartPrefix(SortOf(op.input), op.bound.row) IN
  IF prefix = <<>> THEN SortOf(op.input) ELSE prefix

should_be_present(op, row) ==
  \/ make_comparator(BoundSort(op), FALSE, op.bound.row, row)
  \/ op.bound.basis = "at" /\ Tied(BoundSort(op), op.bound.row, row)

\* Where a Skip's fetch starts; "empty" when nothing can qualify.
get_start(op, req) ==
  LET bound == op.bound
      before == make_comparator(BoundSort(op), FALSE, bound.row, req.start.row)
      equal == Tied(BoundSort(op), bound.row, req.start.row)
      bothAt == bound.basis = "at" /\ req.start.basis = "at"
  IN IF req.start = NoStart THEN IF req.reverse THEN NoStart ELSE bound
     ELSE IF before THEN req.start
     ELSE IF ~req.reverse
          THEN IF equal /\ ~bothAt THEN [bound EXCEPT !.basis = "after"] ELSE bound
     ELSE IF equal /\ bothAt THEN bound
     ELSE [basis |-> "empty"]

TakeKey(op, rowOrConstraint) ==
  <<op.at, IF op.partition = NoPartition THEN <<>> ELSE KeyValues(op.partition, rowOrConstraint)>>
MaxBoundKey(op) == <<op.at, <<-1>>>>   \* no column has the value -1

constraint_matches_partition_key(op, c) ==
  op.partition # NoPartition /\ DOMAIN c = {op.partition[i] : i \in DOMAIN op.partition}

get_take_state(op, key, w) == IF key \in DOMAIN w.tk THEN w.tk[key] ELSE NoTake
get_max_bound(op, w) == IF MaxBoundKey(op) \in DOMAIN w.tk THEN w.tk[MaxBoundKey(op)] ELSE NoRow

\* The storage entries one set_take_state writes.
set_take_state(op, key, size, bound, maxBound) ==
  (IF /\ bound # NoRow
      /\ maxBound = NoRow \/ make_comparator(SortOf(op), FALSE, maxBound, bound)
   THEN MaxBoundKey(op) :> bound ELSE <<>>)
  @@ (key :> [size |-> size, bound |-> bound])

\* Of a sequence of nodes, the longest prefix whose rows all pass.
TakeWhile(nodes, pass(_)) ==
  LET stops == {i \in DOMAIN nodes : ~pass(nodes[i].row)} IN
  IF stops = {} THEN nodes
  ELSE SubSeq(nodes, 1, (CHOOSE i \in stops : \A j \in stops : i <= j) - 1)

RECURSIVE Fetch(_, _, _)

process_parent_node(op, node, w) ==
  LET kids == Fetch(op.child, Constrained(Correlated(op.pk, op.ck, node.row)), w) IN
  [node |-> [node EXCEPT !.rel = (op.name :> kids.out) @@ @], w |-> kids.w]

JoinFetch(op, req, w) ==
  LET parents == Fetch(op.parent, req, w) IN
  FoldLeft(LAMBDA got, node : LET p == process_parent_node(op, node, got.w) IN
             [out |-> Append(got.out, p.node), w |-> p.w],
           [out |-> <<>>, w |-> parents.w], parents.out)

\* Mutant: the first fetch records the limit as the size.
initial_fetch_full(op, req, w) ==
  LET input == Fetch(op.input, req, w)
      out == SubSeq(input.out, 1, IF Len(input.out) < op.limit THEN Len(input.out) ELSE op.limit)
      bound == IF out = <<>> THEN NoRow ELSE Last(out).row
  IN [out |-> out,
      w |-> [input.w EXCEPT !.tk = set_take_state(op, TakeKey(op, req.constraint), op.limit,
                                                  bound, get_max_bound(op, w)) @@ @]]

initial_fetch(op, req, w) ==
  LET input == Fetch(op.input, req, w)
      out == SubSeq(input.out, 1, IF Len(input.out) < op.limit THEN Len(input.out) ELSE op.limit)
      bound == IF out = <<>> THEN NoRow ELSE Last(out).row
  IN IF op.limit = 0 THEN [out |-> <<>>, w |-> w]
     ELSE [out |-> out,
           w |-> [input.w EXCEPT !.tk = set_take_state(op, TakeKey(op, req.constraint), Len(out),
                                                       bound, get_max_bound(op, w)) @@ @]]

TakeFetch(op, req, w) ==
  LET sort == SortOf(op)
      above(row, bound) == make_comparator(sort, FALSE, bound, row)
      state(c) == get_take_state(op, TakeKey(op, c), w)
      nodes == Fetch(op.input, req, w).out
      mine == state(req.constraint)
      hidden(row) == op.at \in DOMAIN w.hid /\ Tied(sort, w.hid[op.at], row)
      max == get_max_bound(op, w)
  IN IF op.partition = NoPartition \/ constraint_matches_partition_key(op, req.constraint)
     THEN IF mine = NoTake THEN initial_fetch(op, req, w)
          ELSE IF mine.bound = NoRow THEN [out |-> <<>>, w |-> w]
          ELSE [out |-> SelectSeq(TakeWhile(nodes, LAMBDA r : ~above(r, mine.bound)),
                                  LAMBDA n : ~hidden(n.row)), w |-> w]
     ELSE IF max = NoRow THEN [out |-> <<>>, w |-> w]
     ELSE [out |-> SelectSeq(TakeWhile(nodes, LAMBDA r : ~above(r, max)),
                             LAMBDA n : /\ state(n.row).bound # NoRow
                                        /\ ~above(n.row, state(n.row).bound)), w |-> w]

\* Mutant: a row that several branches return is returned several times.
FanInFetch_dup(op, req, w) ==
  LET all == FlattenSeq([i \in DOMAIN op.branches |-> Fetch(op.branches[i], req, w).out]) IN
  [out |-> SortSeq(all, LAMBDA a, b : make_comparator(SortOf(op), req.reverse, a.row, b.row)), w |-> w]

\* Every branch's nodes in order; of the copies of a row the first branch's stays.
FanInFetch(op, req, w) ==
  LET all == FlattenSeq([i \in DOMAIN op.branches |-> Fetch(op.branches[i], req, w).out])
      sort == SortOf(op)
      first(i) == ~\E j \in 1 .. (i - 1) : Tied(sort, all[j].row, all[i].row)
      kept == SelectSeq([i \in DOMAIN all |-> [i |-> i, n |-> all[i]]], LAMBDA x : first(x.i))
      sorted == SortSeq(kept, LAMBDA a, b : make_comparator(sort, req.reverse, a.n.row, b.n.row))
  IN [out |-> [i \in DOMAIN sorted |-> sorted[i].n], w |-> w]

relationship_size(node, name) == IF name \in DOMAIN node.rel THEN Len(node.rel[name]) ELSE 0
passes(op, exists) == IF op.not THEN ~exists ELSE exists

Fetch(op, req, w) ==
  CASE op.op = "source" -> [out |-> SourceFetch(op, req, w), w |-> w]
    [] op.op = "fanout" -> Fetch(op.input, req, w)
    [] op.op = "fanin" -> FanInFetch(op, req, w)
    [] op.op = "join" -> JoinFetch(op, req, w)
    [] op.op = "take" -> TakeFetch(op, req, w)
    [] op.op = "filter" ->
         LET got == Fetch(op.input, req, w) IN
         [got EXCEPT !.out = SelectSeq(@, LAMBDA n : create_predicate(op.cond, n.row))]
    [] op.op = "exists" ->
         LET got == Fetch(op.input, req, w) IN
         [got EXCEPT !.out = SelectSeq(@, LAMBDA n : passes(op, relationship_size(n, op.name) > 0))]
    [] op.op = "skip" ->
         LET start == get_start(op, req)
             got == Fetch(op.input, [req EXCEPT !.start = start], w)
         IN IF start.basis = "empty" THEN [out |-> <<>>, w |-> w]
            ELSE IF ~req.reverse THEN got
            ELSE [got EXCEPT !.out = TakeWhile(@, LAMBDA r : should_be_present(op, r))]

-----------------------------------------------------------------------------
(* Hydrating a query: the rows the graph holds, by table and primary key.  *)

\* Mutant: the relationship names of a query are read without the numbers the builder gave them.
graph_child_hops_plain(ast) ==
  LET hops == ChosenRelated(ast.related)
      where == gather_exists_conditions(ast.where)
      named(csqs) == [i \in DOMAIN csqs |-> [ast |-> csqs[i].sub, name |-> relationship_name(csqs[i], i - 1),
                                             sent |-> csqs[i].exists # "NOT EXISTS"]]
  IN SelectSeq(named(hops) \o named(where), LAMBDA h : h.sent)

\* The hops of a query whose children are sent: related, and EXISTS but not NOT EXISTS.
graph_child_hops(ast) ==
  LET hops == ChosenRelated(ast.related)
      where == IF ast.where = NoCond THEN <<>>
               ELSE gather_exists_conditions(uniquify_correlated_subquery_condition_aliases(ast.where))
      named(csqs) == [i \in DOMAIN csqs |-> [ast |-> csqs[i].sub, name |-> relationship_name(csqs[i], i - 1),
                                             sent |-> csqs[i].exists # "NOT EXISTS"]]
  IN SelectSeq(named(hops) \o named(where), LAMBDA h : h.sent)

RECURSIVE insert_graph_nodes(_, _)
insert_graph_nodes(ast, nodes) ==
  {[table |-> ast.table, row |-> nodes[i].row] : i \in DOMAIN nodes} \cup
  UNION {LET hop == graph_child_hops(ast)[h]
             kids == FlattenSeq([i \in DOMAIN nodes |->
                       IF hop.name \in DOMAIN nodes[i].rel THEN nodes[i].rel[hop.name] ELSE <<>>])
         IN insert_graph_nodes(hop.ast, kids) : h \in DOMAIN graph_child_hops(ast)}

Fresh(db, ov) == [db |-> db, ov |-> ov, tk |-> <<>>, hid |-> <<>>, acc |-> <<>>]

hydrate_graph_with_db(ast, db) ==
  insert_graph_nodes(ast, Fetch(build_pipeline(ast), AllRows, Fresh(db, <<>>)).out)

-----------------------------------------------------------------------------
(* Pushing a change.  Pushes go depth first, so what an operator does is   *)
(* the sequence of its steps: the changes it pushes on, interleaved with   *)
(* the state it writes.  Each operator replays the steps of its input.     *)

MkAdd(node) == [t |-> "add", node |-> node]
MkRemove(node) == [t |-> "remove", node |-> node]
MkEdit(node, old) == [t |-> "edit", node |-> node, old |-> old]
make_child_change(node, name, change) == [t |-> "child", node |-> node, name |-> name, change |-> change]

Push(change) == [k |-> "push", c |-> change]
SetTake(entries) == [k |-> "set", tk |-> entries]
Hide(at, row) == [k |-> "hide", at |-> at, row |-> row]
Accumulate(at, changes) == [k |-> "acc", at |-> at, cs |-> changes]

Applied(w, step) ==
  CASE step.k = "push" -> w
    [] step.k = "set" -> [w EXCEPT !.tk = step.tk @@ @]
    [] step.k = "hide" -> [w EXCEPT !.hid = IF step.row = NoRow THEN <<>> ELSE step.at :> step.row]
    [] step.k = "acc" -> [w EXCEPT !.acc = (step.at :> step.cs) @@ @]

AppliedAll(w, steps) == FoldLeft(Applied, w, steps)
Accumulated(w, at) == IF at \in DOMAIN w.acc THEN w.acc[at] ELSE <<>>

\* What the Take states a fetch recorded look like as a step.
Recorded(w, after) ==
  LET new == {k \in DOMAIN after.tk : k \notin DOMAIN w.tk} IN
  IF new = {} THEN <<>> ELSE <<SetTake([k \in new |-> after.tk[k]])>>

\* The steps of an operator that handles each change its input pushes with `on`.
Handling(steps, w, on(_, _)) ==
  FoldLeft(LAMBDA got, step :
             LET mine == IF step.k = "push" THEN on(step.c, got.w) ELSE <<step>> IN
             [out |-> got.out \o mine, w |-> AppliedAll(got.w, mine)],
           [out |-> <<>>, w |-> w], steps).out

\* `isIn` and, for an edit, `wasIn`: whether the predicate accepts the row, the old row.
filter_push(change, isIn, wasIn) ==
  IF change.t = "edit"
  THEN CASE wasIn /\ isIn -> <<Push(change)>>
         [] wasIn /\ ~isIn -> <<Push(MkRemove(change.old))>>
         [] ~wasIn /\ isIn -> <<Push(MkAdd(change.node))>>
         [] OTHER -> <<>>
  ELSE IF isIn THEN <<Push(change)>> ELSE <<>>

Processed(change, w, new, old) ==
  IF change.t = "edit"
  THEN Recorded(w, old.w) \o <<Push([change EXCEPT !.node = new.node, !.old = old.node])>>
  ELSE Recorded(w, new.w) \o <<Push([change EXCEPT !.node = new.node])>>

push_parent(op, change, w) ==
  Processed(change, w, process_parent_node(op, change.node, w), process_parent_node(op, change.old, w))

\* A change of a child row reaches every parent whose key it has; a NULL key none.
push_child(op, change, w) ==
  LET key == Correlated(op.ck, op.pk, change.node.row)
      parents == Fetch(op.parent, Constrained(key), w).out
  IN IF \E k \in DOMAIN key : key[k] = Null THEN <<>>
     ELSE FoldLeft(LAMBDA got, node :
                     LET p == process_parent_node(op, node, got.w) IN
                     [out |-> got.out \o Recorded(got.w, p.w)
                                      \o <<Push(make_child_change(p.node, op.name, change))>>,
                      w |-> p.w],
                   [out |-> <<>>, w |-> w], parents).out

\* Mutant: the first and the last child are no different from the others.
ExistsPush_plain(op, change) ==
  IF passes(op, relationship_size(change.node, op.name) > 0) THEN <<Push(change)>> ELSE <<>>

\* An EXISTS turns the first child into the parent's arrival and the last into its departure.
ExistsPush(op, change) ==
  LET size == relationship_size(change.node, op.name)
      with(kids) == [change.node EXCEPT !.rel = (op.name :> kids) @@ @]
      mine == change.t = "child" /\ change.name = op.name
      push_with_filter == IF passes(op, size > 0) THEN <<Push(change)>> ELSE <<>>
  IN IF mine /\ change.change.t = "add" /\ size = 1
     THEN IF op.not THEN <<Push(MkRemove(with(<<>>)))>> ELSE <<Push(MkAdd(change.node))>>
     ELSE IF mine /\ change.change.t = "remove" /\ size = 0
     THEN IF op.not THEN <<Push(MkAdd(change.node))>>
          ELSE <<Push(MkRemove(with(<<change.change.node>>)))>>
     ELSE push_with_filter

push_accumulated_changes(changes, tag) ==
  LET of(t) == SelectSeq(changes, LAMBDA c : c.t = t)
      first(t) == <<Push(of(t)[1])>>
      either(t, u) == IF of(t) # <<>> THEN first(t) ELSE IF of(u) # <<>> THEN first(u) ELSE <<>>
  IN CASE tag \in {"add", "remove"} -> IF of(tag) # <<>> THEN first(tag) ELSE <<>>
       [] tag = "edit" ->
            IF of("edit") # <<>> THEN first("edit")
            ELSE IF of("add") # <<>> /\ of("remove") # <<>>
                 THEN <<Push(MkEdit(of("add")[1].node, of("remove")[1].node))>>
            ELSE either("add", "remove")
       [] tag = "child" -> IF of("child") # <<>> THEN first("child") ELSE either("add", "remove")

-----------------------------------------------------------------------------
(* Take: keeps the first `limit` rows of each partition.                   *)

\* The input's rows of one partition from a bound on.
fetch_bounded(op, bound, basis, row, reverse, w) ==
  Fetch(op.input,
        [constraint |-> IF op.partition = NoPartition THEN NoConstraint
                        ELSE [c \in {op.partition[i] : i \in DOMAIN op.partition} |-> Get(row, c)],
         start |-> [row |-> bound, basis |-> basis], reverse |-> reverse], w).out

Less(op, a, b) == make_comparator(SortOf(op), FALSE, a, b)
Same(op, a, b) == Tied(SortOf(op), a, b)
push_with_row_hidden_from_fetch(op, row, change) ==
  <<Hide(op.at, row), Push(change), Hide(op.at, NoRow)>>

\* The step that writes the state of the partition a change is in.
PartitionRow(change) == IF change.t = "edit" THEN change.old.row ELSE change.node.row
Stored(op, change, max, size, bound) ==
  SetTake(set_take_state(op, TakeKey(op, PartitionRow(change)), size, bound, max))

\* `from` holds the input's rows from the bound on (backwards unless the limit is 1).
push_add(op, change, ts, max, from) ==
  LET row == change.node.row
      set(size, bound) == Stored(op, change, max, size, bound)
      newBound == IF op.limit = 1 \/ Len(from) < 2 \/ Less(op, from[2].row, row) THEN row
                  ELSE from[2].row
  IN IF ts.size < op.limit
     THEN <<set(ts.size + 1, IF ts.bound = NoRow \/ Less(op, ts.bound, row) THEN row ELSE ts.bound),
            Push(change)>>
     ELSE IF ts.bound = NoRow \/ ~Less(op, row, ts.bound) THEN <<>>
     ELSE <<set(ts.size, newBound)>>
          \o push_with_row_hidden_from_fetch(op, row, MkRemove(from[1])) \o <<Push(change)>>

\* `before` holds the rows below the bound, nearest first, `from` those from it on.
push_remove(op, change, ts, max, before, from) ==
  LET set(size, bound) == Stored(op, change, max, size, bound)
      beyond == SelectSeq(from, LAMBDA n : Less(op, ts.bound, n.row))
      shrunk == IF from # <<>> THEN Last(from).row
                ELSE IF before # <<>> THEN before[1].row ELSE NoRow
      replacedBy(n) == <<Push(change), set(ts.size, n.row), Push(MkAdd(n))>>
  IN IF ts.bound = NoRow \/ Less(op, ts.bound, change.node.row) THEN <<>>
     ELSE IF before # <<>> /\ Less(op, ts.bound, before[1].row) THEN replacedBy(before[1])
     ELSE IF beyond # <<>> THEN replacedBy(beyond[1])
     ELSE <<set(ts.size - 1, shrunk), Push(change)>>

\* `before` and `after` hold the rows below and above the bound, nearest first; `next`
\* and `last` those from the bound up and down.
push_edit(op, change, ts, max, before, next, last, after) ==
  LET set(size, bound) == Stored(op, change, max, size, bound)
      row == change.node.row
      old == change.old.row
      stays(bound) == <<set(ts.size, bound), Push(change)>>
  IN IF Same(op, old, ts.bound)
     THEN IF Same(op, row, ts.bound) THEN <<Push(change)>>
          ELSE IF Less(op, row, ts.bound) THEN stays(IF op.limit = 1 THEN row ELSE before[1].row)
          ELSE IF Same(op, next[1].row, row) THEN stays(row)
          ELSE <<set(ts.size, next[1].row)>>
               \o push_with_row_hidden_from_fetch(op, next[1].row, MkRemove(change.old))
               \o <<Push(MkAdd(next[1]))>>
     ELSE IF Less(op, ts.bound, old)
     THEN IF Less(op, ts.bound, row) THEN <<>>
          ELSE <<set(ts.size, last[2].row)>>
               \o push_with_row_hidden_from_fetch(op, row, MkRemove(last[1]))
               \o <<Push(MkAdd(change.node))>>
     ELSE IF Less(op, row, ts.bound) THEN <<Push(change)>>
     ELSE IF Same(op, after[1].row, row) THEN stays(row)
     ELSE <<Push(MkRemove(change.old)), set(ts.size, after[1].row), Push(MkAdd(after[1]))>>

TakeHandles(op, change, ts, max, near(_, _), row) ==
  IF ts = NoTake THEN <<>>
  ELSE CASE change.t = "add" -> push_add(op, change, ts, max, near("at", op.limit # 1))
         [] change.t = "remove" -> push_remove(op, change, ts, max, near("after", TRUE), near("at", FALSE))
         [] change.t = "edit" -> push_edit(op, change, ts, max, near("after", TRUE), near("at", FALSE),
                                           near("at", TRUE), near("after", FALSE))
         [] change.t = "child" ->
              IF ts.bound # NoRow /\ ~Less(op, ts.bound, row) THEN <<Push(change)>> ELSE <<>>

TakePush(op, change, w) ==
  LET row == PartitionRow(change)
      ts == get_take_state(op, TakeKey(op, row), w)
  IN TakeHandles(op, change, ts, get_max_bound(op, w),
                 LAMBDA basis, reverse : fetch_bounded(op, ts.bound, basis, row, reverse, w), row)

-----------------------------------------------------------------------------
(* The steps of a whole graph for a change pushed at `src`, a source (its  *)
(* table and ordering) or a fan-out.                                       *)

RECURSIVE Flow(_, _, _, _)

\* What the branches push for one change of the fan-out is merged when all have pushed.
FanOutPush(op, change, w) ==
  LET fanOut == <<"fanout", op.at>>
      arms == FoldLeft(
        LAMBDA got, branch :
          LET steps == Handling(Flow(branch, fanOut, change, got.w), got.w, LAMBDA c, v :
                         <<Accumulate(op.at, Append(Accumulated(v, op.at), c))>>)
          IN [out |-> got.out \o steps, w |-> AppliedAll(got.w, steps)],
        [out |-> <<>>, w |-> w], op.branches)
  IN arms.out \o <<Accumulate(op.at, <<>>)>>
     \o push_accumulated_changes(Accumulated(arms.w, op.at), change.t)

\* A change inside a branch is accumulated, and waits for the next one of the fan-out.
FanInFlow(op, src, change, w) ==
  LET main == Handling(Flow(op.input, src, change, w), w, LAMBDA c, v : FanOutPush(op, c, v)) IN
  FoldLeft(LAMBDA got, branch :
             LET steps == Handling(Flow(branch, src, change, got.w), got.w, LAMBDA c, v :
                            <<Accumulate(op.at, Append(Accumulated(v, op.at), c))>>)
             IN [out |-> got.out \o steps, w |-> AppliedAll(got.w, steps)],
           [out |-> main, w |-> AppliedAll(w, main)], op.branches).out

JoinFlow(op, src, change, w) ==
  LET parent == Handling(Flow(op.parent, src, change, w), w, LAMBDA c, v : push_parent(op, c, v))
      after == AppliedAll(w, parent)
  IN parent \o Handling(Flow(op.child, src, change, after), after, LAMBDA c, v : push_child(op, c, v))

Flow(op, src, change, w) ==
  CASE op.op = "source" -> IF src = <<op.table, op.order>> THEN <<Push(change)>> ELSE <<>>
    [] op.op = "fanout" -> IF src = <<"fanout", op.at>> THEN <<Push(change)>> ELSE <<>>
    [] op.op = "fanin" -> FanInFlow(op, src, change, w)
    [] op.op = "join" -> JoinFlow(op, src, change, w)
    [] op.op = "filter" -> Handling(Flow(op.input, src, change, w), w, LAMBDA c, v :
                             filter_push(c, create_predicate(op.cond, c.node.row), create_predicate(op.cond, c.old.row)))
    [] op.op = "skip" -> Handling(Flow(op.input, src, change, w), w, LAMBDA c, v :
                           filter_push(c, should_be_present(op, c.node.row), should_be_present(op, c.old.row)))
    [] op.op = "exists" -> Handling(Flow(op.input, src, change, w), w, LAMBDA c, v : ExistsPush(op, c))
    [] op.op = "take" -> Handling(Flow(op.input, src, change, w), w, LAMBDA c, v : TakePush(op, c, v))

-----------------------------------------------------------------------------
(* The collector at the root flattens changes into row changes by table.   *)

RECURSIVE stream_nodes(_, _, _)
stream_nodes(schema, kind, node) ==
  <<[table |-> schema.table, kind |-> kind, row |-> node.row]>> \o
  FlattenSeq([i \in 1 .. Cardinality(DOMAIN node.rel) |->
    LET name == SetToSeq(DOMAIN node.rel)[i] IN
    IF name \notin DOMAIN schema.rel THEN <<>>
    ELSE FlattenSeq([j \in DOMAIN node.rel[name] |->
                       stream_nodes(schema.rel[name], kind, node.rel[name][j])])])

RECURSIVE stream_change(_, _)
stream_change(schema, change) ==
  CASE change.t \in {"add", "remove"} -> stream_nodes(schema, change.t, change.node)
    [] change.t = "edit" -> stream_nodes(schema, "edit", Leaf(change.node.row))
    [] change.t = "child" -> IF change.name \in DOMAIN schema.rel
                             THEN stream_change(schema.rel[change.name], change.change) ELSE <<>>

Collected(schema, steps) ==
  FlattenSeq([i \in DOMAIN steps |->
    IF steps[i].k = "push" THEN stream_change(schema, steps[i].c) ELSE <<>>])

=============================================================================
