---------------------------- MODULE QueryEngine ----------------------------
(***************************************************************************)
(* One query over a replica: hydrated once through its operator graph,     *)
(* then kept up to date by pushing every row change into the graph's       *)
(* sources and draining the collector at its root.  Changes are pushed on  *)
(* top of a snapshot; Commit moves the sources to the snapshot that has    *)
(* them (SqliteSource::set_db).                                            *)
(***************************************************************************)
EXTENDS QueryGraph, FiniteSetsExt

CONSTANTS
  Queries,     \* the queries of the instance
  PushTo,      \* query -> the tables whose changes are pushed into its graph
  Tables,      \* table -> the rows it may hold
  MaxRows,     \* table -> how many rows it holds at most
  MaxPending,  \* changes pushed between two commits, at most
  MaxChanges   \* changes pushed in all, at most

VARIABLES
  query,    \* the query
  w,        \* the world its graph reads and writes
  view,     \* row -> how many times the collector's changes leave it in the answer
  changes   \* how many changes were pushed

vars == <<query, w, view, changes>>

\* A source for every table and ordering that the query refers to.
RECURSIVE referenced_sources(_)
referenced_sources(ast) ==
  {<<ast.table, source_ordering(ast.orderBy)>>} \cup
  UNION {referenced_sources(ast.related[i].sub) : i \in DOMAIN ast.related} \cup
  UNION {referenced_sources(gather_exists_conditions(ast.where)[i].sub) :
           i \in DOMAIN gather_exists_conditions(ast.where)}

\* The rows of a table as of the last change pushed.
Current(table) ==
  LET order == <<<<"id", "asc">>>>
      pushed == SelectSeq(w.ov, LAMBDA ch : ch.src[1] = table)
      read == FoldLeft(LAMBDA rows, ch : apply_overlay(rows, ch, order, AllRows),
                       build_select_query(w.db[table], order, AllRows), pushed)
  IN {read[i] : i \in DOMAIN read}

Now == [t \in DOMAIN Tables |-> Current(t)]

\* What the rows of a stream of row changes add up to.
KeyOf(ch) == <<ch.table, ch.row.id>>
Followed(v, ch) ==
  LET key == KeyOf(ch)
      was == IF key \in DOMAIN v THEN v[key] ELSE [n |-> 0, row |-> NoRow]
      is == CASE ch.kind = "add" -> [n |-> was.n + 1, row |-> ch.row]
              [] ch.kind = "remove" -> [was EXCEPT !.n = @ - 1]
              [] ch.kind = "edit" -> [was EXCEPT !.row = ch.row]
  IN IF is.n = 0 THEN [k \in DOMAIN v \ {key} |-> v[k]] ELSE (key :> is) @@ v

Hydrated(ast, world) ==
  LET graph == build_pipeline(ast)
      got == Fetch(graph, AllRows, world)
      added == FlattenSeq([i \in DOMAIN got.out |->
                             stream_nodes(get_schema(graph), "add", got.out[i])])
  IN [w |-> got.w, view |-> FoldLeft(Followed, <<>>, added)]

SmallTable(t) ==
  {rows \in SUBSET Tables[t] : /\ Cardinality(rows) <= MaxRows[t]
                               /\ \A a, b \in rows : a.id = b.id => a = b}

Init ==
  /\ query \in Queries
  /\ \E p \in SmallTable("p"), c \in SmallTable("c") :
       \E first \in {Hydrated(query, Fresh([p |-> p, c |-> c], <<>>))} :
         w = first.w /\ view = first.view
  /\ changes = 0

\* One change of one table reaches each of its sources, in turn.
PushedTo(graph, got, s, old, new) ==
  LET change == IF old = NoRow THEN MkAdd(Leaf(new)) ELSE IF new = NoRow THEN MkRemove(Leaf(old))
                ELSE MkEdit(Leaf(new), Leaf(old))
      before == [got.w EXCEPT !.ov = Append(@, [src |-> s, old |-> old, new |-> new])]
      after(steps) == [w |-> AppliedAll(before, steps),
                       view |-> FoldLeft(Followed, got.view, Collected(get_schema(graph), steps))]
  IN after(Flow(graph, s, change, before))

Inserts(t) == {<<t, NoRow, r>> : r \in {r \in Tables[t] : /\ Cardinality(Current(t)) < MaxRows[t]
                                                           /\ \A old \in Current(t) : old.id # r.id}}
Deletes(t) == {<<t, r, NoRow>> : r \in Current(t)}
\* An edit keeps the join key: the diff turns one that moves it into a remove and an add.
Updates(t) == {<<t, pair[1], pair[2]>> : pair \in {p \in Current(t) \X Tables[t] :
                 p[1].id = p[2].id /\ p[1].f = p[2].f /\ p[1] # p[2]}}

push ==
  /\ changes < MaxChanges /\ Len(w.ov) < MaxPending
  /\ \E t \in PushTo[query] :
     \E chg \in Inserts(t) \cup Deletes(t) \cup Updates(t) :
     \E graph \in {build_pipeline(query)} :
     \E done \in {FoldLeft(LAMBDA got, s : PushedTo(graph, got, s, chg[2], chg[3]),
                           [w |-> w, view |-> view],
                           SetToSeq({s \in referenced_sources(query) : s[1] = t}))} :
       w' = done.w /\ view' = done.view
  /\ changes' = changes + 1
  /\ UNCHANGED query

\* set_db: the sources read the next snapshot and forget their overlay.
set_db ==
  /\ w.ov # <<>>
  /\ w' = [w EXCEPT !.db = Now, !.ov = <<>>]
  /\ UNCHANGED <<query, view, changes>>

Next == push \/ set_db
Spec == Init /\ [][Next]_vars

-----------------------------------------------------------------------------
(* What a query means, without a graph.                                    *)

RECURSIVE Means(_, _, _)
Means(cond, row, db) ==
  CASE cond.type = "none" -> TRUE
    [] cond.type = "and" -> \A i \in DOMAIN cond.args : Means(cond.args[i], row, db)
    [] cond.type = "or" -> \E i \in DOMAIN cond.args : Means(cond.args[i], row, db)
    [] cond.type = "simple" -> create_simple_predicate(cond, row)
    [] cond.type = "csq" ->
         LET found == \E kid \in db[cond.sub.table] :
               /\ \A i \in DOMAIN cond.parentField :
                    values_equal(row[cond.parentField[i]], kid[cond.childField[i]])
               /\ Means(cond.sub.where, kid, db)
         IN found = (cond.exists = "EXISTS")

RECURSIVE Answer(_, _, _)
Answer(ast, matching, db) ==
  LET order == source_ordering(ast.orderBy)
      after(r) == \/ ast.start = NoStart
                  \/ make_comparator(order, FALSE, ast.start.row, r)
                  \/ ast.start.basis = "at" /\ Tied(order, ast.start.row, r)
      rows == SetToSortSeq({r \in db[ast.table] : /\ constraint_matches_row(matching, r)
                                                  /\ after(r) /\ Means(ast.where, r, db)},
                           LAMBDA a, b : make_comparator(order, FALSE, a, b))
      some == IF ast.limit = NoLimit \/ ast.limit >= Len(rows) THEN rows ELSE SubSeq(rows, 1, ast.limit)
  IN [i \in DOMAIN some |->
        <<some[i], [h \in DOMAIN ast.related |->
           LET hop == ast.related[h] IN
           Answer(hop.sub, Correlated(hop.parentField, hop.childField, some[i]), db)]>>]

\* The same tree read off the nodes of a graph.
RECURSIVE Tree(_, _)
Tree(ast, nodes) ==
  [i \in DOMAIN nodes |->
     <<nodes[i].row, [h \in DOMAIN ast.related |->
        LET hop == ast.related[h] IN Tree(hop.sub, nodes[i].rel[relationship_name(hop, h - 1)])]>>]

-----------------------------------------------------------------------------
\* The Take operators of a graph.
RECURSIVE TakesOf(_)
TakesOf(op) ==
  LET below == {op[x] : x \in {"input", "parent", "child"} \cap DOMAIN op}
               \cup IF op.op = "fanin" THEN Range(op.branches) ELSE {}
  IN UNION {TakesOf(x) : x \in below} \cup IF op.op = "take" THEN {op} ELSE {}

\* TypeOK: the view counts rows of the query's tables, each at least once; a Take
\* never holds more rows than its limit, and it has a bound exactly when it holds
\* some (TakeState); nothing stays hidden once a push is over.
TypeOK ==
  /\ \A k \in DOMAIN view : view[k].n >= 1 /\ view[k].row \in Tables[k[1]] /\ view[k].row.id = k[2]
  /\ w.hid = <<>>
  /\ \A op \in TakesOf(build_pipeline(query)) :
       \A k \in {x \in DOMAIN w.tk : x[1] = op.at} \ {MaxBoundKey(op)} :
         w.tk[k].size \in 0..op.limit /\ (w.tk[k].size = 0) = (w.tk[k].bound = NoRow)

\* HydrationMeansTheQuery: what a freshly built graph returns for the root fetch is
\* the tree of rows the query asks for: filters, EXISTS under AND and OR, the start
\* bound, ordering, limits per parent and related rows.
HydrationMeansTheQuery ==
  Tree(query, Fetch(build_pipeline(query), AllRows, Fresh(Now, <<>>)).out) = Answer(query, NoConstraint, Now)

\* SyncedRowsAreEnough: a client that runs the query on nothing but the rows the
\* hydration sent it gets the same tree: every row an EXISTS or a related hop needs
\* is sent along (graph_child_hops names the relationships the builder made).
SyncedRowsAreEnough ==
  LET sent == hydrate_graph_with_db(query, Now)
      mirror == [t \in DOMAIN Tables |-> {s.row : s \in {x \in sent : x.table = t}}]
  IN Answer(query, NoConstraint, mirror) = Answer(query, NoConstraint, Now)

\* ViewFollowsPushes: the row changes the collector emits keep the view equal to
\* what hydrating the query afresh would give, after every push and commit.
ViewFollowsPushes == view = Hydrated(query, Fresh(Now, <<>>)).view

=============================================================================
