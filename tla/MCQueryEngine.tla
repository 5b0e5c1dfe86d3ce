--------------------------- MODULE MCQueryEngine ---------------------------
EXTENDS QueryEngine

MCTables == [p |-> {[id |-> i, f |-> f, o |-> o] : i \in 1 .. 3, f \in {1}, o \in {0, 1}}
                   \cup {[id |-> 1, f |-> 0, o |-> 1]},
             c |-> {[id |-> i, f |-> 1, o |-> o] : i \in 1 .. 2, o \in {0, 1}}
                   \cup {[id |-> 2, f |-> 0, o |-> 1]}]
MCMaxRows == [p |-> 3, c |-> 2]

From(table) == [table |-> table, alias |-> <<NoAlias>>, where |-> NoCond, start |-> NoStart,
                orderBy |-> <<>>, limit |-> NoLimit, related |-> <<>>]
Sub(ast, alias, kind) == [type |-> "csq", sub |-> ast, alias |-> <<alias>>, exists |-> kind,
                          parentField |-> <<"f">>, childField |-> <<"f">>]
Simple(col, op, val) == [type |-> "simple", col |-> col, op |-> op, val |-> val]
And(args) == [type |-> "and", args |-> args]
Or(args) == [type |-> "or", args |-> args]

Has == Sub([From("c") EXCEPT !.where = Simple("o", "=", 1)], "kids", "EXISTS")
HasNone == Sub(From("c"), "kids", "NOT EXISTS")
Newest == Sub([From("c") EXCEPT !.orderBy = <<<<"o", "desc">>>>, !.limit = 1], "last", "related")

\* Queries that only filter, order, page and limit their table.
Paged == {
  [From("p") EXCEPT !.where = Or(<<Simple("o", "IS", 0), Simple("id", "IN", {1, 2})>>),
                    !.orderBy = <<<<"o", "desc">>>>, !.limit = 2],
  [From("p") EXCEPT !.orderBy = <<<<"o", "asc">>>>, !.limit = 1,
                    !.start = [row |-> [o |-> 0, id |-> 2], basis |-> "after"]],
  [From("p") EXCEPT !.start = [row |-> [id |-> 2], basis |-> "at"], !.where = Simple("o", "!=", 0)] }

\* Queries with subqueries.
Joined == {
  [From("p") EXCEPT !.where = Has],
  [From("p") EXCEPT !.where = And(<<HasNone, Simple("o", ">=", 1)>>)],
  [From("p") EXCEPT !.related = <<Newest>>, !.limit = 2] }

\* Subqueries below an OR, or two that read one source.
Disjunctive == {
  [From("p") EXCEPT !.where = And(<<Has, Has>>), !.related = <<Newest>>],
  [From("p") EXCEPT !.where = Or(<<Has, Simple("id", "=", 1)>>)],
  [From("p") EXCEPT !.where = And(<<Or(<<HasNone, Simple("o", "<", 1)>>), Has>>), !.limit = 1],
  [From("p") EXCEPT !.where = Or(<<And(<<Has, Simple("o", ">", 0)>>), HasNone>>),
                    !.orderBy = <<<<"o", "desc">>>>] }

\* A limit above an EXISTS: one change of a child moves several parents at once.
Limited == {[From("p") EXCEPT !.where = Has, !.limit = 2]}

AllQueries == Paged \cup Joined \cup Limited \cup Disjunctive

\* A change of a child table may be pushed where one subquery reads its source and no
\* limit or OR sits above it; a change of the root table into every query.
MCPushTo == [q \in AllQueries |->
  IF q \in Joined THEN {"p", "c"} ELSE {"p"}]
=============================================================================
