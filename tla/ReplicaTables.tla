--------------------------- MODULE ReplicaTables ---------------------------
(***************************************************************************)
(* The tables of the replica under schema and row changes.  A statement    *)
(* upstream changes tables, indexes or rows; event triggers put the schema *)
(* before and after it into the stream, the change source turns the        *)
(* difference into changes, and the dispatcher applies each change to      *)
(* SQLite, to the metadata tables and to the change log.  The stream       *)
(* itself, its delays and its restarts are Replicator's subject: here the  *)
(* replica applies what a statement sends at once.                         *)
(*                                                                         *)
(* Upstream columns are numbered (attnum), and a row maps numbers to       *)
(* values, 0 being NULL; in the replica columns have names and values have *)
(* a storage class, by the type of their column: "int" or "text".  The     *)
(* rows of a table are a set: no statement makes two of them equal.        *)
(***************************************************************************)
EXTENDS Integers, Sequences, FiniteSets, SequencesExt, FiniteSetsExt, Functions

CONSTANTS
    Oids, TableNames, ColumnNames, Types,
    IndexNames,     \* "pkey" stands for the names that end in _pkey
    Values,         \* positive numbers
    StartSchemas,   \* what upstream has at the initial sync
    MaxWork,        \* tables and statements, together: a larger schema sees fewer statements
    MaxVersion

VARIABLES
    up,        \* upstream: [tables, indexes, rows, next]: next is the next oid
    current,   \* publishedSchema.current, kept by the event triggers
    lastDdl,   \* last_ddl of the translator: the last event's kind and tag
    rep,       \* the replica
    version,   \* the version of the transaction that is applied
    base,      \* history: the rows of the replica at the last commit
    statements

tableVars == <<up, current, lastDdl, rep, version, base, statements>>

LiteNull == [class |-> "null", v |-> 0]

(***************************************************************************)
(* Upstream.  A table has a name, a replica identity ("default", "full"),  *)
(* may be published, and has columns by number; an index has the numbers   *)
(* of its columns.  publishedSchemaQuery gives the published part.         *)
(***************************************************************************)
Unsupported == -1
Column(name, type, notNull, dflt) == [name |-> name, type |-> type, notNull |-> notNull, dflt |-> dflt]
Table(name, cols, ident) == [name |-> name, cols |-> cols, ident |-> ident, pub |-> TRUE, top |-> Max(DOMAIN cols)]
Index(oid, cols, unique, primary) == [oid |-> oid, cols |-> cols, unique |-> unique, primary |-> primary]

published_schema(u) ==
    LET oids == {o \in DOMAIN u.tables : u.tables[o].pub}
        ids == {n \in DOMAIN u.indexes : u.indexes[n].oid \in oids}
    IN  [tables |-> [o \in oids |-> [name |-> u.tables[o].name, cols |-> u.tables[o].cols, ident |-> u.tables[o].ident]],
         indexes |-> [n \in ids |->
            LET i == u.indexes[n] IN
            [table |-> u.tables[i.oid].name, unique |-> i.unique, primary |-> i.primary,
             cols |-> [j \in DOMAIN i.cols |-> u.tables[i.oid].cols[i.cols[j]].name]]]]

PrimaryKey(u, oid) ==
    UNION {Range(u.indexes[n].cols) : n \in {x \in DOMAIN u.indexes : u.indexes[x].oid = oid /\ u.indexes[x].primary}}

-----------------------------------------------------------------------------
(***************************************************************************)
(* map_postgres_to_lite: the type of a column keeps whether it is NOT NULL *)
(* as an attribute, the column itself is nullable and has no default.      *)
(***************************************************************************)
lite_type_string(c) == <<c.type, c.notNull>>

lite_value(type, v) ==
    IF v = 0 THEN LiteNull
    ELSE [class |-> IF type = "text" THEN "text" ELSE "number", v |-> v]

(* What SQLite (external) makes of a value that is put in a column. *)
Affinity(type, lite) ==
    IF lite = LiteNull THEN lite
    ELSE [lite EXCEPT !.class = IF type = "int" THEN "number" ELSE "text"]

(* The default of a column: none, or the literal in it. *)
map_postgres_to_lite_default(c) ==
    IF c.dflt = 0 THEN LiteNull
    ELSE Affinity(c.type, [class |-> IF c.type = "int" THEN "number" ELSE "text", v |-> c.dflt])

LiteTable(t) == [n \in {t.cols[p].name : p \in DOMAIN t.cols} |->
                    lite_type_string(CHOOSE c \in Range(t.cols) : c.name = n)]

LiteRow(cols, row) == [n \in {cols[p].name : p \in DOMAIN row} |->
                          LET p == CHOOSE p \in DOMAIN row : cols[p].name = n
                          IN  lite_value(cols[p].type, row[p])]

(***************************************************************************)
(* list_tables: tables have no declared key; the unique index whose name   *)
(* ends in _pkey, or else the one with fewest columns, gives it.  The      *)
(* dispatcher keeps what it last listed.                                   *)
(***************************************************************************)
list_tables(cols, indexes) ==
    [t \in DOMAIN cols |->
        LET unique == {n \in DOMAIN indexes : indexes[n].table = t /\ indexes[n].unique}
            named == unique \cap {"pkey"}
            few == {n \in unique : \A m \in unique : Len(indexes[n].cols) <= Len(indexes[m].cols)}
            best == IF named # {} THEN named ELSE few
        IN  [cols |-> cols[t],
             key |-> UNION {Range(indexes[n].cols) : n \in {CHOOSE x \in best : TRUE : b \in best}}]]

(***************************************************************************)
(* Initial sync: every published table is created, copied and indexed, and *)
(* what is known of its columns is recorded.                               *)
(***************************************************************************)
run_initial_sync(u, v) ==
    LET schema == published_schema(u)
        tables == schema.tables
        names == {tables[o].name : o \in DOMAIN tables}
        Oid(n) == CHOOSE o \in DOMAIN tables : tables[o].name = n
        cols == [n \in names |-> LiteTable(tables[Oid(n)])]
        indexes == [n \in DOMAIN schema.indexes |-> Restrict(schema.indexes[n], {"table", "cols", "unique"})]
    IN  [cols |-> cols,
         indexes |-> indexes,
         rows |-> [n \in names |-> {[val |-> LiteRow(tables[Oid(n)].cols, r), ver |-> v] : r \in u.rows[Oid(n)]}],
         meta |-> cols,
         minRow |-> [n \in {} |-> 0],
         specs |-> list_tables(cols, indexes),
         wide |-> {}, clobbered |-> FALSE, ops |-> {}, unlogged |-> {}, misled |-> FALSE, keyless |-> FALSE, failed |-> FALSE]

-----------------------------------------------------------------------------
(***************************************************************************)
(* make_schema_changes: the difference of two published schemas.  Indexes  *)
(* that are gone or differ are dropped first, tables are matched by oid    *)
(* and columns by number, and indexes are created last.  Rows that only a  *)
(* copy could bring need a resync: NeedsResync.                            *)
(***************************************************************************)
Ascending(S) == SetToSortSeq(S, <)

Changes(S, Op(_)) == LET seq == SetToSeq(S) IN [i \in DOMAIN seq |-> Op(seq[i])]

index_structurally_changed(p, n) == p.unique # n.unique \/ p.primary # n.primary \/ p.cols # n.cols

table_changes(p, n) ==
    LET kept == DOMAIN p.cols \cap DOMAIN n.cols
        Differs(c) == p.cols[c].name # n.cols[c].name \/ lite_type_string(p.cols[c]) # lite_type_string(n.cols[c])
    IN  (IF p.name = n.name THEN <<>> ELSE <<[tag |-> "rename-table", table |-> p.name, new |-> n.name]>>)
        \o [i \in 1..Cardinality(DOMAIN p.cols \ kept) |->
              [tag |-> "drop-column", table |-> n.name, col |-> p.cols[Ascending(DOMAIN p.cols \ kept)[i]].name]]
        \o [i \in 1..Cardinality({c \in kept : Differs(c)}) |->
              LET c == Ascending({x \in kept : Differs(x)})[i]
              IN  [tag |-> "update-column", table |-> n.name, old |-> p.cols[c], new |-> n.cols[c]]]
        \o [i \in 1..Cardinality(DOMAIN n.cols \ kept) |->
              [tag |-> "add-column", table |-> n.name, new |-> n.cols[Ascending(DOMAIN n.cols \ kept)[i]]]]

NeedsResync(prev, next, tag) ==
    \/ \E o \in DOMAIN prev.tables \cap DOMAIN next.tables :
          \E c \in DOMAIN next.tables[o].cols \ DOMAIN prev.tables[o].cols :
             tag # "ALTER TABLE" \/ next.tables[o].cols[c].dflt = Unsupported
    \/ DOMAIN next.tables \ DOMAIN prev.tables # {} /\ tag \notin {"CREATE TABLE", "CREATE INDEX"}

make_schema_changes(prev, next) ==
    LET both == DOMAIN prev.indexes \cap DOMAIN next.indexes
        changed == {n \in both : index_structurally_changed(prev.indexes[n], next.indexes[n])}
        kept == Ascending(DOMAIN prev.tables \cap DOMAIN next.tables)
    IN  Changes((DOMAIN prev.indexes \ both) \cup changed, LAMBDA n : [tag |-> "drop-index", index |-> n])
        \o Changes(DOMAIN prev.tables \ DOMAIN next.tables,
                   LAMBDA o : [tag |-> "drop-table", table |-> prev.tables[o].name])
        \o FlattenSeq([i \in DOMAIN kept |-> table_changes(prev.tables[kept[i]], next.tables[kept[i]])])
        \o Changes(DOMAIN next.tables \ DOMAIN prev.tables,
                   LAMBDA o : [tag |-> "create-table", spec |-> next.tables[o]])
        \o Changes((DOMAIN next.indexes \ both) \cup changed,
                   LAMBDA n : [tag |-> "create-index", index |-> n, spec |-> next.indexes[n]])

-----------------------------------------------------------------------------
(***************************************************************************)
(* The change log of this transaction: one entry for a row key, and one    *)
(* entry for all table-wide operations, which share a position.            *)
(***************************************************************************)
log_row_op(r, table, key, op) ==
    [r EXCEPT !.ops = {e \in @ : e.table # table \/ e.key # key} \cup {[table |-> table, key |-> key, op |-> op]}]

log_table_wide_op(r, table, op) ==
    [r EXCEPT !.wide = {[table |-> table, op |-> op]},
              !.clobbered = @ \/ \E e \in r.wide : op = "truncate" /\ e # [table |-> table, op |-> op]]

(* Mutant: the rows of a changed table keep their versions. *)
bump_versions_log(r, table, v) == log_table_wide_op(r, table, "reset")

bump_versions(r, table, v) ==
    log_table_wide_op([r EXCEPT !.minRow = (table :> v) @@ @], table, "reset")

(***************************************************************************)
(* SQLite (external): a statement fails if a name it needs is missing or a *)
(* name it makes is taken, if it drops an indexed column, or if the rows   *)
(* are no longer unique.                                                   *)
(***************************************************************************)
Failed(r) == [r EXCEPT !.failed = TRUE]
When(cond, r) == IF cond THEN r ELSE Failed(r)

HasColumn(r, t, c) == t \in DOMAIN r.cols /\ c \in DOMAIN r.cols[t]
Indexed(r, t, c) == {n \in DOMAIN r.indexes : r.indexes[n].table = t /\ c \in Range(r.indexes[n].cols)}
SameOn(cols, a, b) == \A c \in cols : a.val[c] = b.val[c] /\ a.val[c] # LiteNull

SqlAdd(r, t, c, type, value) ==
    IF t \notin DOMAIN r.cols \/ HasColumn(r, t, c) THEN Failed(r)
    ELSE [r EXCEPT !.cols[t] = (c :> type) @@ @,
                   !.rows[t] = {[x EXCEPT !.val = (c :> value) @@ @] : x \in @}]

SqlDrop(r, t, c) ==
    IF ~HasColumn(r, t, c) \/ Indexed(r, t, c) # {} THEN Failed(r)
    ELSE [r EXCEPT !.cols[t] = Restrict(@, DOMAIN @ \ {c}),
                   !.rows[t] = {[x EXCEPT !.val = Restrict(@, DOMAIN @ \ {c})] : x \in @}]

Renamed(f, old, new) == [x \in (DOMAIN f \ {old}) \cup {new} |-> f[IF x = new THEN old ELSE x]]

SqlRename(r, t, old, new) ==
    IF ~HasColumn(r, t, old) \/ HasColumn(r, t, new) THEN Failed(r)
    ELSE [r EXCEPT !.cols[t] = Renamed(@, old, new),
                   !.rows[t] = {[x EXCEPT !.val = Renamed(@, old, new)] : x \in @},
                   !.indexes = [n \in DOMAIN @ |->
                       IF @[n].table # t THEN @[n]
                       ELSE [@[n] EXCEPT !.cols = [i \in DOMAIN @ |-> IF @[i] = old THEN new ELSE @[i]]]]]

SqlCreateIndex(r, n, spec) ==
    IF \/ n \in DOMAIN r.indexes
       \/ \E i \in DOMAIN spec.cols : ~HasColumn(r, spec.table, spec.cols[i])
       \/ spec.unique /\ \E a, b \in r.rows[spec.table] : a # b /\ SameOn(Range(spec.cols), a, b)
    THEN Failed(r) ELSE [r EXCEPT !.indexes = (n :> spec) @@ @]

SqlDropIndexes(r, names) == [r EXCEPT !.indexes = Restrict(@, DOMAIN @ \ names)]

-----------------------------------------------------------------------------
(***************************************************************************)
(* DdlApplier.  A column is renamed in place; to change its type a column  *)
(* is added, the values are copied, the old one is dropped and the indexes *)
(* are made again.                                                         *)
(***************************************************************************)
add_column(r, t, c, v) ==
    bump_versions([SqlAdd(r, t, c.name, lite_type_string(c), map_postgres_to_lite_default(c))
                      EXCEPT !.meta[t] = (c.name :> lite_type_string(c)) @@ @], t, v)

(* Mutant: the indexes of the old column are not made again. *)
Retyped_bare(r, t, old, new) ==
    LET added == SqlAdd(SqlDropIndexes(r, Indexed(r, t, old.name)), t, "tmp", lite_type_string(new), LiteNull)
        copied == [added EXCEPT !.rows[t] =
                      {[x EXCEPT !.val["tmp"] = Affinity(new.type, x.val[old.name])] : x \in @}]
    IN  SqlDrop(copied, t, old.name)

Retyped(r, t, old, new) ==
    LET names == Indexed(r, t, old.name)
        added == SqlAdd(SqlDropIndexes(r, names), t, "tmp", lite_type_string(new), LiteNull)
        copied == [added EXCEPT !.rows[t] =
                      {[x EXCEPT !.val["tmp"] = Affinity(new.type, x.val[old.name])] : x \in @}]
        Moved(n) == [r.indexes[n] EXCEPT !.cols = [i \in DOMAIN @ |-> IF @[i] = old.name THEN "tmp" ELSE @[i]]]
    IN  FoldSet(LAMBDA n, acc : SqlCreateIndex(acc, n, Moved(n)), SqlDrop(copied, t, old.name), names)

update_column(r, t, old, new, v) ==
    LET same == lite_type_string(old) = lite_type_string(new)
        typed == IF same THEN r ELSE Retyped(r, t, old, new)
        name == IF same THEN old.name ELSE "tmp"
    IN  bump_versions([SqlRename(typed, t, name, new.name)
                          EXCEPT !.meta[t] = (new.name :> lite_type_string(new)) @@ Restrict(@, DOMAIN @ \ {old.name})],
                      t, v)

drop_column(r, t, c, v) ==
    bump_versions([SqlDrop(r, t, c) EXCEPT !.meta[t] = Restrict(@, DOMAIN @ \ {c})], t, v)

create_table(r, spec) ==
    LET cols == LiteTable(spec)
    IN  When(spec.name \notin DOMAIN r.cols,
             log_table_wide_op([r EXCEPT !.cols = (spec.name :> cols) @@ @, !.rows = (spec.name :> {}) @@ @,
                                         !.meta = (spec.name :> cols) @@ @], spec.name, "reset"))

rename_table(r, old, new, v) ==
    When(new \notin DOMAIN r.cols,
         log_table_wide_op(
             [r EXCEPT !.cols = Renamed(@, old, new), !.rows = Renamed(@, old, new), !.meta = Renamed(@, old, new),
                       !.indexes = [n \in DOMAIN @ |-> IF @[n].table = old THEN [@[n] EXCEPT !.table = new] ELSE @[n]],
                       !.minRow = (new :> v) @@ Restrict(@, DOMAIN @ \ {old})],
             old, "reset"))

drop_table(r, t) ==
    LET Without(f) == Restrict(f, DOMAIN f \ {t})
    IN  log_table_wide_op(
            [SqlDropIndexes(r, {n \in DOMAIN r.indexes : r.indexes[n].table = t})
                EXCEPT !.cols = Without(@), !.rows = Without(@), !.meta = Without(@), !.minRow = Without(@)],
            t, "reset")

create_index(r, n, spec) ==
    log_table_wide_op(SqlCreateIndex(r, n, Restrict(spec, {"table", "cols", "unique"})), spec.table, "reset")

-----------------------------------------------------------------------------
(***************************************************************************)
(* RowApplier.  The key of a row is that of the relation, or, for a table  *)
(* with identity FULL, the key in the listed spec of the table.            *)
(***************************************************************************)
KeyColumns(r, m) == IF m.full THEN r.specs[m.table].key ELSE m.key

get_key(row, cols) == IF Cardinality(DOMAIN row) = Cardinality(cols) THEN row ELSE Restrict(row, cols \cap DOMAIN row)

Matches(x, key) == \A c \in DOMAIN key : x.val[c] = key[c] /\ key[c] # LiteNull

Unique(r, t, rows) ==
    \A n \in {i \in DOMAIN r.indexes : r.indexes[i].table = t /\ r.indexes[i].unique} :
        \A a, b \in rows : a # b => ~SameOn(Range(r.indexes[n].cols), a, b)

upsert(r, t, row, v) ==
    LET new == [val |-> row @@ [c \in DOMAIN r.cols[t] |-> LiteNull], ver |-> v]
    IN  [r EXCEPT !.rows[t] = {x \in @ : Unique(r, t, {x, new})} \cup {new}]

process_insert(r, m, v) ==
    LET cols == KeyColumns(r, m)
        put == upsert(r, m.table, m.new, v)
    IN  IF m.key = {} /\ ~m.full THEN [put EXCEPT !.unlogged = @ \cup {m.table}]
        ELSE When(cols # {}, log_row_op(put, m.table, Restrict(m.new, cols), "set"))

(* Mutant: the set of the new key is logged before the delete of the old one. *)
process_update_swapped(r, m, v) ==
    LET cols == KeyColumns(r, m)
        key == get_key(m.new, cols)
        old == IF m.old = <<>> THEN key ELSE get_key(m.old[1], cols)
        matched == {x \in r.rows[m.table] : Matches(x, old)}
        rows == (r.rows[m.table] \ matched) \cup {[val |-> m.new @@ x.val, ver |-> v] : x \in matched}
        set == log_row_op(r, m.table, key, "set")
        logged == IF m.old = <<>> THEN set ELSE log_row_op(set, m.table, old, "delete")
    IN  IF cols = {} THEN Failed(r) ELSE [logged EXCEPT !.rows[m.table] = rows]

process_update(r, m, v) ==
    LET cols == KeyColumns(r, m)
        key == get_key(m.new, cols)
        old == IF m.old = <<>> THEN key ELSE get_key(m.old[1], cols)
        matched == {x \in r.rows[m.table] : Matches(x, old)}
        rows == (r.rows[m.table] \ matched) \cup {[val |-> m.new @@ x.val, ver |-> v] : x \in matched}
        deleted == IF m.old = <<>> THEN r ELSE log_row_op(r, m.table, old, "delete")
        logged == log_row_op(deleted, m.table, key, "set")
    IN  IF cols = {} THEN Failed(r)
        ELSE IF matched = {} THEN upsert(logged, m.table, m.new, v)
        ELSE When(Unique(r, m.table, rows), [logged EXCEPT !.rows[m.table] = rows])

process_delete(r, m) ==
    LET cols == KeyColumns(r, m)
        key == get_key(m.old[1], cols)
    IN  When(cols # {},
             log_row_op([r EXCEPT !.rows[m.table] = {x \in @ : ~Matches(x, key)}], m.table, key, "delete"))

process_truncate(r, t) == log_table_wide_op([r EXCEPT !.rows[t] = {}], t, "truncate")

-----------------------------------------------------------------------------
(***************************************************************************)
(* ChangeDispatcher::apply.  Every schema change but the drop of an index  *)
(* lists the tables again.                                                 *)
(***************************************************************************)
reload_table_specs(r) == [r EXCEPT !.specs = list_tables(r.cols, r.indexes)]

(* History: a change of a table with identity FULL goes by the listed key,  *)
(* which is not its key (the index was dropped meanwhile, or has columns   *)
(* that may be NULL), or the table has none.                               *)
Noted(r, m) ==
    LET key == r.specs[m.table].key
        sound == key = list_tables(r.cols, r.indexes)[m.table].key /\ \A c \in key : r.cols[m.table][c][2]
    IN  IF m.full THEN [r EXCEPT !.misled = @ \/ ~sound, !.keyless = sound /\ key = {}] ELSE r

apply(r, ch, v) ==
    CASE r.failed -> r
      [] ch.tag \in {"insert", "update", "delete"} /\ ch.table \notin DOMAIN r.specs -> Failed(r)
      [] ch.tag = "insert" /\ ch.table \in DOMAIN r.specs -> process_insert(Noted(r, ch), ch, v)
      [] ch.tag = "update" /\ ch.table \in DOMAIN r.specs -> process_update(Noted(r, ch), ch, v)
      [] ch.tag = "delete" /\ ch.table \in DOMAIN r.specs -> process_delete(Noted(r, ch), ch)
      [] ch.tag = "truncate" -> IF ch.table \in DOMAIN r.rows THEN process_truncate(r, ch.table) ELSE Failed(r)
      [] ch.tag = "drop-index" -> SqlDropIndexes(r, {ch.index})
      [] ch.tag = "create-table" -> reload_table_specs(create_table(r, ch.spec))
      [] ch.tag = "drop-table" -> reload_table_specs(drop_table(r, ch.table))
      [] ch.tag = "rename-table" -> reload_table_specs(rename_table(r, ch.table, ch.new, v))
      [] ch.tag = "drop-column" -> reload_table_specs(drop_column(r, ch.table, ch.col, v))
      [] ch.tag = "add-column" -> reload_table_specs(add_column(r, ch.table, ch.new, v))
      [] ch.tag = "update-column" -> reload_table_specs(update_column(r, ch.table, ch.old, ch.new, v))
      [] ch.tag = "create-index" -> reload_table_specs(create_index(r, ch.index, ch.spec))

Applied(r, changes, v) == FoldLeft(LAMBDA acc, ch : apply(acc, ch, v), r, changes)

-----------------------------------------------------------------------------
NoEvent == [kind |-> "none", tag |-> "none"]

Effective(r, t, x) == [val |-> x.val, ver |-> IF t \in DOMAIN r.minRow THEN Max({x.ver, r.minRow[t]}) ELSE x.ver]

ReadRows(r) == [t \in DOMAIN r.rows |-> {Effective(r, t, x) : x \in r.rows[t]}]

TablesInit ==
    /\ up \in StartSchemas
    /\ current = published_schema(up)
    /\ lastDdl = NoEvent
    /\ version = 2
    /\ rep = run_initial_sync(up, 1)
    /\ base = ReadRows(rep)
    /\ statements = 0

Running ==
    /\ ~rep.failed /\ Cardinality(DOMAIN up.tables) + statements < MaxWork
    /\ statements' = statements + 1

(***************************************************************************)
(* What the translator makes of the two events of a statement: changes, or *)
(* a resync.  The change before the statement is that of an unknown one    *)
(* unless the last event was a start.                                      *)
(***************************************************************************)
ddl_outcome(u, mid, next, tag) ==
    LET startTag == IF lastDdl.kind = "ddlStart" THEN lastDdl.tag ELSE "UNKNOWN"
        changes == make_schema_changes(current, mid) \o make_schema_changes(mid, next)
    IN  IF NeedsResync(current, mid, startTag) \/ NeedsResync(mid, next, tag)
        THEN /\ version' = version + 1
             /\ rep' = run_initial_sync(u, version)
             /\ base' = ReadRows(rep')
             /\ lastDdl' = NoEvent
        ELSE /\ rep' = Applied(rep, changes, version)
             /\ lastDdl' = [kind |-> IF next = mid THEN "ddlStart" ELSE "ddlUpdate", tag |-> tag]
             /\ UNCHANGED <<version, base>>

(***************************************************************************)
(* A DDL statement.  Its triggers compare the schema with the stored one,  *)
(* before the statement, which shows what changed without an event, and    *)
(* after it.                                                               *)
(***************************************************************************)
Ddl(u, tag) ==
    /\ up' = u
    /\ current' = published_schema(u)
    /\ ddl_outcome(u, published_schema(up), published_schema(u), tag)

NoDups(rows, cols) ==
    \A a, b \in rows : a # b => \E c \in cols : a[c] # b[c] \/ a[c] = 0

Fits(u, oid, rows) ==
    /\ \A r \in rows, c \in DOMAIN u.tables[oid].cols : u.tables[oid].cols[c].notNull => r[c] # 0
    /\ \A n \in DOMAIN u.indexes : u.indexes[n].oid = oid /\ u.indexes[n].unique => NoDups(rows, Range(u.indexes[n].cols))

FreeTable == TableNames \ {up.tables[o].name : o \in DOMAIN up.tables}
FreeIndex == IndexNames \ DOMAIN up.indexes
FreeColumn(oid) == ColumnNames \ {c.name : c \in Range(up.tables[oid].cols)}
WithIndexes(u, keep) == [u EXCEPT !.indexes = Restrict(@, {n \in DOMAIN @ : keep[n]})]

CreateTable(name, key) ==
    /\ Running /\ name \in FreeTable /\ up.next \in Oids /\ key \subseteq FreeIndex
    /\ LET cols == <<Column("k", "int", key # {}, 0), Column("a", "text", FALSE, 0)>>
       IN  Ddl([tables |-> (up.next :> Table(name, cols, "default")) @@ up.tables,
                indexes |-> [n \in key |-> Index(up.next, <<1>>, TRUE, TRUE)] @@ up.indexes,
                rows |-> (up.next :> {}) @@ up.rows,
                next |-> up.next + 1], "CREATE TABLE")

DropTable(oid) ==
    /\ Running
    /\ Ddl([WithIndexes(up, [n \in DOMAIN up.indexes |-> up.indexes[n].oid # oid])
              EXCEPT !.tables = Restrict(@, DOMAIN @ \ {oid}), !.rows = Restrict(@, DOMAIN @ \ {oid})], "DROP TABLE")

RenameTable(oid, name) ==
    /\ Running /\ name \in FreeTable
    /\ Ddl([up EXCEPT !.tables[oid].name = name], "ALTER TABLE")

SetIdentity(oid, ident) ==
    /\ Running
    /\ Ddl([up EXCEPT !.tables[oid].ident = ident], "ALTER TABLE")

SetPublished(oid, pub) ==
    /\ Running /\ version < MaxVersion
    /\ Ddl([up EXCEPT !.tables[oid].pub = pub], "ALTER PUBLICATION")

RenameColumn(oid, c, name) ==
    /\ Running /\ name \in FreeColumn(oid)
    /\ Ddl([up EXCEPT !.tables[oid].cols[c].name = name], "ALTER TABLE")

(***************************************************************************)
(* One ALTER TABLE that drops a column with its indexes, changes the type  *)
(* or NOT NULL of others, and adds a column with its default.              *)
(***************************************************************************)
Alter(oid, dropped, spec, added) ==
    LET t == up.tables[oid]
        kept == [c \in DOMAIN t.cols \ dropped |-> IF c \in DOMAIN spec THEN spec[c] ELSE t.cols[c]]
        top == t.top + Cardinality(added)
        cols == [c \in {top : x \in added} |-> CHOOSE x \in added : TRUE] @@ kept
        first == UNION {{IF x.dflt = Unsupported THEN 1 ELSE x.dflt} : x \in added}
    IN  [WithIndexes(up, [n \in DOMAIN up.indexes |->
                            up.indexes[n].oid # oid \/ Range(up.indexes[n].cols) \cap dropped = {}])
            EXCEPT !.tables[oid].cols = cols, !.tables[oid].top = top,
                   !.rows[oid] = {[c \in DOMAIN cols |-> IF c \in DOMAIN kept THEN r[c] ELSE Max(first)] : r \in @}]

AlterTable(oid, dropped, spec, added) ==
    LET t == up.tables[oid]
        u == Alter(oid, dropped, spec, added)
    IN  /\ Running
        /\ \A x \in added : x.dflt = Unsupported => version < MaxVersion
        /\ \A c \in DOMAIN spec : c \in PrimaryKey(up, oid) => spec[c].notNull
        /\ \A x \in added : x.name \in FreeColumn(oid) \cup {t.cols[c].name : c \in dropped}
        /\ DOMAIN u.tables[oid].cols # {} /\ Fits(u, oid, u.rows[oid])
        /\ Cardinality(u.rows[oid]) = Cardinality(up.rows[oid])
        /\ Ddl(u, "ALTER TABLE")

CreateIndex(n, oid, cols, unique) ==
    /\ Running /\ n \in FreeIndex
    /\ LET u == [up EXCEPT !.indexes = (n :> Index(oid, cols, unique, FALSE)) @@ @]
       IN  Fits(u, oid, u.rows[oid]) /\ Ddl(u, "CREATE INDEX")

AddPrimaryKey(n, oid, c) ==
    /\ Running /\ n \in FreeIndex /\ PrimaryKey(up, oid) = {}
    /\ LET u == [up EXCEPT !.indexes = (n :> Index(oid, <<c>>, TRUE, TRUE)) @@ @, !.tables[oid].cols[c].notNull = TRUE]
       IN  Fits(u, oid, u.rows[oid]) /\ Ddl(u, "ALTER TABLE")

DropIndex(n) ==
    /\ Running
    /\ Ddl(WithIndexes(up, [m \in DOMAIN up.indexes |-> m # n]),
           IF up.indexes[n].primary THEN "ALTER TABLE" ELSE "DROP INDEX")

(* ALTER INDEX has no event: the next statement's first event carries it. *)
RenameIndex(n, new) ==
    /\ Running /\ new \in FreeIndex
    /\ up' = [up EXCEPT !.indexes = Renamed(@, n, new)]
    /\ UNCHANGED <<current, lastDdl, rep, version, base>>

-----------------------------------------------------------------------------
(***************************************************************************)
(* Row statements and their pgoutput messages: translate.  The old key is  *)
(* sent if it changed, the old row if the identity is FULL, and a value    *)
(* stored out of line that did not change is left out of the new row.      *)
(***************************************************************************)
Change(u, oid, tag, old, new) ==
    LET t == u.tables[oid]
        names == {t.cols[c].name : c \in PrimaryKey(u, oid)}
    IN  [tag |-> tag, table |-> t.name, full |-> t.ident = "full",
         key |-> IF t.ident = "full" THEN {} ELSE names,
         old |-> [i \in DOMAIN old |-> IF t.ident = "full" THEN LiteRow(t.cols, old[i])
                                       ELSE Restrict(LiteRow(t.cols, old[i]), names)],
         new |-> LiteRow(t.cols, new)]

Rows(oid) == [DOMAIN up.tables[oid].cols -> {0} \cup Values]

SetRows(oid, rows, changes) ==
    /\ Running /\ Fits(up, oid, rows)
    /\ up' = [up EXCEPT !.rows[oid] = rows]
    /\ rep' = IF up.tables[oid].pub THEN Applied(rep, changes, version) ELSE rep
    /\ UNCHANGED <<current, lastDdl, version, base>>

Insert(oid, row) ==
    /\ row \notin up.rows[oid]
    /\ SetRows(oid, up.rows[oid] \cup {row}, <<Change(up, oid, "insert", <<>>, row)>>)

(* Postgres refuses these for a published table without an identity. *)
Identified(oid) == up.tables[oid].pub => up.tables[oid].ident = "full" \/ PrimaryKey(up, oid) # {}

Update(oid, old, new, toast) ==
    LET key == PrimaryKey(up, oid)
        out == {c \in DOMAIN old : toast /\ old[c] = new[c] /\ c \notin key /\ up.tables[oid].cols[c].type = "text"}
        sent == Restrict(new, DOMAIN new \ out)
        moved == up.tables[oid].ident = "full" \/ \E c \in key : old[c] # new[c]
    IN  /\ Identified(oid) /\ new \notin up.rows[oid] /\ (toast => out # {})
        /\ SetRows(oid, (up.rows[oid] \ {old}) \cup {new},
                   <<Change(up, oid, "update", IF moved THEN <<old>> ELSE <<>>, sent)>>)

Delete(oid, row) ==
    /\ Identified(oid)
    /\ SetRows(oid, up.rows[oid] \ {row}, <<Change(up, oid, "delete", <<row>>, row)>>)

Truncate(oids) ==
    /\ Running
    /\ up' = [up EXCEPT !.rows = [o \in DOMAIN @ |-> IF o \in oids THEN {} ELSE @[o]]]
    /\ LET sent == Ascending({o \in oids : up.tables[o].pub})
       IN  rep' = Applied(rep, [i \in DOMAIN sent |-> [tag |-> "truncate", table |-> up.tables[sent[i]].name]], version)
    /\ UNCHANGED <<current, lastDdl, version, base>>

CommitTables ==
    /\ ~rep.failed /\ version < MaxVersion /\ (rep.wide # {} \/ rep.ops # {})
    /\ version' = version + 1
    /\ base' = ReadRows(rep)
    /\ rep' = [rep EXCEPT !.wide = {}, !.ops = {}, !.unlogged = {}, !.clobbered = FALSE]
    /\ UNCHANGED <<up, current, lastDdl, statements>>

TablesNext ==
    \/ \E name \in TableNames, key \in SUBSET IndexNames : Cardinality(key) <= 1 /\ CreateTable(name, key)
    \/ \E oid \in DOMAIN up.tables :
          \/ DropTable(oid)
          \/ \E name \in TableNames : RenameTable(oid, name)
          \/ \E ident \in {"default", "full"} : SetIdentity(oid, ident)
          \/ \E pub \in BOOLEAN : SetPublished(oid, pub)
          \/ \E c \in DOMAIN up.tables[oid].cols :
                \/ \E name \in ColumnNames : RenameColumn(oid, c, name)
                \/ \E n \in IndexNames : AddPrimaryKey(n, oid, c)
                \/ \E n \in IndexNames, unique \in BOOLEAN : CreateIndex(n, oid, <<c>>, unique)
                \/ \E dropped \in {{}, DOMAIN up.tables[oid].cols \ {c}}, type \in Types, notNull \in BOOLEAN :
                      AlterTable(oid, dropped, c :> [up.tables[oid].cols[c] EXCEPT !.type = type, !.notNull = notNull], {})
                \/ AlterTable(oid, {c}, <<>>, {})
                \/ \E dropped \in {{}, {c}}, name \in ColumnNames, type \in Types, dflt \in {0, 1, Unsupported} :
                      AlterTable(oid, dropped, <<>>, {Column(name, type, FALSE, dflt)})
          \/ \E row \in Rows(oid) : Insert(oid, row)
          \/ \E row \in up.rows[oid] :
                Delete(oid, row) \/ \E new \in Rows(oid), toast \in BOOLEAN : Update(oid, row, new, toast)
    \/ \E n \in DOMAIN up.indexes : DropIndex(n) \/ \E new \in IndexNames : RenameIndex(n, new)
    \/ \E oids \in SUBSET DOMAIN up.tables : oids # {} /\ Truncate(oids)
    \/ CommitTables

-----------------------------------------------------------------------------
(***************************************************************************)
(* After every statement whose events were sent, the tables, indexes,      *)
(* column metadata and rows of the replica are those that an initial sync  *)
(* would make now; nothing fails to apply but a change of a row of a table *)
(* with identity FULL and no unique index.  (Not covered: rows after a     *)
(* change by a listed key that is not the table's, see Noted.)             *)
(***************************************************************************)
ReplicaAsCopied ==
    LET fresh == run_initial_sync(up, version)
        Held(r, t) == {x.val : x \in r.rows[t]}
    IN  /\ rep.failed => rep.misled \/ rep.keyless
        /\ ~rep.failed /\ current = published_schema(up) =>
              /\ rep.cols = fresh.cols /\ rep.meta = fresh.meta /\ rep.indexes = fresh.indexes
              /\ rep.misled \/ \A t \in DOMAIN fresh.rows : Held(rep, t) = Held(fresh, t)

(***************************************************************************)
(* A row that differs in any column from what was read before has the      *)
(* version of the transaction that changed it, schema changes included:    *)
(* client views compare versions and would not notice it otherwise.        *)
(***************************************************************************)
VersionsTellChanges ==
    \A t \in DOMAIN rep.rows : \A x \in ReadRows(rep)[t] :
        x.ver < version => t \in DOMAIN base /\ x \in base[t]

(***************************************************************************)
(* A reader at the last commit learns every change from the log of this    *)
(* transaction: from a reset, a truncate, or the entries of the row's key. *)
(* A row that is new or changed has an entry that sets it; one that is no  *)
(* longer as it was has an entry that deletes it or sets what is there     *)
(* now; and no entry deletes a row that is there: an update that moves a   *)
(* key, or keeps it, ends with the set.  (Not covered: a truncate that     *)
(* replaces the entry of another table-wide operation of the same          *)
(* transaction, and inserts without a row key.)                            *)
(***************************************************************************)
LogTellsChanges ==
    LET now == ReadRows(rep)
        Entries(t, x) == {e \in rep.ops : e.table = t /\ Matches(x, e.key)}
        Live(e) == \E y \in now[e.table] : Matches(y, e.key)
    IN  \/ rep.failed \/ rep.misled \/ rep.clobbered \/ \E e \in rep.wide : e.op = "reset"
        \/ /\ DOMAIN now = DOMAIN base
           /\ \A t \in DOMAIN now \ rep.unlogged :
                /\ \A x \in now[t] \ base[t] : \E e \in Entries(t, x) : e.op = "set"
                /\ [table |-> t, op |-> "truncate"] \in rep.wide
                   \/ \A x \in base[t] \ now[t] : \E e \in Entries(t, x) : e.op = "delete" \/ Live(e)
                /\ \A e \in rep.ops : e.table = t /\ e.op = "delete" => ~Live(e)
=============================================================================
