--------------------------- MODULE GroupTransition ---------------------------
(***************************************************************************)
(* The transition of a client group: the query pipelines over a snapshot   *)
(* of the replica, the row records of the CVR, the hydration of a query    *)
(* and the poke that tells a client about it.  The operators are pure; the *)
(* handlers that call them are in LiveConnection and GroupProcessor.       *)
(*                                                                         *)
(* The replica is a fixed set of row keys.  A row body is a value and the  *)
(* commit that wrote it (_0_version); value 0 is a row that is not there.  *)
(* A query returns the rows of its root table whose value it wants and, of *)
(* its related tables, the rows of those parents.  A CVR version, and the  *)
(* cookie made of it, is the number of version bumps since "00"; -1 is a   *)
(* client without a cookie.                                                *)
(***************************************************************************)
EXTENDS Integers, Sequences, FiniteSets

CONSTANTS
    Clients,      \* the clients of one client group
    Rows,         \* row keys
    TableOf,      \* the table of a row
    ParentOf,     \* the row its foreign key names
    Queries,
    Root,         \* a query's table
    Wanted,       \* the values its condition accepts
    Related,      \* the tables of its related subqueries
    Untransformed \* the queries whose transform answered with an error

ASSUME GroupTransitionAssumption ==
    /\ ParentOf \in [Rows -> Rows]
    /\ DOMAIN TableOf = Rows
    /\ DOMAIN Root = Queries /\ DOMAIN Wanted = Queries /\ DOMAIN Related = Queries
    /\ \A q \in Queries : Wanted[q] \subseteq Nat \ {0}
    /\ Untransformed \subseteq Queries

NoRow == [val |-> 0, ver |-> 0]
NoCookie == -1
Empty == <<>>

Highest(S) == CHOOSE n \in S : \A m \in S : m <= n

Without(f, S) == [x \in DOMAIN f \ S |-> f[x]]

One(x, v) == [y \in {x} |-> v]

Over(f, g) == [x \in DOMAIN f \cup DOMAIN g |-> IF x \in DOMAIN f THEN f[x] ELSE g[x]]

-----------------------------------------------------------------------------
(***************************************************************************)
(* Pipelines.  A driver is a snapshot and, for each query it runs, the     *)
(* rows it last knew.                                                      *)
(***************************************************************************)
RootRows(q, rows) == {r \in Rows : TableOf[r] = Root[q] /\ rows[r].val \in Wanted[q]}

ChildOf(r, parents) == ParentOf[r] \in parents

RelatedRows(q, rows, parents) ==
    {r \in Rows : TableOf[r] \in Related[q] /\ rows[r].val # 0 /\ ChildOf(r, parents)}

Result(q, rows) == RootRows(q, rows) \cup RelatedRows(q, rows, RootRows(q, rows))

Fetch(q, rows) == [r \in Result(q, rows) |-> rows[r]]

(***************************************************************************)
(* A query over one table without limit or subquery is kept up to date     *)
(* change by change, and reuses the rows of the hydration.                 *)
(***************************************************************************)
Direct(q) == Related[q] = {}

NewDriver(head) == [at |-> head, pipes |-> Empty]

RemoveQuery(d, q) == [d EXCEPT !.pipes = Without(@, {q})]

AddQuery(d, q) == [d EXCEPT !.pipes = Over(One(q, Fetch(q, d.at.rows)), @)]

(***************************************************************************)
(* register_query keeps a pipeline that is already there.                  *)
(***************************************************************************)
RegisterQuery(d, q, rows) == [d EXCEPT !.pipes = Over(@, One(q, rows))]

(***************************************************************************)
(* The entries of the change log since the snapshot, without those of rows *)
(* that neither snapshot has.                                              *)
(***************************************************************************)
Changed(d, head) ==
    {r \in Rows : /\ head.rows[r].ver > d.at.ver
                  /\ d.at.rows[r].val # 0 \/ head.rows[r].val # 0}

(***************************************************************************)
(* The changes that turn the rows a query returned into those it returns;  *)
(* an addition and an edit are both a put of the row.                      *)
(***************************************************************************)
DiffRows(q, previous, next) ==
    {[query |-> q, row |-> r, put |-> TRUE, body |-> next[r]] :
        r \in {s \in DOMAIN next : s \notin DOMAIN previous \/ previous[s] # next[s]}}
    \cup
    {[query |-> q, row |-> r, put |-> FALSE, body |-> NoRow] :
        r \in DOMAIN previous \ DOMAIN next}

(* Mutant: a changed row enters whether or not the condition accepts it. *)
DirectNext_unfiltered(q, pipe, d, head) ==
    LET entered == {r \in Changed(d, head) : TableOf[r] = Root[q]}
        rows    == Over([r \in entered |-> head.rows[r]], pipe)
    IN  [rows |-> rows, changes |-> DiffRows(q, pipe, rows)]

(***************************************************************************)
(* apply_direct_changes: the previous value of a row comes from the old    *)
(* snapshot, and only a row that was in it is taken out.                   *)
(***************************************************************************)
DirectNext(q, pipe, d, head) ==
    LET affected == {r \in Changed(d, head) : TableOf[r] = Root[q]}
        left     == {r \in affected : d.at.rows[r].val # 0}
        entered  == {r \in affected : head.rows[r].val \in Wanted[q]}
        rows     == Over([r \in entered |-> head.rows[r]], Without(pipe, left))
    IN  [rows    |-> rows,
         changes |-> DiffRows(q, [r \in left \cap DOMAIN pipe |-> pipe[r]],
                                 [r \in affected \cap DOMAIN rows |-> rows[r]])]

RehydratedNext(q, pipe, head) ==
    [rows |-> Fetch(q, head.rows), changes |-> DiffRows(q, pipe, Fetch(q, head.rows))]

Touched(q, d, head) ==
    \E r \in Changed(d, head) : TableOf[r] \in Related[q] \cup {Root[q]}

PipeNext(q, d, head) ==
    IF ~Touched(q, d, head) THEN [rows |-> d.pipes[q], changes |-> {}]
    ELSE IF Direct(q) THEN DirectNext(q, d.pipes[q], d, head)
    ELSE RehydratedNext(q, d.pipes[q], head)

(***************************************************************************)
(* PipelineDriver::advance over the pipelines of done: all of them, unless *)
(* the advancement budget runs out on the way or the log asks for a reset. *)
(***************************************************************************)
Advance(d, head, done) ==
    LET next == [q \in done |-> PipeNext(q, d, head)]
    IN  [driver  |-> [at    |-> head,
                      pipes |-> Over([q \in done |-> next[q].rows], d.pipes)],
         changes |-> UNION {next[q].changes : q \in done}]

-----------------------------------------------------------------------------
(***************************************************************************)
(* The CVR: its version, the queries each client desires, the version at   *)
(* which the group got a query (0 when it has not), and the queries that   *)
(* refer to each row.                                                      *)
(***************************************************************************)
EmptyCvr ==
    [version |-> 0, desired |-> [c \in Clients |-> {}],
     got |-> [q \in Queries |-> 0], refs |-> [r \in Rows |-> {}]]

EnsureNewVersion(orig, version) == IF version = orig THEN version + 1 ELSE version

(***************************************************************************)
(* put_desired_queries and delete_queries of one patch, both stamped with  *)
(* the same new version, and the bump that keeps the hydration of a put    *)
(* apart from the configuration.                                           *)
(***************************************************************************)
Needed(cvr, c, patch) == {q \in Queries : q \in patch.puts} \ cvr.desired[c]

Unwanted(cvr, c, patch) == (cvr.desired[c] \cup Needed(cvr, c, patch)) \cap patch.dels

ChangesConfig(cvr, c, patch) == Needed(cvr, c, patch) \cup Unwanted(cvr, c, patch) # {}

ConfigVersion(cvr, c, patch) ==
    IF ChangesConfig(cvr, c, patch) THEN cvr.version + 1 ELSE cvr.version

ApplyDesired(cvr, c, patch) ==
    [cvr EXCEPT
        !.desired[c] = (@ \cup Needed(cvr, c, patch)) \ patch.dels,
        !.version = IF ChangesConfig(cvr, c, patch) /\ patch.puts # {}
                    THEN @ + 2 ELSE ConfigVersion(cvr, c, patch)]

(***************************************************************************)
(* Row patches map a row to its body, NoRow to delete it; to has the       *)
(* version the client reaches with each, got that of each got query.       *)
(***************************************************************************)
NoPatches == [config |-> {}, rows |-> Empty, to |-> Empty, got |-> Empty]

RowPatches(rows, version, got) ==
    [config |-> {}, rows |-> rows, to |-> [r \in DOMAIN rows |-> version], got |-> got]

Extend(p, q) ==
    [config |-> p.config \cup q.config, rows |-> Over(q.rows, p.rows),
     to |-> Over(q.to, p.to), got |-> Over(q.got, p.got)]

IsEmpty(p) == p.config = {} /\ DOMAIN p.rows = {} /\ DOMAIN p.got = {}

(* Mutant: a query that drops a row goes on referring to it. *)
RefsAfter_kept(cvr, changes) ==
    [r \in Rows |-> cvr.refs[r] \cup {ch.query : ch \in {x \in changes : x.row = r /\ x.put}}]

(***************************************************************************)
(* pipeline_changes_to_patches.  A row that a query drops is deleted when  *)
(* no query refers to it any more.                                         *)
(***************************************************************************)
RefsAfter(cvr, changes) ==
    [r \in Rows |->
        (cvr.refs[r] \cup {ch.query : ch \in {x \in changes : x.row = r /\ x.put}})
            \ {ch.query : ch \in {x \in changes : x.row = r /\ ~x.put}}]

Put(changes) == {ch.row : ch \in {x \in changes : x.put}}

Dropped(changes) == {ch.row : ch \in changes} \ Put(changes)

(***************************************************************************)
(* The rows that a query has dropped, of which the client hears nothing    *)
(* because queries that this pipeline does not run still refer to them.    *)
(***************************************************************************)
HeldByOthers(cvr, changes, d) ==
    {r \in Dropped(changes) : RefsAfter(cvr, changes)[r] \ DOMAIN d.pipes # {}}

(***************************************************************************)
(* Two queries put the same row with the same body, unless one of them is  *)
(* out of step; then the order of their hashes decides, and nothing below  *)
(* depends on which body it is.                                            *)
(***************************************************************************)
BodyPut(changes, r) ==
    LET puts == {ch \in changes : ch.row = r /\ ch.put}
    IN  (CHOOSE ch \in puts : \A x \in puts : x.body.ver <= ch.body.ver).body

ChangePatches(cvr, changes, version) ==
    LET refs    == RefsAfter(cvr, changes)
        deleted == {r \in Dropped(changes) : refs[r] = {}}
    IN  RowPatches(Over([r \in Put(changes) |-> BodyPut(changes, r)],
                        [r \in deleted |-> NoRow]), version, Empty)

(***************************************************************************)
(* apply_row_bodies, and apply_row_updates dropping the bodies of          *)
(* tombstones.                                                             *)
(***************************************************************************)
Bodies(bodies, rowPatches) ==
    LET f == Over(rowPatches, bodies)
    IN  [r \in {s \in DOMAIN f : f[s].val # 0} |-> f[r]]

-----------------------------------------------------------------------------
(***************************************************************************)
(* hydrate_put, the part before SQL: the driver comes to the head of the   *)
(* replica, and what that advance finds is thrown away.  The driver given  *)
(* here is the one that has advanced.                                      *)
(***************************************************************************)
PreparePut(d, q, executed) ==
    IF executed THEN RegisterQuery(d, q, Empty)
    ELSE IF Direct(q) THEN RemoveQuery(d, q)
    ELSE AddQuery(RemoveQuery(d, q), q)

(***************************************************************************)
(* A query that is tracked already is not fetched: the rows of its table   *)
(* that refer to it are sent again from the bodies at hand.                *)
(***************************************************************************)
Rewired(cvr, bodies, q) ==
    [r \in {s \in DOMAIN bodies : TableOf[s] = Root[q] /\ q \in cvr.refs[s]} |-> bodies[r]]

(***************************************************************************)
(* The references after fetching a query: a row of its own table gains the *)
(* query, a related row is taken for one never seen before, and a row of   *)
(* its own table that it no longer returns loses it.                       *)
(***************************************************************************)
HydratedRefs(cvr, q, fetched) ==
    [r \in Rows |->
        IF r \in DOMAIN fetched
        THEN IF TableOf[r] = Root[q] THEN cvr.refs[r] \cup {q} ELSE {q}
        ELSE IF TableOf[r] = Root[q] THEN cvr.refs[r] \ {q} ELSE cvr.refs[r]]

(***************************************************************************)
(* Related rows whose references to other queries the fetch overwrites.    *)
(***************************************************************************)
Overwritten(cvr, q, fetched) ==
    {r \in DOMAIN fetched : TableOf[r] # Root[q] /\ cvr.refs[r] \ {q} # {}}

HydratedRows(cvr, q, fetched) ==
    Over(fetched, [r \in {s \in Rows \ DOMAIN fetched :
                              TableOf[s] = Root[q] /\ cvr.refs[s] = {q}} |-> NoRow])

(***************************************************************************)
(* The rows of which the pipeline and the client do not know the same: SQL *)
(* has read a later state than the snapshot that the next advance diffs    *)
(* from.  A row that only the client knows is not taken back if it is gone *)
(* by then, one that only the pipeline knows is not sent if it is back.    *)
(***************************************************************************)
OutOfStep(d, q, fetched) ==
    LET known == IF q \in DOMAIN d.pipes THEN DOMAIN d.pipes[q] ELSE {}
    IN  (IF Direct(q) THEN {r \in DOMAIN fetched : d.at.rows[r].val = 0}
         ELSE (DOMAIN fetched \cup known) \ (DOMAIN fetched \cap known))

(***************************************************************************)
(* The got patch of a query that the group has: at the current version     *)
(* when the client has just come to desire it, else at its recorded one.   *)
(***************************************************************************)
GotPatch(got, q, version, newly) ==
    IF got[q] = 0 THEN Empty ELSE One(q, IF newly THEN version ELSE got[q])

-----------------------------------------------------------------------------
(***************************************************************************)
(* build_poke.  A delivery state remembers the cookie the client came      *)
(* with, whether it has been poked, the last cookie sent and the last      *)
(* mutation IDs sent.                                                      *)
(***************************************************************************)
NewDelivery(cookie) ==
    [base |-> cookie, poked |-> FALSE, last |-> NoCookie,
     lmids |-> [c \in Clients |-> 0]]

(* Mutant: every poke starts from the cookie the client came with. *)
BaseCookie_first(dl) == dl.base

BaseCookie(dl) == IF dl.poked THEN dl.last ELSE dl.base

Included(p, base) ==
    [config |-> {v \in p.config : v > base},
     rows   |-> [r \in {x \in DOMAIN p.rows : p.to[x] > base} |-> p.rows[r]],
     to     |-> p.to,
     got    |-> [q \in {x \in DOMAIN p.got : p.got[x] > base} |-> p.got[q]]]

EndCookie(p, version) ==
    IF IsEmpty(p) THEN version
    ELSE Highest(p.config \cup {p.got[q] : q \in DOMAIN p.got}
                 \cup {p.to[r] : r \in DOMAIN p.rows})

NewLmids(dl, lmids) == [c \in {x \in Clients : lmids[x] # dl.lmids[x]} |-> lmids[c]]

(***************************************************************************)
(* The pokes to send, none or one, and the delivery state after them.      *)
(***************************************************************************)
BuildPoke(dl, patches, version, lmids) ==
    LET base == BaseCookie(dl)
        p    == Included(patches, base)
        new  == NewLmids(dl, lmids)
    IN  IF IsEmpty(p) /\ DOMAIN new = {}
        THEN [pokes |-> <<>>, delivery |-> dl]
        ELSE LET end == EndCookie(p, version)
             IN  [pokes    |-> <<[base |-> base, cookie |-> end, rows |-> p.rows,
                                  got |-> DOMAIN p.got, lmids |-> new]>>,
                  delivery |-> [dl EXCEPT !.poked = TRUE, !.last = end, !.lmids = lmids]]

(***************************************************************************)
(* What a client holds after a poke; an error frame stands for itself.     *)
(***************************************************************************)
Error == [error |-> TRUE]

NewClient ==
    [cookie |-> NoCookie, rows |-> Empty, got |-> {}, lmids |-> [c \in Clients |-> 0]]

Applied(held, p) ==
    [cookie |-> p.cookie, rows |-> Bodies(held.rows, p.rows),
     got |-> held.got \cup p.got, lmids |-> Over(p.lmids, held.lmids)]

-----------------------------------------------------------------------------
(***************************************************************************)
(* What the server knows of the rows a client holds: fresh rows are        *)
(* those it has sent and goes on maintaining, astray those of which it has *)
(* lost track for good.                                                    *)
(***************************************************************************)
Learned(t, sent, lost) ==
    [r \in Rows |-> IF r \in lost \/ t[r] = "astray" THEN "astray"
                    ELSE IF r \in sent THEN "fresh" ELSE t[r]]

(***************************************************************************)
(* The rows that only these queries return.                                *)
(***************************************************************************)
RowsOnlyOf(pipes, qs) ==
    (UNION {DOMAIN pipes[q] : q \in DOMAIN pipes \cap qs})
        \ (UNION {DOMAIN pipes[q] : q \in DOMAIN pipes \ qs})
=============================================================================
