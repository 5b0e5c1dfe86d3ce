----------------------------- MODULE MCServices -----------------------------
(***************************************************************************)
(* Four parts that share no state, each checked on an instance of its own: *)
(* a behaviour is a behaviour of one part, the others stay as they start.  *)
(***************************************************************************)
EXTENDS Mutations, Authorizer, ConnectionContexts, ReplicaTables

VARIABLE part

(* Mutations and ConnectionContexts only quantify over clients and sockets. *)
Symmetry == Permutations(Clients) \cup Permutations(Conns)

(* Two tables of which one has identity FULL, and one table with two indexes. *)
TwoCols == <<Column("k", "int", TRUE, 0), Column("a", "text", FALSE, 0)>>
Pair(ident) ==
    [tables |-> <<Table("t", TwoCols, ident), Table("u", TwoCols, "default")>>,
     indexes |-> [n \in {"pkey", "idx"} |-> Index(IF n = "pkey" THEN 1 ELSE 2, <<1>>, TRUE, TRUE)],
     rows |-> <<{<<1, 1>>}, {<<1, 0>>}>>, next |-> 3]
Single(ident) ==
    [tables |-> <<Table("t", TwoCols, ident)>>,
     indexes |-> [n \in {"pkey", "idx"} |-> IF n = "pkey" THEN Index(1, <<1>>, TRUE, TRUE) ELSE Index(1, <<2>>, TRUE, FALSE)],
     rows |-> <<{<<1, 0>>}>>, next |-> 2]
Nothing == [tables |-> <<>>, indexes |-> <<>>, rows |-> <<>>, next |-> 1]
MCStartSchemas == {Nothing, Pair("full"), Single("default")}

-----------------------------------------------------------------------------
(* Rows, rules and queries for the authorizer. *)
Issue(id, owner) == [id |-> id, owner |-> owner, parent |-> "none"]
Comment(id, owner, parent) == [id |-> id, owner |-> owner, parent |-> parent]
AllIssues == {Issue("i1", "u1"), Issue("i2", "u2")}
AllComments == {Comment("m1", "u2", "i1"), Comment("m2", "u1", "i2")}
Dbs == [issues : SUBSET AllIssues, comments : SUBSET AllComments]
Auths == {[sub |-> "u1"], <<>>}
IsMine == Param("owner", "sub")
HasComment(not, w) == Exists(Query("comments", w, <<>>), not)
IssueRules == {<<>>, <<And(<<>>)>>, <<IsMine>>, <<Cmp("owner", "u2"), IsMine>>,
               <<HasComment(FALSE, <<IsMine>>)>>, <<And(<<IsMine, HasComment(TRUE, <<>>)>>), Or(<<>>)>>}
CommentRules == {<<>>, <<And(<<>>)>>, <<IsMine>>, <<Or(<<IsMine, And(<<>>)>>)>>, <<Or(<<>>), And(<<IsMine, IsMine>>)>>}
SelectRules == [issues : IssueRules, comments : CommentRules] \cup {[issues |-> <<IsMine>>], <<>>}
Wheres == {<<>>, <<IsMine>>, <<Or(<<>>)>>, <<Or(<<Cmp("owner", "u2"), HasComment(FALSE, <<>>)>>)>>,
           <<HasComment(FALSE, <<Cmp("owner", "u2")>>)>>, <<HasComment(TRUE, <<>>)>>,
           <<And(<<Cmp("owner", "u1"), And(<<HasComment(TRUE, <<IsMine>>)>>)>>), Or(<<IsMine, IsMine>>)>>}
Queries == {Query("issues", w, r) : w \in Wheres, r \in {<<>>, <<Query("comments", <<>>, <<>>)>>}}
           \cup {Query("comments", <<Cmp("owner", "u1")>>, <<>>)}
MCReadCases == {c \in [db : Dbs, auth : Auths, rules : SelectRules, query : Queries] : TRUE}
Policies == {<<>>, <<And(<<>>)>>, <<IsMine>>}
RowRules == {<<>>} \cup {[insert |-> a, pre |-> b, post |-> c, delete |-> d] : a, b, c, d \in Policies}
            \cup {[pre |-> <<IsMine>>, delete |-> <<IsMine>>]}
CellRules == {<<>>, [owner |-> [pre |-> <<IsMine>>, post |-> <<>>]], [owner |-> [pre |-> <<IsMine>>, post |-> <<IsMine>>, insert |-> <<IsMine>>, delete |-> <<Cmp("owner", "u2")>>]]}
CrudOp(op, table, id, keyed, value) == [op |-> op, table |-> table, id |-> id, keyed |-> keyed, value |-> value]
IssueOp(op, id, keyed, value) == CrudOp(op, "issues", id, keyed, value)
CommentOp(op, id, value) == CrudOp(op, "comments", id, TRUE, value)
MCOps == {IssueOp("insert", "i1", TRUE, Issue("i1", "u1")), IssueOp("insert", "i2", FALSE, Issue("i2", "u1")),
          IssueOp("update", "i1", TRUE, [owner |-> "u2"]), IssueOp("update", "i2", TRUE, [parent |-> "i1"]),
          IssueOp("upsert", "i1", TRUE, Issue("i1", "u2")), IssueOp("upsert", "i2", TRUE, Issue("i2", "u1")),
          IssueOp("delete", "i1", TRUE, <<>>), IssueOp("delete", "i2", TRUE, <<>>)}
PairsOf(ops) == {<<a>> : a \in ops} \cup {p \in ops \X ops : p[1].id # p[2].id}
WRules == {[issues |-> [row |-> r, cells |-> c]] : r \in RowRules, c \in CellRules} \cup {<<>>}
OnIssues == [db : {[issues |-> i, comments |-> {}] : i \in SUBSET AllIssues}, auth : Auths,
             rules : WRules, ops : PairsOf(MCOps)]

(* Rules that ask for comments, and mutations of issues and comments in either order. *)
TwoTableOps == {IssueOp("insert", "i2", TRUE, Issue("i2", "u1")), IssueOp("update", "i1", TRUE, [owner |-> "u2"]),
                IssueOp("upsert", "i1", TRUE, Issue("i1", "u1")), IssueOp("delete", "i2", TRUE, <<>>),
                CommentOp("insert", "m1", Comment("m1", "u1", "i1")), CommentOp("update", "m1", [parent |-> "i2"]),
                CommentOp("upsert", "m2", Comment("m2", "u2", "i2")), CommentOp("delete", "m2", <<>>)}
Asks == {<<And(<<>>)>>, <<HasComment(FALSE, <<>>)>>, <<HasComment(TRUE, <<IsMine>>)>>}
Everywhere(p) == [insert |-> p, pre |-> p, post |-> p, delete |-> p]
ExistsRules == [issues : [row : {[insert |-> a, pre |-> a, post |-> b, delete |-> b] : a, b \in Asks},
                          cells : {<<>>, [owner |-> [post |-> <<HasComment(FALSE, <<IsMine>>)>>]]}],
                comments : [row : {Everywhere(<<And(<<>>)>>), Everywhere(<<IsMine>>)}, cells : {<<>>}]]
OnTwoTables == [db : Dbs, auth : {[sub |-> "u1"]}, rules : ExistsRules, ops : PairsOf(TwoTableOps)]
MCWriteCases == OnIssues \cup OnTwoTables

(* Revalidation every tick and retransforms every second one, or either disabled. *)
MCIntervals == {i \in [MaintenanceKind -> IntervalOptions] :
                  i["revalidate"] \in {{}, {1}} /\ i["retransform"] \in {{}, {2}}}

vars == <<part, mutVars, authCase, ctxVars, tableVars>>

Init ==
    /\ MutInit /\ AuthInit /\ CtxInit /\ TablesInit
    /\ part \in {"mutations", "auth", "contexts", "tables"}
    /\ part # "mutations" => ~api
    /\ interval \in IF part = "contexts" THEN MCIntervals ELSE {[k \in MaintenanceKind |-> {}]}
    /\ (part = "tables") = (up # Nothing)

Next ==
    /\ UNCHANGED part
    /\ \/ part = "mutations" /\ MutNext /\ UNCHANGED <<authCase, ctxVars, tableVars>>
       \/ part = "auth" /\ AuthNext /\ UNCHANGED <<mutVars, ctxVars, tableVars>>
       \/ part = "contexts" /\ CtxNext /\ UNCHANGED <<mutVars, authCase, tableVars>>
       \/ part = "tables" /\ TablesNext /\ UNCHANGED <<mutVars, authCase, ctxVars>>

Spec == Init /\ [][Next]_vars
=============================================================================
