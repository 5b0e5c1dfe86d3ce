-------------------------- MODULE MCGroupProcessor --------------------------
(***************************************************************************)
(* Two tables, an issue and its comment, and two queries: the open issues  *)
(* and all issues with their comments.                                     *)
(***************************************************************************)
EXTENDS GroupProcessor, TLC

MCRows == {"i1", "m1"}
MCTableOf == [r \in MCRows |-> IF r = "i1" THEN "issue" ELSE "comment"]
MCParentOf == [r \in MCRows |-> "i1"]
MCQueries == {"open", "all"}
MCRoot == [q \in MCQueries |-> "issue"]
MCWanted == [q \in MCQueries |-> IF q = "all" THEN {1, 2} ELSE {1}]
MCRelated == [q \in MCQueries |-> IF q = "all" THEN {"comment"} ELSE {}]

Symmetry == Permutations(Clients)

Write(r, v, by) == [row |-> r, val |-> v, by |-> by]
MCFewWrites == {Write("i1", 0, Clients)}

Patch(puts, dels, ast) == [puts |-> puts, dels |-> dels, ast |-> ast]
MCPatches == {Patch({"open"}, {}, 0), Patch({"open"}, {}, 1), Patch({"all"}, {"open"}, 1)}
=============================================================================
