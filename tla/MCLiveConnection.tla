-------------------------- MODULE MCLiveConnection --------------------------
(***************************************************************************)
(* Two tables, an issue and its comment, and three queries: the open       *)
(* issues, all issues with their comments, and one whose transform failed. *)
(***************************************************************************)
EXTENDS LiveConnection, TLC

MCRows == {"i1", "m1"}
MCTableOf == [r \in MCRows |-> IF r = "i1" THEN "issue" ELSE "comment"]
MCParentOf == [r \in MCRows |-> "i1"]
MCQueries == {"open", "all", "bad"}
MCRoot == [q \in MCQueries |-> "issue"]
MCWanted == [q \in MCQueries |-> IF q = "all" THEN {1, 2} ELSE {1}]
MCRelated == [q \in MCQueries |-> IF q = "all" THEN {"comment"} ELSE {}]

Symmetry == Permutations(Clients)

Write(r, v, by) == [row |-> r, val |-> v, by |-> by]
MCFewWrites == {Write("i1", 0, {}), Write("i1", 2, {}), Write("m1", 0, Clients)}

Patch(puts, dels) == [puts |-> puts, dels |-> dels]
MCPatches == {Patch({"open"}, {}), Patch({"all"}, {"open"})}
MCMorePatches == {Patch({"open"}, {}), Patch({"all", "bad"}, {"open"}), Patch({}, {})}

(***************************************************************************)
(* Two clients, in every order; one client while flushes and advances fail *)
(* and another node commits; and one whose retries another node uses up.   *)
(***************************************************************************)
Pair == [clients |-> Clients, connects |-> 2, header |-> {FALSE}, patches |-> MCPatches,
         messages |-> 2, commits |-> 2, others |-> 0, failures |-> 0]
Faults == {[clients |-> {c}, connects |-> 2, header |-> BOOLEAN, patches |-> MCMorePatches,
            messages |-> 2, commits |-> 1, others |-> 1, failures |-> 1] : c \in Clients}

Rivals == {[clients |-> {c}, connects |-> 2, header |-> {FALSE}, patches |-> MCPatches,
            messages |-> 1, commits |-> 1, others |-> 2, failures |-> 0] : c \in Clients}

Situations == {Pair} \cup Faults \cup Rivals
=============================================================================
