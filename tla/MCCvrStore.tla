----------------------------- MODULE MCCvrStore -----------------------------
(* Instances of CvrStore for TLC. *)
EXTENDS CvrStore, TLC

CONSTANTS n1, n2, s1, s2, k1, k2

TwoNodes == (s1 :> n1) @@ (s2 :> n2)
OneNode == (s1 :> n1) @@ (s2 :> n1)

TwoNodesSymmetry ==
    {f @@ g : f \in Permutations({k1, k2}),
              g \in {(n1 :> n1) @@ (n2 :> n2) @@ (s1 :> s1) @@ (s2 :> s2),
                     (n1 :> n2) @@ (n2 :> n1) @@ (s1 :> s2) @@ (s2 :> s1)}}

Connections == [defer : BOOLEAN, owned : {FALSE}]
AllFlags == [defer : BOOLEAN, owned : BOOLEAN]
=============================================================================
