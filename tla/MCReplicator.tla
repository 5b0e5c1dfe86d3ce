---------------------------- MODULE MCReplicator ----------------------------
(* Instances of Replicator for TLC.                                        *)
EXTENDS Replicator, TLC

KeySymmetry == Permutations(Keys)
=============================================================================
