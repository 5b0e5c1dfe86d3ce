-------------------------- MODULE MCChangeStreamer --------------------------
(* Instances of ChangeStreamer for TLC.                                    *)
EXTENDS ChangeStreamer, TLC

KeySymmetry == Permutations(Keys)
=============================================================================
