-------------------------- MODULE MCCedarEngine ----------------------------
(* Instances of CedarEngine for TLC.                                       *)
EXTENDS CedarEngine, TLC

ThreadSymmetry == Permutations(Threads)
SomeRefArgs == {-1, 0, 2}
============================================================================
