---------------------------- MODULE MCBucketRaces ----------------------------
(* A small instance of BucketRaces for TLC: a second of eight units.        *)
EXTENDS BucketRaces, TLC

CPUSymmetry == Permutations(CPUs)
=============================================================================
