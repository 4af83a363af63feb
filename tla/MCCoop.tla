------------------------------- MODULE MCCoop -------------------------------
(* Constants of the TLC runs of CoopThreads. *)
EXTENDS CoopThreads, TLC

Symmetry == Permutations(Threads)
=============================================================================
