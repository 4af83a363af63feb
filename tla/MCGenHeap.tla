----------------------------- MODULE MCGenHeap -----------------------------
(* Model-checking instances of GenHeap: few slots, symmetric. *)
EXTENDS GenHeap, TLC

Symmetry == Permutations(Slot)
=============================================================================
