----------------------------- MODULE MCFiberVm -----------------------------
(***************************************************************************)
(* Symmetry for FiberVm: slots are only compared.                          *)
(***************************************************************************)
EXTENDS FiberVm
Symmetry == Permutations(Fiber)
=============================================================================
