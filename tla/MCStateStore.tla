---------------------------- MODULE MCStateStore ----------------------------
(* Symmetry for model checking StateStore. *)
EXTENDS StateStore, TLC

Symmetry == Permutations(Proc)
=============================================================================
