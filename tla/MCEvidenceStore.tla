-------------------------- MODULE MCEvidenceStore --------------------------
(* Constants for model checking EvidenceStore. *)
EXTENDS EvidenceStoreInv, TLC

CONSTANTS p1, p2

MCProc == {p1, p2}
ProcSymmetry == Permutations(MCProc)

\* The entry points of the store that run.
SignOnly == {"sign"}
SignAndRepair == {"sign", "repair"}
=============================================================================
