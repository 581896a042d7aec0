--------------------------- MODULE MCKeyRegistry ---------------------------
(* Constants for model checking KeyRegistry. *)
EXTENDS KeyRegistry, TLC

\* Commands, identifiers, nodes and public keys are interchangeable.
Symmetry == Permutations(Command) \cup Permutations(KeyId)
            \cup Permutations(Node) \cup Permutations(PublicKey)
=============================================================================
