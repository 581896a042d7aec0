----------------------------- MODULE MCArchive -----------------------------
(* Logs for model checking Archive. *)
EXTENDS Archive, TLC

MCNode == {"A", "B"}
MCGenesis == [n \in MCNode |-> IF n = "A" THEN "genesis A" ELSE "genesis B"]

\* What A and B signed, and s2, spliced from B's chain.
Described ==
    [a1 |-> <<"A", 1, "genesis A">>, a2 |-> <<"A", 2, "a1">>, a3 |-> <<"A", 3, "a2">>,
     s2 |-> <<"A", 2, "b1">>, b1 |-> <<"B", 1, "genesis B">>, b2 |-> <<"B", 2, "b1">>]
MCContent == DOMAIN Described
MCNodeOf == [c \in MCContent |-> Described[c][1]]
MCSeqOf  == [c \in MCContent |-> Described[c][2]]
MCPrevOf == [c \in MCContent |-> Described[c][3]]

Rec(c, h, k, s) == [content |-> c, event_hash |-> h, key |-> k, sig |-> s]
Signed(c) == Rec(c, c, "usable", TRUE)

\* A log that outgrows the limit, one with a record that was spliced in, and one
\* that begins with a record of a key the registry does not know.
MCLogs == {<<Signed("a1"), Signed("a2"), Signed("a3")>>,
           <<Signed("a1"), Signed("s2")>>,
           <<Rec("b1", "b1", "unknown", FALSE), Signed("b2")>>}

Symmetry == Permutations(Archiver)
=============================================================================
