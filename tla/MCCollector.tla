---------------------------- MODULE MCCollector ----------------------------
(* A universe of contents and records for model checking Collector. *)
EXTENDS Collector

MCNode == {"A", "B"}
MCGenesis == [n \in MCNode |-> IF n = "A" THEN "genesis A" ELSE "genesis B"]

\* a1, a2, a3 and b1 are what the nodes signed.  x2 is another event of A at
\* sequence 2, s2 is spliced from B's chain, r1 is a first event of A that
\* names B's genesis.
Described ==
    [a1 |-> <<"A", 1, "genesis A">>, a2 |-> <<"A", 2, "a1">>, a3 |-> <<"A", 3, "a2">>,
     x2 |-> <<"A", 2, "a1">>, s2 |-> <<"A", 2, "b1">>, r1 |-> <<"A", 1, "genesis B">>,
     b1 |-> <<"B", 1, "genesis B">>]
MCContent == DOMAIN Described
MCNodeOf == [c \in MCContent |-> Described[c][1]]
MCSeqOf  == [c \in MCContent |-> Described[c][2]]
MCPrevOf == [c \in MCContent |-> Described[c][3]]

Rec(c, h, k, s) == [content |-> c, event_hash |-> h, key |-> k, sig |-> s]
Signed(c) == Rec(c, c, "usable", TRUE)

\* Every content as signed; a2 altered to x2 under its old hash and signature;
\* an altered a1 that claims another hash; a broken signature; a refused and an
\* unknown key.
MCRecords ==
    {Signed(c) : c \in MCContent}
    \cup {Rec("x2", "a2", "usable", FALSE), Rec("r1", "a1", "usable", FALSE),
          Rec("a3", "a3", "usable", FALSE), Rec("a1", "a1", "refused", TRUE),
          Rec("b1", "b1", "unknown", FALSE)}
=============================================================================
