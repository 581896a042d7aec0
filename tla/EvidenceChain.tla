--------------------------- MODULE EvidenceChain ---------------------------
(***************************************************************************)
(* What an evidence store promises to its callers and to a later verifier: *)
(* one chain of records per node that only ever grows at its end, every    *)
(* record carrying the next sequence number and the hash of its            *)
(* predecessor, and no caller told "persisted" about a record that is not  *)
(* in the chain.  EvidenceStore.tla implements it over a lock, a journal,  *)
(* a log file and a state file.                                            *)
(***************************************************************************)
EXTENDS Integers, Sequences

CONSTANT Hash   \* the possible event hashes

VARIABLES
    chain,  \* the committed records, in order
    acked   \* the records whose append_signed returned to its caller

chainVars == <<chain, acked>>

\* The previous-hash of a first record (event_chain.py, genesis_previous_hash).
Genesis == 0

\* The hash a record appended to c must name as its predecessor.
HeadHash(c) == IF c = << >> THEN Genesis ELSE c[Len(c)].hash

ChainInit == chain = << >> /\ acked = {}

Commit(r) ==
    /\ r.seq = Len(chain) + 1
    /\ r.prev = HeadHash(chain)
    /\ chain' = Append(chain, r)
    /\ UNCHANGED acked

Acknowledge(i) ==
    /\ acked' = acked \union {chain[i]}
    /\ UNCHANGED chain

\* The record's hash is any value: it is whatever SHA3-256 makes of the event.
ChainNext ==
    \/ \E h \in Hash : Commit([seq |-> Len(chain) + 1, prev |-> HeadHash(chain), hash |-> h])
    \/ \E i \in 1..Len(chain) : Acknowledge(i)

ChainSpec == ChainInit /\ [][ChainNext]_chainVars
=============================================================================
