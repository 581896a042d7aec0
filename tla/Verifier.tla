------------------------------ MODULE Verifier ------------------------------
(***************************************************************************)
(* pqc_evidence/verifier.py and event_chain.py: the checks of one record.  *)
(*                                                                         *)
(* A hash stands for what was hashed: the event hash of a content is the   *)
(* content itself, so two contents have the same hash only if they are the *)
(* same (SHA3-256 without collisions).  A record carries a content, the    *)
(* event hash it claims, and what the registry and the backend say of its  *)
(* key and its signature.                                                  *)
(***************************************************************************)
EXTENDS Naturals

CONSTANTS
    Node,
    Content,   \* signed content: everything compute_event_hash covers
    NodeOf,    \* node_id, sequence and previous_event_hash of a content
    SeqOf,
    PrevOf,
    Genesis,   \* genesis_previous_hash of a node
    NoHash     \* last_event_hash is None

Hash == Content \cup {Genesis[n] : n \in Node}

ASSUME ContentAssumption ==
    /\ NodeOf \in [Content -> Node]
    /\ SeqOf \in [Content -> Nat \ {0}]
    /\ PrevOf \in [Content -> Hash]
    /\ \A n \in Node : Genesis[n] \notin Content
    /\ NoHash \notin Hash

\* check_usable says "usable", names a problem of a key it knows, or does not
\* know the key.
KeyStatus == {"usable", "refused", "unknown"}

\* SignedEvent; sig: the signature verifies under the registered public key.
SignedEvent == [content : Content, event_hash : Hash, key : KeyStatus, sig : BOOLEAN]

\* compute_event_hash
ComputeEventHash(e) == e.content

\* ChainPosition
ChainPosition == [seq : Nat, hash : Hash \cup {NoHash}]
Start == [seq |-> 0, hash |-> NoHash]

NextSequence(p) == p.seq + 1

\* Mutant: the cursor follows the hash the record claims.
AdvanceByClaim(p, e) == [seq |-> SeqOf[e.content], hash |-> e.event_hash]

\* advance, with the recomputed hash
Advance(p, e) == [seq |-> SeqOf[e.content], hash |-> ComputeEventHash(e)]

\* _check_event_hash
CheckEventHash(e) == {a \in {"pqc_event_hash_mismatch"} : ComputeEventHash(e) # e.event_hash}

\* _check_key, the name of the key's problem abstracted
CheckKey(e) == {a \in {"pqc_revoked_key"} : e.key = "refused"}
               \cup {a \in {"pqc_unknown_key"} : e.key = "unknown"}

\* _check_signature: without a registered key it cannot verify.
CheckSignature(e) == {a \in {"pqc_invalid_signature"} : e.key = "unknown" \/ ~e.sig}

\* verify_event without a position, as verify_line calls it
VerifyEvent(e) == CheckEventHash(e) \cup CheckKey(e) \cup CheckSignature(e)

\* Mutants: only a gap is reported; the first record's link is not checked.
CheckChainWithoutDuplicates(p, e) ==
    {a \in {"pqc_sequence_gap"} : SeqOf[e.content] > NextSequence(p)}
CheckChainWithoutGenesis(p, e) ==
    {a \in {"pqc_duplicate_sequence"} : SeqOf[e.content] <= p.seq}
    \cup {a \in {"pqc_sequence_gap"} : SeqOf[e.content] > NextSequence(p)}
    \cup {a \in {"pqc_previous_hash_mismatch"} :
            SeqOf[e.content] # 1 /\ p.hash # NoHash /\ PrevOf[e.content] # p.hash}

\* _check_chain
CheckChain(p, e) ==
    LET seq == SeqOf[e.content]
        expected == IF seq = 1 THEN Genesis[NodeOf[e.content]] ELSE p.hash
    IN {a \in {"pqc_duplicate_sequence"} : seq < NextSequence(p) /\ seq <= p.seq}
       \cup {a \in {"pqc_sequence_gap"} : seq > NextSequence(p)}
       \cup {a \in {"pqc_chain_reset"} : seq = 1 /\ p.seq > 0}
       \cup {a \in {"pqc_previous_hash_mismatch"} :
               expected # NoHash /\ PrevOf[e.content] # expected}

Alert == {"pqc_event_hash_mismatch", "pqc_revoked_key", "pqc_unknown_key",
          "pqc_invalid_signature", "pqc_duplicate_sequence", "pqc_sequence_gap",
          "pqc_chain_reset", "pqc_previous_hash_mismatch", "pqc_replayed_event",
          "pqc_malformed_evidence"}
=============================================================================
