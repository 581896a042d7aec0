----------------------------- MODULE Collector -----------------------------
(***************************************************************************)
(* pqc_evidence/collector.py: verify_stream over any stream of lines, the  *)
(* records of several nodes mixed, altered, repeated, reordered or left    *)
(* out.  Each action is one turn of its loop; a blank line changes nothing *)
(* and has no action.                                                      *)
(***************************************************************************)
EXTENDS Verifier, Sequences, FiniteSets

CONSTANTS
    Records,     \* the records that may occur in a stream
    MaxTracked,  \* MAX_TRACKED_HASHES
    MaxLines     \* bound: lines of a stream

ASSUME CollectorAssumption ==
    /\ Records \subseteq SignedEvent
    /\ MaxTracked \in Nat \ {0}
    /\ MaxLines \in Nat

VARIABLES
    position,   \* each node's tracker.position; a tracker not made yet is as new
    seenSeq,    \* its seen_sequences, a set of <<sequence, hash>>
    seenHash,   \* its seen_hashes
    exhausted,  \* its tracking_exhausted
    report,     \* counters and valid of the StreamReport
    alerts,     \* the keys of alert_counts, by node
    status,     \* "reading", "returned", or "raised" VerifierError
    hist,       \* ghost: the records of each node, in the order read
    verified    \* ghost: the contents that were counted as verified

vars == <<position, seenSeq, seenHash, exhausted, report, alerts, status, hist, verified>>
trackers == <<position, seenSeq, seenHash, exhausted>>

Report == [total : Nat, verified : Nat, failed : Nat, malformed : Nat, valid : BOOLEAN]

Init ==
    /\ position = [n \in Node |-> Start]
    /\ seenSeq = [n \in Node |-> {}]
    /\ seenHash = [n \in Node |-> {}]
    /\ exhausted = [n \in Node |-> FALSE]
    /\ report = [total |-> 0, verified |-> 0, failed |-> 0, malformed |-> 0, valid |-> TRUE]
    /\ alerts = [n \in Node |-> {}]
    /\ status = "reading"
    /\ hist = [n \in Node |-> << >>]
    /\ verified = {}

----------------------------------------------------------------------------
(* _NodeTracker.note *)

\* seen_sequences is a dictionary: at most one hash for a sequence.
SeenAt(n, seq) == {h \in Hash : <<seq, h>> \in seenSeq[n]}

NoteAlerts(n, e) ==
    LET old == SeenAt(n, SeqOf[e.content]) IN
    {a \in {"pqc_replayed_event"} :
        \/ e.event_hash \in old
        \/ old = {} /\ e.event_hash \in seenHash[n]}
    \cup {a \in {"pqc_duplicate_sequence"} : \E h \in old : h # e.event_hash}
    \cup {a \in {"pqc_malformed_evidence"} : Cardinality(seenHash[n]) >= MaxTracked /\ ~exhausted[n]}

\* The claimed hash is remembered, until MAX_TRACKED_HASHES are.
Note(n, e) ==
    IF Cardinality(seenHash[n]) < MaxTracked
    THEN /\ seenSeq' = [seenSeq EXCEPT ![n] = {s \in @ : s[1] # SeqOf[e.content]}
                                              \cup {<<SeqOf[e.content], e.event_hash>>}]
         /\ seenHash' = [seenHash EXCEPT ![n] = @ \cup {e.event_hash}]
         /\ UNCHANGED exhausted
    ELSE /\ exhausted' = [exhausted EXCEPT ![n] = TRUE]
         /\ UNCHANGED <<seenSeq, seenHash>>

----------------------------------------------------------------------------
(* verify_stream *)

Reading == status = "reading" /\ report.total < MaxLines

\* Errors of record e, against its node's tracker
Errors(n, e) == VerifyEvent(e) \cup CheckChain(position[n], e) \cup NoteAlerts(n, e)

\* Mutant: the cursor moves for records that verify only.
MovesIfValid(n, e) ==
    SeqOf[e.content] = NextSequence(position[n]) /\ Errors(n, e) = {}

\* The cursor moves whenever the record sits at the expected sequence.
Moves(n, e) == SeqOf[e.content] = NextSequence(position[n])

\* The report after a record that parsed.
Counted(r, ok) ==
    [total |-> r.total + 1, verified |-> r.verified + (IF ok THEN 1 ELSE 0),
     failed |-> r.failed + (IF ok THEN 0 ELSE 1), malformed |-> r.malformed,
     valid |-> r.valid /\ ok]

\* A line that parses as record e of node n.
ReadRecord(n, e) ==
    /\ Reading
    /\ NodeOf[e.content] = n
    /\ Note(n, e)
    /\ position' = [position EXCEPT ![n] = IF Moves(n, e) THEN Advance(@, e) ELSE @]
    /\ report' = Counted(report, Errors(n, e) = {})
    /\ alerts' = [alerts EXCEPT ![n] = @ \cup Errors(n, e)]
    /\ hist' = [hist EXCEPT ![n] = Append(@, e)]
    /\ verified' = IF Errors(n, e) = {} THEN verified \cup {e.content} ELSE verified
    /\ UNCHANGED status

\* A line that is oversized or does not parse is counted and left alone.
ReadUnreadable ==
    /\ Reading
    /\ report' = [report EXCEPT !.total = @ + 1, !.failed = @ + 1, !.malformed = @ + 1,
                                !.valid = FALSE]
    /\ UNCHANGED <<trackers, alerts, status, hist, verified>>

\* The backend is missing or fails: VerifierError, and no report.
BackendFails(e) ==
    /\ Reading
    /\ e.key # "unknown"
    /\ status' = "raised"
    /\ UNCHANGED <<trackers, report, alerts, hist, verified>>

\* The end of the stream
Return ==
    /\ status = "reading"
    /\ status' = "returned"
    /\ UNCHANGED <<trackers, report, alerts, hist, verified>>

Next ==
    \/ \E n \in Node, e \in Records : ReadRecord(n, e)
    \/ ReadUnreadable
    \/ \E e \in Records : BackendFails(e)
    \/ Return

Spec == Init /\ [][Next]_vars

----------------------------------------------------------------------------
(* Properties *)

TypeOK ==
    /\ position \in [Node -> ChainPosition]
    /\ seenSeq \in [Node -> SUBSET (Nat \X Hash)]
    /\ seenHash \in [Node -> SUBSET Hash]
    /\ exhausted \in [Node -> BOOLEAN]
    /\ report \in Report
    /\ alerts \in [Node -> SUBSET Alert]
    /\ status \in {"reading", "returned", "raised"}
    /\ hist \in [Node -> Seq(SignedEvent)]
    /\ verified \subseteq Content

\* The record is what a trusted key signed.
Intact(e) == e.event_hash = e.content /\ e.key = "usable" /\ e.sig

\* s is an unaltered, complete chain of node n from its genesis on, short
\* enough to be tracked.
Genuine(n, s) ==
    /\ Len(s) <= MaxTracked
    /\ \A i \in 1..Len(s) :
          /\ Intact(s[i])
          /\ SeqOf[s[i].content] = i
          /\ PrevOf[s[i].content] = IF i = 1 THEN Genesis[n] ELSE s[i - 1].content

\* verify_stream answers for the stream as a whole: its report is valid exactly
\* when every line parsed and the records of every node are, in the order they
\* came, an unaltered chain that starts at the genesis and leaves nothing out.
ReportIsRight ==
    report.valid <=> report.malformed = 0 /\ \A n \in Node : Genuine(n, hist[n])

\* A repeated, forked or replayed record is never counted as verified again,
\* also after replay tracking is exhausted.
VerifiedOnce == report.verified = Cardinality(verified)

\* A record counted as verified continues a record that is in the stream before
\* it: what it names as the previous hash is recomputed from that content, never
\* a hash an altered record claims.
VerifiedContinues ==
    \A c \in verified :
        \/ SeqOf[c] = 1 /\ PrevOf[c] = Genesis[NodeOf[c]]
        \/ \E i \in 1..Len(hist[NodeOf[c]]) :
              /\ hist[NodeOf[c]][i].content = PrevOf[c]
              /\ SeqOf[PrevOf[c]] = SeqOf[c] - 1

\* Records of a node that come with the sequences 1, 2, 3, ... raise no sequence
\* gap, whatever else was done to them.
NoGapWithoutGap ==
    \A n \in Node :
        (\A i \in 1..Len(hist[n]) : SeqOf[hist[n][i].content] = i)
        => "pqc_sequence_gap" \notin alerts[n]
=============================================================================
