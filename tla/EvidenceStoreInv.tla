------------------------- MODULE EvidenceStoreInv --------------------------
(***************************************************************************)
(* The inductive invariant behind EvidenceStore's safety properties, and   *)
(* the failures under which it holds.                                      *)
(***************************************************************************)
EXTENDS EvidenceStore

\* Any number of crashes and of reported I/O errors, but no suppressed failure
\* of _rollback's truncate and no damage from outside; and recover-state is not
\* run on a log whose recovery cannot truncate.
Tolerated ==
    /\ Faults \intersect {"rollback", "loss", "rot", "erase"} = {}
    /\ "repair" \in Ops => "truncate" \notin Faults

\* The hash a record with sequence number n must name, in a log l that holds
\* the records before it.
LinkHash(l, n) == IF n = 1 THEN Genesis ELSE l[3 * n - 5].rec.hash

\* Line n of l is complete, is record n, and links to line n - 1.
CleanLine(l, n) ==
    /\ l[3 * n - 2] = Cell(l[3 * n - 2].rec, 1)
    /\ l[3 * n - 1] = Cell(l[3 * n - 2].rec, 2)
    /\ l[3 * n] = Cell(l[3 * n - 2].rec, 3)
    /\ l[3 * n - 2].rec.seq = n
    /\ l[3 * n - 2].rec.prev = LinkHash(l, n)

Clean(l, m) == Len(l) >= 3 * m /\ \A n \in 1..m : CleanLine(l, n)

\* Nothing is pending: the log ends with the record the state names.
Settled == Len(log) = 3 * state.seq

\* r is the record that may be appended next, at offset o.
NextRecord(r, o) ==
    /\ r.seq = state.seq + 1
    /\ o = 3 * state.seq
    /\ r.prev = LinkHash(log, r.seq)
    /\ r.hash \in 1..MaxMinted

\* The committed lines are clean and the state is the last of them.
CommittedInv ==
    /\ Clean(log, state.seq)
    /\ state = IF state.seq = 0 THEN ZeroState ELSE State(log[3 * state.seq - 2].rec)

\* A journal entry describes the record after the committed ones, of which the
\* log may hold a first part, or the last committed one.  Without an entry the
\* log is settled.
JournalInv ==
    IF journal.kind = "entry"
    THEN /\ \/ /\ NextRecord(journal.rec, journal.off)
               /\ Len(log) <= journal.off + 3
            \/ /\ state = State(journal.rec)
               /\ state.seq > 0
               /\ journal.off = 3 * state.seq - 3
               /\ Settled
         /\ \A k \in 1..3 : journal.off + k <= Len(log)
                              => log[journal.off + k] = Cell(journal.rec, k)
    ELSE Settled

\* What a signer inside its block knows of the files.
SignerInv(p) ==
    /\ InBlock(p) => lock = p
    /\ cache[p] \in {NoState, state}
    /\ ~InBlock(p) => cache[p] = NoState
    /\ op[p] \in Ops \union {"sign"}
    /\ pc[p] \in {"recover_drop", "check", "ready", "journal_open",
                  "journal_fill", "rollback_drop", "drop"} => Settled
    /\ pc[p] \in {"ready", "drop"} => cache[p] = state
    /\ pc[p] \in {"journal_open", "journal_fill", "append", "rollback", "commit"} =>
           NextRecord(rec[p], off[p])
    /\ pc[p] \in {"journal_open", "journal_fill"} => part[p] = 0
    /\ pc[p] = "journal_fill" => journal.kind = "torn"
    /\ pc[p] \in {"append", "rollback", "commit"} =>
           journal = Entry(rec[p], off[p])
    /\ pc[p] \in {"append", "commit"} => Len(log) = off[p] + part[p]
    /\ pc[p] = "commit" => part[p] = 3
    /\ pc[p] = "drop" => state.seq > 0 /\ rec[p] = log[3 * state.seq - 2].rec
    /\ pc[p] = "repair" => \/ Settled
                           \/ journal.kind = "entry" /\ AppendCompleted(log, journal)

\* Every acknowledged record is one of the committed lines.
AckedInv == \A r \in acked : \E n \in 1..state.seq : log[3 * n - 2].rec = r

\* The inductive invariant of the transaction protocol: the log is the clean
\* committed lines followed by at most a first part of the journalled record.
StoreInv ==
    /\ minted <= MaxMinted
    /\ CommittedInv
    /\ JournalInv
    /\ \A p \in Proc : SignerInv(p)
    /\ AckedInv
----------------------------------------------------------------------------
(* What is left of it when files may be lost or damaged and nobody runs       *)
(* recover-state.                                                            *)

\* The records a caller was given and no deletion of the state file disowned.
Vouched == acked \ orphaned

\* s vouches for every one of those.
Covers(s) == Valid(s) => \A r \in Vouched : r.seq <= s.seq

\* r would be a new record after all of them.
Fresh(r) == \A a \in Vouched : r.seq > a.seq

\* What a signer inside its block knows of the acknowledged records.
ReissueOk(p) ==
    /\ InBlock(p) => lock = p
    /\ ~InBlock(p) => cache[p] = NoState
    /\ op[p] = "sign" /\ pc[p] # "repair"
    /\ cache[p] = NoState \/ Valid(cache[p])
    /\ Covers(cache[p])
    /\ pc[p] \in {"ready", "drop"} => Valid(cache[p])
    /\ pc[p] \in {"journal_open", "journal_fill", "append", "commit", "drop"} => Fresh(rec[p])
    /\ pc[p] = "drop" => /\ cache[p] = State(rec[p])
                         /\ Valid(state) => state = State(rec[p]) \/ rec[p] \in orphaned

\* Whatever happened to the log and the state file: a state that reads as valid,
\* on disk or cached, is never behind a record it has to vouch for.
ReissueInv == Covers(state) /\ \A p \in Proc : ReissueOk(p)
=============================================================================
