--------------------------- MODULE EvidenceStore ---------------------------
(***************************************************************************)
(* pqc_evidence/evidence_store.py and its callers in signer.py: signers of *)
(* one node share a lock file, a write-ahead journal, the evidence log and *)
(* the chain state.  Every durable effect (truncating the journal, filling *)
(* it, each part of an append, the state's os.replace, an unlink, a        *)
(* truncate) is a step of its own, so that a crash can fall between any    *)
(* two of them.                                                            *)
(*                                                                         *)
(* Bytes are abstracted to cells.  A record occupies three cells of the    *)
(* log: the first part of its JSON text, the rest of it, and the newline.  *)
(* That tells apart everything the code tells apart: nothing written, a    *)
(* torn JSON text, a complete text without its newline, a complete line.   *)
(***************************************************************************)
EXTENDS Integers, Sequences

CONSTANTS
    Proc,       \* signers, each with a store object of its own
    Ops,        \* the entry points used: "sign" (with-block), "repair" (recover-state)
    Faults,     \* the kinds of failure that may happen, a subset of FaultKinds
    MaxFaults,  \* bound: how many failures happen in a behaviour
    MaxMinted,  \* bound: how many records are signed in a behaviour
    Free        \* value of lock when no open file description holds it

FaultKinds == {"crash",     \* the process is killed, at any point
               "lock",      \* the lock file is refused (symlink, owner, open error)
               "sign",      \* build_and_sign raises
               "journal",   \* OSError while opening or writing the journal
               "append",    \* OSError while opening, writing or syncing the log
               "rollback",  \* OSError truncating in _rollback, which suppresses it
               "truncate",  \* OSError truncating in recovery, which raises it
               "unlink",    \* OSError unlinking the journal, suppressed
               "state",     \* OSError while writing the state file
               "loss",      \* the log loses its tail behind the store's back
               "rot",       \* the state file is damaged behind the store's back
               "erase"}     \* the state file is deleted behind the store's back

ASSUME ConstantsAssumption ==
    /\ Free \notin Proc
    /\ Ops \subseteq {"sign", "repair"}
    /\ Faults \subseteq FaultKinds
    /\ MaxFaults \in Nat
    /\ MaxMinted \in Nat

VARIABLES
    lock,     \* owner of the flock, or Free
    journal,  \* <state>.journal
    log,      \* evidence.jsonl, a sequence of cells
    state,    \* the chain state file
    pc,       \* where each signer is
    op,       \* the entry point it runs
    cache,    \* its store's _state, or NoState
    rec,      \* the record its transaction signed
    off,      \* the offset its transaction recorded
    part,     \* how many cells of rec it has appended
    minted,   \* how many records have been signed; also the next event hash
    acked,    \* records append_signed returned to a caller
    orphaned, \* records whose state file was deleted after it vouched for them
    nfaults   \* failures so far

disk   == <<journal, log, state>>
locals == <<cache, rec, off, part>>
ghosts == <<minted, acked, orphaned>>
vars   == <<lock, journal, log, state, pc, op, cache, rec, off, part,
            minted, acked, orphaned, nfaults>>

----------------------------------------------------------------------------
(* Values *)

\* event_chain.genesis_previous_hash; NodeState.last_event_hash is also 0 (None).
Genesis == 0

Record == [seq : Nat, prev : Nat, hash : Nat]
NoRec  == [seq |-> 0, prev |-> 0, hash |-> 0]

\* NodeState; an absent state file reads as ZeroState (read_state).
NodeState == [kind : {"valid", "corrupt", "unread"}, seq : Nat, hash : Nat]
State(r)  == [kind |-> "valid", seq |-> r.seq, hash |-> r.hash]
ZeroState == State(NoRec)
Corrupt   == [kind |-> "corrupt", seq |-> 0, hash |-> 0]
NoState   == [kind |-> "unread", seq |-> 0, hash |-> 0]
Valid(s)  == s.kind = "valid"

\* "torn": opened with O_TRUNC and not completely written, so not valid JSON.
JournalKind == {"none", "torn", "foreign", "entry"}
Journal == [kind : JournalKind, off : Nat, rec : Record]
JournalOf(kind) == [kind |-> kind, off |-> 0, rec |-> NoRec]
NoJournal == JournalOf("none")
Entry(r, o) == [kind |-> "entry", off |-> o, rec |-> r]

Newline == 3
CellType == [rec : Record, k : 0..Newline]
Cell(r, k) == [rec |-> r, k |-> k]
Nul == Cell(NoRec, 0)

----------------------------------------------------------------------------
(* Reading and cutting the log *)

\* A line that parses as a record starts at cell i of l.  The last line may
\* lack its newline: `for line in handle` still yields it.
IsRecordAt(l, i) ==
    /\ i = 1 \/ l[i - 1].k = Newline
    /\ l[i].k = 1
    /\ i < Len(l)
    /\ l[i + 1] = Cell(l[i].rec, 2)
    /\ i + 2 > Len(l) \/ l[i + 2].k = Newline

RecordPositions(l) == {i \in 1..Len(l) : IsRecordAt(l, i)}

\* _last_logged_record: the last line that parses; NoRec (sequence 0) is None.
IsLastRecord(l, i) == i \in RecordPositions(l) /\ \A j \in RecordPositions(l) : j <= i

LastLogged(l) ==
    IF \E i \in 1..Len(l) : IsLastRecord(l, i)
    THEN l[CHOOSE i \in 1..Len(l) : IsLastRecord(l, i)].rec
    ELSE NoRec

\* Mutant: the truncate is forgotten.
NoTruncate(l, n) == l

\* _truncate_evidence: ftruncate pads with NUL bytes when the file is shorter.
Truncated(l, n) == [i \in 1..n |-> IF i <= Len(l) THEN l[i] ELSE Nul]

\* Mutant: any growth past the offset counts as a completed append.
AppendStarted(l, j) == Len(l) > j.off

\* _replay_journal's byte comparison at the recorded offset.
AppendCompleted(l, j) ==
    /\ Len(l) >= j.off + Newline
    /\ \A k \in 1..Newline : l[j.off + k] = Cell(j.rec, k)

\* Mutant: every record names the genesis hash.
AlwaysGenesis(seq, last) == Genesis

\* event_chain.expected_previous_hash
ExpectedPreviousHash(seq, last) == IF seq = 1 THEN Genesis ELSE last

\* signer._build_and_sign: a new record after state s; its hash is new because
\* it covers the timestamp and the event.
SignedRecord(s, h) ==
    [seq |-> s.seq + 1, prev |-> ExpectedPreviousHash(s.seq + 1, s.hash), hash |-> h]

\* Mutant: a damaged state file reads as a fresh one.
ReadDamagedAsFresh(p) ==
    IF cache[p] # NoState THEN cache[p] ELSE IF Valid(state) THEN state ELSE ZeroState

\* read_state: the cached value if there is one, else the file.
ReadState(p) == IF cache[p] = NoState THEN state ELSE cache[p]

----------------------------------------------------------------------------
Init ==
    /\ lock = Free
    /\ journal \in {NoJournal, JournalOf("foreign")}
    /\ log = << >>
    /\ state = ZeroState
    /\ pc = [p \in Proc |-> "idle"]
    /\ op = [p \in Proc |-> "sign"]
    /\ cache = [p \in Proc |-> NoState]
    /\ rec = [p \in Proc |-> NoRec]
    /\ off = [p \in Proc |-> 0]
    /\ part = [p \in Proc |-> 0]
    /\ minted = 0
    /\ acked = {}
    /\ orphaned = {}
    /\ nfaults = 0

Goto(p, label) == pc' = [pc EXCEPT ![p] = label]

\* A failure of the given kind happens in this step.
Fault(kind) ==
    /\ kind \in Faults
    /\ nfaults < MaxFaults
    /\ nfaults' = nfaults + 1

\* The store object is dropped; the next call makes a new one.
ForgetStore(p) ==
    /\ cache' = [cache EXCEPT ![p] = NoState]
    /\ rec' = [rec EXCEPT ![p] = NoRec]
    /\ off' = [off EXCEPT ![p] = 0]
    /\ part' = [part EXCEPT ![p] = 0]

----------------------------------------------------------------------------
(* acquire and release *)

\* sign_event, sign_events, status, the sink's start-up check ("sign"), or
\* repair_state_from_log ("repair"), makes a store and asks for the lock.
Begin(p, o) ==
    /\ pc[p] = "idle"
    /\ Goto(p, "waiting")
    /\ op' = [op EXCEPT ![p] = o]
    /\ UNCHANGED <<lock, nfaults, disk, locals, ghosts>>

\* Mutant: the lock does not exclude.
NoExclusion == TRUE

LockAvailable == lock = Free

Acquire(p) ==
    /\ pc[p] = "waiting"
    /\ LockAvailable
    /\ lock' = p
    /\ Goto(p, "recover")
    /\ UNCHANGED <<op, nfaults, disk, locals, ghosts>>

\* Mutant: _lock_exclusive polls without looking at the deadline.
WaitsForEver(p) ==
    /\ pc[p] = "waiting"
    /\ \/ lock # Free /\ UNCHANGED <<pc, nfaults>>
       \/ Fault("lock") /\ Goto(p, "idle")
    /\ UNCHANGED <<lock, op, disk, locals, ghosts>>

\* StateLockError: the deadline passes while somebody holds the lock, or the
\* lock file itself is refused.
AcquireFails(p) ==
    /\ pc[p] = "waiting"
    /\ \/ lock # Free /\ UNCHANGED nfaults
       \/ Fault("lock")
    /\ Goto(p, "idle")
    /\ UNCHANGED <<lock, op, disk, locals, ghosts>>

\* __exit__, or the finally of repair_state_from_log.
Release(p) ==
    /\ pc[p] \in {"ready", "release"}
    /\ lock' = Free
    /\ Goto(p, "idle")
    /\ ForgetStore(p)
    /\ UNCHANGED <<op, nfaults, disk, ghosts>>

\* recover raises.  Under repair_state_from_log the exception is suppressed.
\* Otherwise it leaves __enter__, so the with statement never calls __exit__:
\* the store object goes away and its file descriptor, hence the lock, stays.
\* read is the state the store had cached by then.
RecoverRaises(p, read) ==
    IF op[p] = "repair"
    THEN /\ Goto(p, "repair")
         /\ cache' = [cache EXCEPT ![p] = read]
         /\ UNCHANGED <<rec, off, part>>
    ELSE Goto(p, "idle") /\ ForgetStore(p)

----------------------------------------------------------------------------
(* recover: _replay_journal, then _check_state_against_log *)

ReplayNothing(p) ==
    /\ pc[p] = "recover"
    /\ journal.kind = "none"
    /\ Goto(p, "check")
    /\ UNCHANGED <<lock, op, nfaults, disk, locals, ghosts>>

\* Mutant: an unusable journal is passed over and not removed.
KeepJournal(p) ==
    /\ pc[p] = "recover"
    /\ journal.kind \in {"torn", "foreign"}
    /\ Goto(p, "check")
    /\ UNCHANGED <<lock, op, nfaults, disk, locals, ghosts>>

\* discarded_unreadable_journal, discarded_foreign_journal
DiscardJournal(p) ==
    /\ pc[p] = "recover"
    /\ journal.kind \in {"torn", "foreign"}
    /\ Goto(p, "recover_drop")
    /\ UNCHANGED <<lock, op, nfaults, disk, locals, ghosts>>

\* completed_commit, already_committed, or a failure to read or write the state
ReplayCommit(p) ==
    LET s == ReadState(p) IN
    /\ pc[p] = "recover"
    /\ journal.kind = "entry"
    /\ AppendCompleted(log, journal)
    /\ UNCHANGED <<lock, op, journal, log, ghosts>>
    /\ \/ /\ Valid(s) /\ s.seq < journal.rec.seq
          /\ state' = State(journal.rec)
          /\ cache' = [cache EXCEPT ![p] = State(journal.rec)]
          /\ Goto(p, "recover_drop")
          /\ UNCHANGED <<rec, off, part, nfaults>>
       \/ /\ Valid(s) /\ s.seq >= journal.rec.seq
          /\ cache' = [cache EXCEPT ![p] = s]
          /\ Goto(p, "recover_drop")
          /\ UNCHANGED <<state, rec, off, part, nfaults>>
       \/ /\ \/ ~Valid(s) /\ UNCHANGED nfaults
             \/ Valid(s) /\ s.seq < journal.rec.seq /\ Fault("state")
          /\ RecoverRaises(p, IF Valid(s) THEN s ELSE cache[p])
          /\ UNCHANGED state

\* rolled_back_partial_append; an OSError of the truncate leaves recover
ReplayRollback(p) ==
    /\ pc[p] = "recover"
    /\ journal.kind = "entry"
    /\ ~AppendCompleted(log, journal)
    /\ UNCHANGED <<lock, op, journal, state, ghosts>>
    /\ \/ /\ log' = Truncated(log, journal.off)
          /\ Goto(p, "recover_drop")
          /\ UNCHANGED <<locals, nfaults>>
       \/ /\ Fault("truncate")
          /\ RecoverRaises(p, cache[p])
          /\ UNCHANGED log

\* What recover goes on to: the block's body, or repair_from_log.
AfterRecover(p) == IF op[p] = "repair" THEN "repair" ELSE "ready"

\* _check_state_against_log.  At sequence 0 the log is not looked at.
CheckState(p) ==
    LET s == ReadState(p)  tail == LastLogged(log) IN
    /\ pc[p] = "check"
    /\ UNCHANGED <<lock, op, journal, log, ghosts>>
    /\ \/ /\ Valid(s) /\ (s.seq = 0 \/ tail.seq = s.seq)
          /\ cache' = [cache EXCEPT ![p] = s]
          /\ Goto(p, AfterRecover(p))
          /\ UNCHANGED <<state, rec, off, part, nfaults>>
       \/ /\ Valid(s) /\ s.seq > 0 /\ tail.seq > s.seq
          /\ state' = State(tail)
          /\ cache' = [cache EXCEPT ![p] = State(tail)]
          /\ Goto(p, AfterRecover(p))
          /\ UNCHANGED <<rec, off, part, nfaults>>
       \/ /\ \/ (~Valid(s) \/ tail.seq < s.seq) /\ UNCHANGED nfaults
             \/ Valid(s) /\ s.seq > 0 /\ tail.seq > s.seq /\ Fault("state")
          /\ RecoverRaises(p, IF Valid(s) THEN s ELSE cache[p])
          /\ UNCHANGED state

----------------------------------------------------------------------------
(* append_signed *)

Sign(p) ==
    LET r == SignedRecord(ReadState(p), minted + 1) IN
    /\ pc[p] = "ready"
    /\ minted < MaxMinted
    /\ minted' = minted + 1
    /\ rec' = [rec EXCEPT ![p] = r]
    /\ off' = [off EXCEPT ![p] = Len(log)]
    /\ part' = [part EXCEPT ![p] = 0]
    /\ Goto(p, "journal_open")
    /\ UNCHANGED <<lock, op, cache, acked, orphaned, nfaults, disk>>

SignFails(p) ==
    /\ pc[p] = "ready"
    /\ Fault("sign")
    /\ Goto(p, "release")
    /\ UNCHANGED <<lock, op, disk, locals, ghosts>>

\* _write_journal: os.open with O_TRUNC empties the file ...
OpenJournal(p) ==
    /\ pc[p] = "journal_open"
    /\ journal' = JournalOf("torn")
    /\ Goto(p, "journal_fill")
    /\ UNCHANGED <<lock, op, log, state, nfaults, locals, ghosts>>

\* ... and json.dump + fsync completes it.
FillJournal(p) ==
    /\ pc[p] = "journal_fill"
    /\ journal' = Entry(rec[p], off[p])
    /\ Goto(p, "append")
    /\ UNCHANGED <<lock, op, log, state, nfaults, locals, ghosts>>

\* The OSError of os.open leaves _write_journal as it is; one of the write or the
\* fsync becomes TransactionAborted, with the text all written or not.
JournalFails(p) ==
    /\ Fault("journal")
    /\ \/ /\ pc[p] = "journal_open"
          /\ UNCHANGED journal
       \/ /\ pc[p] = "journal_fill"
          /\ journal' \in {journal, Entry(rec[p], off[p])}
    /\ Goto(p, "release")
    /\ UNCHANGED <<lock, op, log, state, locals, ghosts>>

\* One more part of the record reaches the file.
AppendPart(p) ==
    /\ pc[p] = "append"
    /\ part[p] < Newline
    /\ log' = Append(log, Cell(rec[p], part[p] + 1))
    /\ part' = [part EXCEPT ![p] = @ + 1]
    /\ UNCHANGED <<lock, op, pc, journal, state, cache, rec, off, nfaults, ghosts>>

SyncLog(p) ==
    /\ pc[p] = "append"
    /\ part[p] = Newline
    /\ Goto(p, "commit")
    /\ UNCHANGED <<lock, op, nfaults, disk, locals, ghosts>>

AppendFails(p) ==
    /\ pc[p] = "append"
    /\ Fault("append")
    /\ Goto(p, "rollback")
    /\ UNCHANGED <<lock, op, disk, locals, ghosts>>

\* _rollback's truncate; an OSError is suppressed.
Rollback(p) ==
    /\ pc[p] = "rollback"
    /\ \/ /\ log' = IF Len(log) > off[p] THEN Truncated(log, off[p]) ELSE log
          /\ UNCHANGED nfaults
       \/ /\ Len(log) > off[p]
          /\ Fault("rollback")
          /\ UNCHANGED log
    /\ Goto(p, "rollback_drop")
    /\ UNCHANGED <<lock, op, journal, state, locals, ghosts>>

CommitState(p) ==
    /\ pc[p] = "commit"
    /\ state' = State(rec[p])
    /\ cache' = [cache EXCEPT ![p] = State(rec[p])]
    /\ Goto(p, "drop")
    /\ UNCHANGED <<lock, op, journal, log, rec, off, part, nfaults, ghosts>>

CommitFails(p) ==
    /\ pc[p] = "commit"
    /\ Fault("state")
    /\ Goto(p, "release")
    /\ UNCHANGED <<lock, op, disk, locals, ghosts>>

\* _drop_journal at its three call sites; an OSError is suppressed.  After
\* "drop" append_signed returns; a batch goes on to its next event.
DropJournal(p) ==
    /\ \/ journal' = NoJournal /\ UNCHANGED nfaults
       \/ journal.kind # "none" /\ Fault("unlink") /\ UNCHANGED journal
    /\ \/ /\ pc[p] = "recover_drop"
          /\ Goto(p, "check")
          /\ UNCHANGED acked
       \/ /\ pc[p] = "rollback_drop"
          /\ Goto(p, "release")
          /\ UNCHANGED acked
       \/ /\ pc[p] = "drop"
          /\ Goto(p, "ready")
          /\ acked' = acked \union {rec[p]}
    /\ UNCHANGED <<lock, op, log, state, locals, minted, orphaned>>

----------------------------------------------------------------------------
(* repair_from_log, the recover-state command *)

\* Mutant: the log's first record instead of its last.
RepairedToFirst(p) == IF log = << >> THEN ZeroState ELSE State(log[1].rec)

\* The state repair_from_log writes: whatever the log's last record says.
RepairedState(p) == State(LastLogged(log))

\* EvidenceStateDivergence; an unreadable state counts as sequence 0.
RepairRefused(p) == ReadState(p).seq > 0 /\ LastLogged(log) = NoRec

Repair(p) ==
    /\ pc[p] = "repair"
    /\ Goto(p, "release")
    /\ UNCHANGED <<lock, op, journal, log, rec, off, part, ghosts>>
    /\ \/ /\ RepairRefused(p)
          /\ UNCHANGED <<state, cache, nfaults>>
       \/ /\ ~RepairRefused(p)
          /\ state' = RepairedState(p)
          /\ cache' = [cache EXCEPT ![p] = RepairedState(p)]
          /\ UNCHANGED nfaults
       \/ /\ ~RepairRefused(p)
          /\ Fault("state")
          /\ cache' = [cache EXCEPT ![p] = NoState]
          /\ UNCHANGED state

----------------------------------------------------------------------------
(* The environment *)

\* The process is killed: the kernel closes its files, which frees the lock.
Crash(p) ==
    /\ pc[p] # "idle"
    /\ Fault("crash")
    /\ lock' = IF lock = p THEN Free ELSE lock
    /\ Goto(p, "idle")
    /\ ForgetStore(p)
    /\ UNCHANGED <<op, disk, ghosts>>

\* An idle process that still holds the lock ends.
Exit(p) ==
    /\ pc[p] = "idle"
    /\ lock = p
    /\ lock' = Free
    /\ UNCHANGED <<pc, op, nfaults, disk, locals, ghosts>>

LoseTail ==
    /\ Fault("loss")
    /\ \E n \in 0..(Len(log) - 1) : log' = SubSeq(log, 1, n)
    /\ UNCHANGED <<lock, pc, op, journal, state, locals, ghosts>>

DamageState ==
    /\ Fault("rot")
    /\ state.seq > 0
    /\ state' = Corrupt
    /\ UNCHANGED <<lock, pc, op, journal, log, locals, ghosts>>

\* A state file that is not there reads as sequence 0, and _check_state_against_log
\* does not look at the log then: nothing vouches any more for the records
\* acknowledged, or just committed, under the deleted file.
EraseState ==
    /\ Fault("erase")
    /\ state # ZeroState
    /\ state' = ZeroState
    /\ orphaned' = acked \union {rec[p] : p \in {q \in Proc : pc[q] = "drop"}}
    /\ UNCHANGED <<lock, pc, op, journal, log, locals, minted, acked>>

----------------------------------------------------------------------------
Recover(p) == ReplayNothing(p) \/ DiscardJournal(p) \/ ReplayCommit(p)
                \/ ReplayRollback(p) \/ CheckState(p)

Transact(p) == Sign(p) \/ SignFails(p) \/ OpenJournal(p) \/ FillJournal(p)
                 \/ JournalFails(p) \/ AppendPart(p) \/ SyncLog(p) \/ AppendFails(p)
                 \/ Rollback(p) \/ CommitState(p) \/ CommitFails(p)

\* The steps a running signer takes by itself.
Step(p) == Acquire(p) \/ AcquireFails(p) \/ Recover(p) \/ Transact(p)
             \/ DropJournal(p) \/ Repair(p) \/ Release(p)

Next ==
    \/ \E p \in Proc : \/ \E o \in Ops : Begin(p, o)
                       \/ Step(p)
                       \/ Crash(p)
                       \/ Exit(p)
    \/ LoseTail
    \/ DamageState
    \/ EraseState

Spec == Init /\ [][Next]_vars

----------------------------------------------------------------------------
(* Properties *)

Labels == {"idle", "waiting", "recover", "recover_drop", "check", "ready",
           "journal_open", "journal_fill", "append", "rollback", "rollback_drop",
           "commit", "drop", "repair", "release"}

\* Every variable of the store keeps its type.
TypeOK ==
    /\ lock \in Proc \union {Free}
    /\ journal \in Journal
    /\ log \in Seq(CellType)
    /\ state \in NodeState
    /\ pc \in [Proc -> Labels]
    /\ op \in [Proc -> {"sign", "repair"}]
    /\ cache \in [Proc -> NodeState]
    /\ rec \in [Proc -> Record]
    /\ off \in [Proc -> Nat]
    /\ part \in [Proc -> 0..Newline]
    /\ minted \in Nat
    /\ acked \subseteq Record
    /\ orphaned \subseteq Record
    /\ nfaults \in Nat

\* p is between acquire and release.
InBlock(p) == pc[p] \notin {"idle", "waiting"}

\* Concurrency guarantee "No committed state without a durable record": every
\* sequence number the state file claims has a readable line in the log, and
\* the state's hash is that of the last one.
CommittedIsDurable ==
    Valid(state) =>
        /\ \A n \in 1..state.seq : \E i \in RecordPositions(log) : log[i].rec.seq = n
        /\ state.seq > 0 => \E i \in RecordPositions(log) :
                             State(log[i].rec) = state

\* Concurrency guarantees "File order is sequence order" and "A sequence number
\* is used at most once": the readable lines of the log, read from the top,
\* carry 1, 2, 3, ... and each names the hash of the line before it.
FileOrderIsSequenceOrder ==
    \A i \in RecordPositions(log) :
        LET before == {j \in RecordPositions(log) : j < i} IN
        IF before = {}
        THEN log[i].rec.seq = 1 /\ log[i].rec.prev = Genesis
        ELSE \E j \in before : /\ \A k \in before : k <= j
                               /\ log[i].rec.seq = log[j].rec.seq + 1
                               /\ log[i].rec.prev = log[j].rec.hash

\* A record that sign_event returned to its caller stays readable in the log,
\* and is the only one with its sequence number.
AckedIsDurable ==
    \A r \in acked : /\ \E i \in RecordPositions(log) : log[i].rec = r
                     /\ \A i \in RecordPositions(log) :
                            log[i].rec.seq = r.seq => log[i].rec = r

\* Whatever tail the log loses and however the state file is damaged, as long as
\* nobody runs recover-state: a record being written never takes the sequence
\* number of one a caller was given.  Deleting the state file voids the promise for
\* the records given out until then (docs/pqc-threat-model.md says so), not for
\* later ones.
AckedSequenceNeverReissued ==
    \A p \in Proc, r \in acked \ orphaned :
        pc[p] \in {"journal_open", "journal_fill", "append", "commit", "drop"} =>
            rec[p].seq > r.seq \/ rec[p] = r

\* No step of the store takes the chain state back to an earlier sequence
\* number: _write_state is only ever called with a higher or an equal one.
StateNeverRewinds ==
    [][Valid(state) /\ Valid(state') => state'.seq >= state.seq]_vars

\* Once a line of the log is complete and committed, no truncate, rollback or
\* recovery touches its cells again.
CommittedLinesImmutable ==
    [][\A i \in 1..Len(log) : i <= Newline * state.seq
                             => i <= Len(log') /\ log'[i] = log[i]]_vars

\* The records the state file vouches for, read from the log.
CommittedChain ==
    [n \in 1..state.seq |->
        LET i == Newline * (n - 1) + 1 IN IF i <= Len(log) THEN log[i].rec ELSE NoRec]

Chain == INSTANCE EvidenceChain WITH
             Hash <- 0..MaxMinted, chain <- CommittedChain, acked <- acked

\* The store implements the append-only, hash-linked chain of EvidenceChain.
ImplementsChain == Chain!ChainSpec

----------------------------------------------------------------------------
(* Progress.  A signer's own steps are taken by a running thread, so each    *)
(* signer is weakly fair; calls, crashes and damage are not.                 *)

FairSpec == Spec /\ \A p \in Proc : WF_vars(Step(p))

\* Every call returns or raises: no signer waits for ever on the lock.
CallsReturn == \A p \in Proc : pc[p] = "waiting" ~> pc[p] = "idle"

\* Honeypot events keep arriving, so stores keep being opened.
BusySpec == FairSpec /\ \A p \in Proc : WF_vars(\E o \in Ops : Begin(p, o))

\* p left its block with the lock still in its hands: recover raised.
Leaked == \E p \in Proc : lock = p /\ ~InBlock(p)

\* No interrupted transaction stays unresolved: unless a recovery that raised
\* holds the lock, again and again the journal is gone and the state is level
\* with the log.
InterruptionsResolved ==
    []<>(Leaked \/ (/\ journal.kind = "none" /\ Valid(state)
                    /\ state.seq \in {0, LastLogged(log).seq}))
=============================================================================
