----------------------------- MODULE StateStore -----------------------------
(***************************************************************************)
(* pqc_evidence/state_store.py: the locked, atomically replaced state file *)
(* of one node.  Every process keeps one StateStore object and opens it    *)
(* for one with-block after another.  Processes are killed, writes fail,   *)
(* the machine loses power, the file is damaged.                           *)
(***************************************************************************)
EXTENDS Naturals

CONSTANTS
    Proc,
    Free,       \* value of the lock nobody holds
    Torn,       \* a file that from_dict or the JSON parser refuses; None in the cache
    Absent,     \* no temporary file
    MaxSeq,     \* bound: sequence numbers
    MaxEras,    \* bound: resets
    MaxEvents,  \* bound: events
    MaxFaults   \* bound: failures, kills and losses

ASSUME StateStoreAssumption ==
    /\ Free \notin Proc
    /\ MaxSeq \in Nat /\ MaxEras \in Nat /\ MaxEvents \in Nat /\ MaxFaults \in Nat

\* NodeState, with the chain it belongs to: reset starts another one.  The absent
\* file reads as the zero state.
NodeState == [era : 0..MaxEras, seq : 0..MaxSeq, event : Nat]
Fresh(e) == [era |-> e, seq |-> 0, event |-> 0]
ASSUME TornAssumption == Torn \notin NodeState

VARIABLES
    lock,
    pc,        \* where each process is in its block
    op,        \* what it is writing for
    cache,     \* StateStore._state, which outlives the block
    next,      \* the state being written
    tmp,       \* the temporary file: what it reads as, what the disk has of it
    file,      \* the state file
    versions,  \* what it may be after a power loss
    acked,     \* states whose commit returned (history)
    exposed,   \* those whose rename the disk may not have yet (history)
    forgotten, \* those the power took back because of that, and those a blind commit
               \* wrote over (history)
    damaged,   \* the file was damaged, and nothing replaced it for good (history)
    minted,    \* events committed so far, each its own hash
    eras,      \* chains started so far
    faults

vars == <<lock, pc, op, cache, next, tmp, file, versions, acked, exposed, forgotten,
          damaged, minted, eras, faults>>
disk == <<file, versions, damaged>>
history == <<acked, exposed, forgotten>>

Valid(s) == s # Torn

Init ==
    /\ lock = Free
    /\ pc = [p \in Proc |-> "idle"]
    /\ op = [p \in Proc |-> "other"]
    /\ cache = [p \in Proc |-> Torn]
    /\ next = [p \in Proc |-> Fresh(0)]
    /\ tmp = [p \in Proc |-> Absent]
    /\ file = Fresh(0) /\ versions = {Fresh(0)} /\ damaged = FALSE
    /\ acked = {} /\ exposed = {} /\ forgotten = {}
    /\ minted = 0 /\ eras = 0 /\ faults = 0

Goto(p, l) == pc' = [pc EXCEPT ![p] = l]
Fault == faults < MaxFaults /\ faults' = faults + 1

----------------------------------------------------------------------------
(* The block *)

\* acquire; when the lock is not free in time it raises and nothing has happened.
Acquire(p) ==
    /\ pc[p] = "idle" /\ lock = Free
    /\ lock' = p
    /\ Goto(p, "locked")
    /\ UNCHANGED <<op, cache, next, tmp, disk, history, minted, eras, faults>>

\* release, also when the block raises; the object keeps what it has read.
Release(p) ==
    /\ pc[p] \in {"locked", "ready", "raised"}
    /\ lock' = Free
    /\ Goto(p, "idle")
    /\ UNCHANGED <<op, cache, next, tmp, disk, history, minted, eras, faults>>

\* Mutant: what the object has read in an earlier block is good enough.
ReadCached(p) ==
    /\ pc[p] \in {"locked", "ready"}
    /\ cache' = [cache EXCEPT ![p] = IF @ = Torn THEN file ELSE @]
    /\ Goto(p, IF Valid(file) THEN "ready" ELSE "raised")
    /\ UNCHANGED <<lock, op, next, tmp, disk, history, minted, eras, faults>>

\* read; StateCorruptionError leaves the object as it was.
Read(p) ==
    /\ pc[p] \in {"locked", "ready"}
    /\ cache' = IF Valid(file) THEN [cache EXCEPT ![p] = file] ELSE cache
    /\ Goto(p, IF Valid(file) THEN "ready" ELSE "raised")
    /\ UNCHANGED <<lock, op, next, tmp, disk, history, minted, eras, faults>>

----------------------------------------------------------------------------
(* commit, reset, recover_from: what is to be written *)

\* write is called for state s.
Begin(p, o, s) ==
    /\ op' = [op EXCEPT ![p] = o]
    /\ next' = [next EXCEPT ![p] = s]
    /\ Goto(p, "create")

\* What commit compares with: the cached state, from whichever block, or else the file.
Current(p) == IF Valid(cache[p]) THEN cache[p] ELSE file

\* It is the state of an earlier block, and no longer what the file holds.
Blind(p) == pc[p] = "locked" /\ Valid(cache[p]) /\ cache[p] # file

\* The sequence number after it; any other one is refused and changes nothing.
Commit(p) ==
    LET state == Current(p) IN
    /\ pc[p] \in {"locked", "ready"}
    /\ Valid(state) /\ state.seq < MaxSeq /\ minted < MaxEvents
    /\ cache' = [cache EXCEPT ![p] = state]
    /\ minted' = minted + 1
    /\ Begin(p, IF Blind(p) THEN "blind" ELSE "commit",
             [era |-> state.era, seq |-> state.seq + 1, event |-> minted + 1])
    /\ UNCHANGED <<lock, tmp, disk, history, eras, faults>>

\* A new chain, whatever the file holds.
Reset(p) ==
    /\ pc[p] \in {"locked", "ready"} /\ eras < MaxEras
    /\ eras' = eras + 1
    /\ Begin(p, "other", Fresh(eras + 1))
    /\ UNCHANGED <<lock, cache, tmp, disk, history, minted, faults>>

\* Mutant: the position is not compared with the file's.
RecoverAnywhere(p, n) ==
    /\ pc[p] \in {"locked", "ready"} /\ Valid(file) /\ n > 0 /\ minted < MaxEvents
    /\ cache' = [cache EXCEPT ![p] = file]
    /\ minted' = minted + 1
    /\ Begin(p, "other", [era |-> file.era, seq |-> n, event |-> minted + 1])
    /\ UNCHANGED <<lock, tmp, disk, history, eras, faults>>

\* A position of the log that is not behind the file's, which is read again; about the
\* file's own position the log agrees with it.
RecoverFrom(p, n) ==
    /\ pc[p] \in {"locked", "ready"} /\ Valid(file) /\ n > 0 /\ n >= file.seq
    /\ n = file.seq \/ minted < MaxEvents
    /\ cache' = [cache EXCEPT ![p] = file]
    /\ minted' = IF n = file.seq THEN minted ELSE minted + 1
    /\ Begin(p, "other", IF n = file.seq THEN file
                         ELSE [era |-> file.era, seq |-> n, event |-> minted + 1])
    /\ UNCHANGED <<lock, tmp, disk, history, eras, faults>>

----------------------------------------------------------------------------
(* write *)

\* NamedTemporaryFile, a name of its own, and the first part of the text.
CreateTemp(p) ==
    /\ pc[p] = "create"
    /\ tmp' = [tmp EXCEPT ![p] = [text |-> Torn, disk |-> Torn]]
    /\ Goto(p, "fill")
    /\ UNCHANGED <<lock, op, cache, next, disk, history, minted, eras, faults>>

\* The rest of it, flushed to the system.
FillTemp(p) ==
    /\ pc[p] = "fill"
    /\ tmp' = [tmp EXCEPT ![p] = [text |-> next[p], disk |-> Torn]]
    /\ Goto(p, "fsync")
    /\ UNCHANGED <<lock, op, cache, next, disk, history, minted, eras, faults>>

\* Mutant: the temporary file is not synced.
SkipFsync(p) ==
    /\ pc[p] = "fsync"
    /\ Goto(p, "replace")
    /\ UNCHANGED <<lock, op, cache, next, tmp, disk, history, minted, eras, faults>>

\* os.fsync: the disk has the text.
FsyncTemp(p) ==
    /\ pc[p] = "fsync"
    /\ tmp' = [tmp EXCEPT ![p] = [text |-> @.text, disk |-> @.text]]
    /\ Goto(p, "replace")
    /\ UNCHANGED <<lock, op, cache, next, disk, history, minted, eras, faults>>

\* s belongs before t: an earlier chain, or an earlier position of the same one.
Before(s, t) == s.era < t.era \/ (s.era = t.era /\ s.seq < t.seq)

\* os.replace: the state file is the temporary one; after a power loss it may be what
\* the disk has of it, or still an older one.
Replace(p) ==
    /\ pc[p] = "replace"
    /\ file' = tmp[p].text
    /\ versions' = versions \cup {tmp[p].disk}
    /\ tmp' = [tmp EXCEPT ![p] = Absent]
    /\ forgotten' = IF op[p] = "blind"
                    THEN forgotten \cup {s \in acked : ~Before(s, next[p])} ELSE forgotten
    /\ Goto(p, "sync")
    /\ UNCHANGED <<lock, op, cache, next, damaged, acked, exposed, minted, eras, faults>>

\* The temporary file cannot be written, synced or renamed: it is unlinked.
WriteFails(p) ==
    /\ pc[p] \in {"create", "fill", "fsync", "replace"} /\ Fault
    /\ tmp' = [tmp EXCEPT ![p] = Absent]
    /\ Goto(p, "raised")
    /\ UNCHANGED <<lock, op, cache, next, disk, history, minted, eras>>

\* The write is done: the object remembers it, and a commit returns.
Return(p) ==
    /\ cache' = [cache EXCEPT ![p] = next[p]]
    /\ acked' = IF op[p] = "other" THEN acked ELSE acked \cup {next[p]}
    /\ Goto(p, "ready")

\* Mutant: the directory is not synced after the rename, though it is taken to be.
NoSync(p) ==
    /\ pc[p] = "sync"
    /\ exposed' = {}
    /\ damaged' = (damaged /\ ~Valid(file))
    /\ Return(p)
    /\ UNCHANGED <<lock, op, next, tmp, file, versions, forgotten, minted, eras, faults>>

\* _fsync_directory: the disk has the rename, and every earlier one.
SyncDirectory(p) ==
    /\ pc[p] = "sync"
    /\ versions' = {file}
    /\ exposed' = {}
    /\ damaged' = (damaged /\ ~Valid(file))
    /\ Return(p)
    /\ UNCHANGED <<lock, op, next, tmp, file, forgotten, minted, eras, faults>>

\* Its OSError is suppressed: write and commit return all the same.
SyncFails(p) ==
    /\ pc[p] = "sync" /\ Fault
    /\ exposed' = IF op[p] = "other" THEN exposed ELSE exposed \cup {next[p]}
    /\ Return(p)
    /\ UNCHANGED <<lock, op, next, tmp, disk, forgotten, minted, eras>>

\* A KeyboardInterrupt after the rename: the object still holds the old state.
Interrupted(p) ==
    /\ pc[p] = "sync" /\ Fault
    /\ Goto(p, "raised")
    /\ UNCHANGED <<lock, op, cache, next, tmp, disk, history, minted, eras>>

----------------------------------------------------------------------------
(* The environment *)

\* a is not ahead of b: an earlier chain, or a position of the same one.
Behind(a, b) == a.era < b.era \/ (a.era = b.era /\ a.seq <= b.seq)

\* A process is killed; its temporary file stays and is never used again.
Kill(p) ==
    /\ pc[p] # "idle" /\ Fault
    /\ lock' = Free
    /\ Goto(p, "idle")
    /\ cache' = [cache EXCEPT ![p] = Torn]
    /\ tmp' = [tmp EXCEPT ![p] = Absent]
    /\ UNCHANGED <<op, next, disk, history, minted, eras>>

PowerLoss ==
    /\ Fault
    /\ file' \in versions /\ versions' = {file'}
    /\ forgotten' = forgotten \cup {s \in exposed : Valid(file') /\ ~Behind(s, file')}
    /\ exposed' = {}
    /\ lock' = Free
    /\ pc' = [p \in Proc |-> "idle"]
    /\ cache' = [p \in Proc |-> Torn]
    /\ tmp' = [p \in Proc |-> Absent]
    /\ UNCHANGED <<op, next, acked, damaged, minted, eras>>

Damage ==
    /\ Fault
    /\ file' = Torn /\ versions' = {Torn} /\ damaged' = TRUE
    /\ UNCHANGED <<lock, pc, op, cache, next, tmp, history, minted, eras>>

Step(p) ==
    \/ Acquire(p) \/ Release(p) \/ Read(p) \/ Commit(p) \/ Reset(p)
    \/ \E n \in 1..MaxSeq : RecoverFrom(p, n)
    \/ CreateTemp(p) \/ FillTemp(p) \/ FsyncTemp(p) \/ Replace(p) \/ WriteFails(p)
    \/ SyncDirectory(p) \/ SyncFails(p) \/ Interrupted(p) \/ Kill(p)

Next == (\E p \in Proc : Step(p)) \/ PowerLoss \/ Damage

Spec == Init /\ [][Next]_vars

----------------------------------------------------------------------------
(* Properties *)

State == NodeState \cup {Torn}

\* Types, and that the lock is held exactly by the process that is in its block.
TypeOK ==
    /\ lock \in Proc \cup {Free}
    /\ pc \in [Proc -> {"idle", "locked", "ready", "raised", "create", "fill", "fsync",
                        "replace", "sync"}]
    /\ \A p \in Proc : lock = p <=> pc[p] # "idle"
    /\ op \in [Proc -> {"commit", "blind", "other"}]
    /\ cache \in [Proc -> State]
    /\ next \in [Proc -> NodeState]
    /\ tmp \in [Proc -> [text : State, disk : State] \cup {Absent}]
    /\ file \in State /\ versions \subseteq State /\ file \in versions
    /\ acked \subseteq NodeState /\ exposed \subseteq acked /\ forgotten \subseteq acked
    /\ damaged \in BOOLEAN
    /\ minted \in Nat /\ eras \in 0..MaxEras /\ faults \in Nat

\* "A crash leaves either the complete old state or the complete new one, never a
\* half-written file" (state_store.py:12): whatever is killed, fails or loses power
\* during a write, the file is torn only if something else damaged it.
FileStaysWhole == ~damaged => Valid(file)

\* A commit that returned survives kills, failed writes and power losses: the file is
\* never behind it, unless it is damaged.  The code makes two exceptions: a commit whose
\* failed directory sync was suppressed (_fsync_directory), which a power loss before
\* the next successful sync may take back, and one that an object which has not read in
\* its block writes over (commit keeps the _state of an earlier one).
ReturnedSurvives ==
    \A s \in acked \ forgotten : Valid(file) => Behind(s, file)

\* "The signer must never reuse a sequence number" (state_store.py:3): no number of a
\* chain is committed for two events, although other processes commit, reset and recover
\* between the blocks of an object that keeps its state.  The earlier of two may be one
\* of the exceptions above, and nothing else.
NeverReused ==
    \A s, t \in acked \ forgotten : s.era = t.era /\ s.seq = t.seq => s = t

\* "commit refuses to move the sequence backwards" (state_store.py:25), and so does
\* recover_from: only reset, in a new chain, starts at zero.  The file is taken back only
\* by a power loss over a rename that was not synced, and by a blind commit.
NeverRewinds ==
    [][Valid(file) /\ Valid(file') =>
          \/ Behind(file, file')
          \/ PowerLoss /\ versions # {file}
          \/ \E p \in Proc : op[p] = "blind" /\ Replace(p)]_vars
=============================================================================
