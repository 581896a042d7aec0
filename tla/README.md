# TLA+ models of the ICS Deception Framework

The framework runs decoys (Modbus, DNP3, telnet, SSH), reports what clients do to
them as events, and seals those events into a signed, hash-linked evidence log that
a collector can audit later. These modules model how evidence comes about and what
it is worth afterwards: the decoy that answers a client, the publisher that seals or
writes down its events, the store that keeps the chain, the keys, the collector, the
archive, and the controller that runs it all.

Paths below are relative to the repository root; `pqc_evidence/` abbreviates
`src/ics_deception/pqc_evidence/`.

## Inventory

| Component | State | Operations | Interacts with |
|---|---|---|---|
| Evidence store `pqc_evidence/evidence_store.py` | lock file, write-ahead journal, evidence log, chain state file; cached state and lock handle of each store object | acquire, recover (replay the journal, compare state and log), append_signed (journal, append, sync, commit, unlink), rollback, repair_from_log, release | called by the signer; several processes share the files |
| Event signer `signer.py` | private key, paths | sign_event, sign_events, status, repair_state_from_log | store, backends |
| Chain rules `event_chain.py` | a cursor: last sequence, last hash | genesis and expected previous hash, advance | signer, verifier |
| Record verifier `verifier.py` | none | checks of hash, key, signature, chain | registry, backends |
| Collector `collector.py` | for each node a cursor, seen sequences, seen hashes, an exhausted flag; a report | verify_one, verify_stream, verify_file | verifier |
| Key registry `key_registry.py`, with the commands of `cli.py` | the registry file; each command's copy of it | register, rotate, revoke, disable, import, export, check_usable | verifier; concurrent commands share the file |
| Evidence sink and publisher `integration.py`, `common/events.py`, `common/publisher.py` | mode, counters, last error, one shared sink for a process; the plain event log | handle, bound_event, emit | signer; every decoy and the controller |
| Archive `archive.py` | none beyond files | summarise, create, decrypt, verify, extract | collector, backends |
| Record format `models.py`, `canonicalizer.py` | none | parse, validate, canonical JSON | all of the evidence package |
| Cryptographic backends `crypto_backend.py`, `openssl_backend.py` | loaded libraries | sign, verify, encapsulate | signer, verifier, archive |
| Older state store `state_store.py` | lock file, state file | commit, reset, recover | the evidence store takes `NodeState` and two exceptions from it |
| Process supervisor `controller/process.py` | child processes, last errors, one lock | start, stop, start_autostart, stop_all, status | controller API |
| Replay manager and API `controller/app.py` | one replay slot, its reaper thread, a lock | start, active, stop, HTTP handlers | supervisor, capture replay |
| Modbus honeypot `honeypots/modbus_server.py`, `common/modbus.py` | register bank under a lock, a buffer for each client | framing, read and write registers, exceptions | publisher |
| DNP3 sensor, fake PLC, capture replay, native decoys `src/native` | per connection or per process | accept, read, answer, poll, replay | publisher, Modbus honeypot |

What is hard in this code: several processes sign for one node and may die between
any two file operations; recovery code that itself fails or dies; errors that are
suppressed; registry commands that load, change and save without a lock; streams in
which records are altered, repeated, reordered or left out; archives made of a log
that is still being written; children of the controller that exit whenever they
like, against requests, reaper threads and shutdown; TCP streams cut anywhere.
`PROJECT.json` lists the hazards line by line with the properties that cover them.

What makes the components correct:

* store: one chain for a node, in the file in order, no sequence number twice, no
  committed state without its record, no acknowledged record lost, every
  interrupted transaction finished or undone;
* registry: a revoked key stays refused, rotation keeps old events verifiable, one
  active key for a node, a file that can be loaded;
* verifier and collector: a report is valid exactly for complete, unaltered chains;
* sink: an event is sealed or written plain, never lost, and the counters say which;
* archive: the path names a whole archive or nothing, a verdict is positive exactly
  for an unaltered archive of a genuine chain that its manifest describes, nothing
  unauthenticated is published;
* state store: what a commit returned is neither lost nor issued again, and no write
  leaves half a file;
* supervisor and replay slot: at most one child for a component and one replay job,
  every request is answered, shutdown leaves nothing behind;
* Modbus honeypot and fake PLC: frames as the client sent them, no acknowledged
  sabotage without its event, no reading that the registers never held.

## Modules

| Module | Models |
|---|---|
| `EvidenceChain` | abstract specification of the store: an append-only chain and the set of acknowledged records |
| `EvidenceStore` | `evidence_store.py` and its callers in `signer.py` |
| `EvidenceStoreInv` | the inductive invariants of the store and the failures they tolerate |
| `EvidenceStoreProofs` | theorems about the store |
| `KeyRegistry`, `KeyRegistryProofs` | the registry and its commands; theorems |
| `Verifier` | the checks of one record, as operators |
| `Collector`, `CollectorProofs` | `verify_stream`; theorems |
| `EvidencePipeline`, `PipelineProofs` | the sink, the publisher and `sign_log`, several services on one chain; theorems |
| `Archive`, `ArchiveProofs` | `archive.py` and its commands, on the operators of `Verifier`; theorems |
| `StateStore`, `StateStoreProofs` | `state_store.py`; theorems |
| `Controller`, `ControllerProofs` | `controller/process.py` and `controller/app.py`; theorems |
| `ModbusServer` | `honeypots/modbus_server.py` and `common/modbus.py` |
| `FakePlc` | `iot_nodes/fake_plc.py`, composed with `ModbusServer` |
| `FieldProofs` | theorems about the honeypot and the fake PLC |
| `MC...` | constants for TLC |

Definitions preceded by a comment that begins with "Mutant" are plausible bugs of
the definition below them. No specification uses them; substituted for it they
must break a property.

### EvidenceStore

Every signer `p` has a label `pc[p]`. Each durable effect of the code is a step of
its own, so `Crash(p)` can fall between any two.

| Label | Code | Actions |
|---|---|---|
| idle, waiting | `acquire` | `Begin`, `Acquire`, `AcquireFails` |
| recover, recover_drop, check | `recover`: `_replay_journal`, `_drop_journal`, `_check_state_against_log` | `ReplayNothing`, `DiscardJournal`, `ReplayCommit`, `ReplayRollback`, `DropJournal`, `CheckState` |
| ready | body of the with-block | `Sign`, `SignFails`, `Release` |
| journal_open, journal_fill | `_write_journal` | `OpenJournal`, `FillJournal`, `JournalFails` |
| append | the append in `append_signed` and its fsync | `AppendPart`, `SyncLog`, `AppendFails` |
| rollback, rollback_drop | `_rollback` | `Rollback`, `DropJournal` |
| commit, drop | `_write_state`, `_drop_journal` | `CommitState`, `CommitFails`, `DropJournal` |
| repair, release | `repair_from_log`, `release` | `Repair`, `Release` |

Data: a record is its sequence number, the hash it names and its own hash. It takes
three cells of the log (start of the JSON text, rest of it, newline); these tell
apart what the code tells apart, namely nothing, a torn text, a text without its
newline, a complete line. A state file is valid or damaged; an absent one reads as
sequence 0, as in `read_state`. A journal is absent, torn, of another file
("foreign") or an entry.

The failures that may happen are a constant, `Faults`, so that a run says which
ones it allows, and `MaxFaults` bounds their number. Errors that the code reports
and errors that it suppresses are different kinds. `LoseTail`, `DamageState` and
`EraseState` change the files behind the store's back: the log loses its end, the
state file becomes unreadable, the state file is deleted. The last one is the worst,
since the code reads an absent file as sequence 0 and then does not compare it with
the log; `orphaned` holds the records that were acknowledged before it. A recovery that
raises inside `__enter__` leaves the lock held by an idle signer until that process
ends (`Exit`): Python does not call `__exit__` for an `__enter__` that raised.

Left out: a power loss is taken as a crash with the file contents of that moment
(the code syncs before each dependent step, except for the directory of a new
evidence log, which is listed as a hazard); an absent and an empty log are the same;
the side files `_preserve` writes; ownership and symlink checks of the lock file,
which appear as the "lock" failure; the size guard on a journal, which no journal
the code writes can reach.

### KeyRegistry

A command goes idle, loaded, changed or refused, idle. `Load` copies the file,
`RegisterKey`, `RotateKey`, `RevokeKey`, `DisableKey` and `ImportEntry` change the
copy as the methods of `KeyRegistry` do (including the previous key that stays marked
rotated in memory when `_insert` refuses the new one), `Save` replaces the file and
reports. `GiveUp` is every way to end without saving. `Problems` is `check_usable`.
A public key is held as base64 text, and a text is a key and a `Form`: `_insert`
compares texts, `PublicKeyBytes` is what the verifier uses, and an import may bring
a text other than the canonical one that `b64encode` writes.
The constant `Serial` says whether commands overlap. `disable` and `import` are
methods of the library that no command of `cli.py` calls; they are modelled like
commands. A file damaged from outside and the reading of a public key file are
abstracted to a command that gives up. Rotated keys go on being accepted for new
events; that is what `check_usable` does and what the documents promise for old
ones, since the registry cannot tell one from the other.

### Verifier and Collector

A hash is the content it was computed from, that is, SHA3-256 without collisions.
A record has a content (node, sequence, previous hash), the event hash it claims,
what `check_usable` says of its key, and whether its signature verifies.
`ReadRecord` is one turn of the loop of `verify_stream`: the checks of
`verify_line`, `_check_chain` against the cursor, `_NodeTracker.note`, the move of
the cursor and the counters. `ReadUnreadable` is an oversized line or one that does
not parse; `BackendFails` is the `VerifierError` that leaves the loop. The names of
the key's problems and the capped list of single results are left out. `hist` and
`verified` are history variables; they only record what was read.

The constant `Records` is the set of records a stream may draw on. The proofs hold
for any such set.

### EvidencePipeline

A thread goes through `emit` and `handle` label by label: bound, lock, sign, commit,
signed, persisted, raw, write. Each counter is an increment of its own, because the
code makes it so. Of the store the sink sees what `EvidenceStore` shows: a wait for
the lock that may time out, a transaction that rolls back, or one whose record stays
although the commit failed (`CommitFails`, `pending`). `StartSigning` is
`_build_signer`, which raises instead of starting without a signer. `BatchOpen`,
`BatchLine`, `BatchEnds` and `BatchAborts` are `sign_log`: the generator keeps the
lock while it waits for its source, and nothing says that the source ever delivers.
`Crash` kills a service with all its threads. Events are numbered by thread; their
fields and what `bound_event` truncates are left out.

### Archive

The log is what `EvidenceStore` makes of it, in short: `log` is the committed lines,
`pending` what a running transaction has appended behind them. `Grow` appends a torn
line, completes it, commits it, or truncates it again, as a rollback and the recovery
after a crash do; a pass of the archiver reads `Present`, both of them. A rollback
whose truncate fails silently is left to `EvidenceStore`. `create_archive` is
`Begin`, `Scan` (the summary), `Verify` (strict mode), `Read` (the bytes that are
enclosed), `OpenTmp`, `Fill`, `Replace`: three passes over the log and the rename.
Files are inodes, so that a temporary file left by a killed call, or shared by two
calls that overlap, is the file it is. `verify_archive` is `CheckStructure`,
`Decrypt` or `DecryptFails`, `Summarise`; `decrypt_archive` is `Decrypt`, `Publish`.
A digest is the plaintext, a tag the manifest it was made with, a wrong key another
tag. `EvidenceTrust` is `verify_stream` as a function on a whole log, with the
operators of `Verifier`. `Damage` alters the manifest, the payload or the file.

### StateStore

`Acquire` to `Release` is a with-block. `cache` is `_state`, which outlives the block.
`versions` holds what a power loss may leave at the path: the rename is there or not
until the directory is synced. A write is `CreateTemp`, `FillTemp`, `FsyncTemp`,
`Replace`, `SyncDirectory`; `tmp` has what the temporary file reads as and what the disk
has of it, and a rename of a file that the disk does not have would leave a torn
version. A commit whose directory sync fails returns like any other (`SyncFails`) and is
`exposed` until the next sync succeeds; a power loss before that may take it back, which
makes it `forgotten`. `Commit` goes on from the cached state of whichever block it is
from, as the code does. If that is an earlier block's and no longer what the file holds,
the commit is `Blind`, and its rename makes `forgotten` what it writes over: every
returned commit that is not before its own position. The properties except exactly
these two cases, and a reader of the code should know both.
`recover_from` is given positions of the log, which agrees with the file about the
file's own position. Nobody deletes the file, which the module's documentation forbids
and which `EvidenceStore` covers.

### Controller

`proc`, `lock`, `slot`, `active` are the attributes of the supervisor and the replay
manager; `os` is what the kernel knows of each child. A handler's steps are split
where it reads `self.proc` without the lock, where it signals and where it waits.
Children exit at any time (`Exit`), also between a poll and a signal, or ignore
SIGTERM. `Reap` is a reaper thread, `Serve` to `Down` the lifespan; uvicorn lets the
running handlers finish before it ends the lifespan.

### ModbusServer and FakePlc

A stream is a sequence of cells, one for each 16-bit or single-byte field, so a
header takes four cells and lengths count cells. `Recv` brings a piece
(`RecvOverflows` where it exceeds the buffer), `DrainFrame` takes one frame out of the
buffer, `DrainWait` asks for more and `DrainMalformed` closes the connection; alerts
and answers are separate steps, as other connections see the bank in between. The reference
definition is `Frames`: the well-formed frames a stream begins with. `FakePlc` opens
a connection for each poll, may time out and go on while the honeypot still answers
the old one, writes its document to a temporary file in parts (`CreateTemp`,
`FillTemp`), syncs and renames it, and is killed or fails anywhere; a temporary file
left behind has a name of its own and is not used again.

## Runs

| Run | Bounds | Shows |
|---|---|---|
| `store_crash` | 2 signers, recover-state, 4 failures, 4 records | under crashes and reported errors, on a log that has lost nothing, the store keeps all of its guarantees and implements `EvidenceChain` |
| `store_damage` | 2 signers, 3 failures, 3 records | after losses, damage and suppressed errors a sequence number acknowledged since the state file was last deleted is never signed again, if nobody runs recover-state; every call comes back, even when the lock has been leaked, and interrupted transactions are resolved while events arrive, unless it has |
| `registry_life` | 2 identifiers, 2 keys in 2 texts each, 2 nodes, 2 times | commands one after another: a revoked text stays refused, the file can be loaded, history keeps verifying, a failed command costs nothing |
| `registry_race` | 2 overlapping commands, 2 keys | never two active keys |
| `collector` | 5 lines, 12 records, 2 nodes, 2 tracked hashes | the report is right, nothing is verified twice or out of its chain, no false gap |
| `pipeline` | 2 services, 3 threads, a batch | no event is lost, the counters account for every event, every emit returns |
| `archive` | 2 archivers one after the other, or 1 and a reader, 3 logs of up to 3 lines, 1 damage | the archive is whole, strict mode covers what it counted but perhaps the last line, the verdict is right, the output authentic |
| `state_store` | 2 processes, 3 faults, 3 events, sequence numbers up to 2, 1 reset | no write tears the file; returned commits survive and are not reissued, and the file is not taken back, but for a failed directory sync followed by a power loss and for a blind commit |
| `controller` | 2 threads, 2 components, 3 requests | no child without its owner, requests, slot and shutdown come to an end, then nothing runs that was not sent SIGKILL |
| `field` | 2 polls, 1 other client with 2 streams, 1 kill | frames as sent, bounded buffer, alert before reply, real readings, a whole state file |

Two signers are enough for the store, because the lock admits one and the proofs
cover any number; two failures suffice for a recovery that fails after a crash, and
the runs allow three or four. Two records let a committed and an interrupted
transaction coexist, and three a following one. Two identifiers, two public keys and
two commands are what a collision, a rotation and a lost update need. Five lines of
the collector let a stream reach the tracking limit of two, pass it and be followed
by a repetition. In the pipeline two threads share a sink while a third writes plain
lines and the batch keeps the lock; one event each is enough, as a thread emits one at
a time. The second archiver meets what the first left behind; `MaxCalls` = 2 keeps the
two archives and the reader, whose product is too large, apart. One log outgrows the
limit of two lines, so a log also grows past it between two passes. The third request
of the controller meets a stop that waits and a child that is being replaced. The
honeypot's first stream is longer than the buffer, and its pieces of five cells end
inside headers and payloads.

Signers, commands, identifiers, nodes, public keys, archivers and processes are
symmetric; the runs that check liveness use no symmetry. Deadlock checking is off
where the system may stop: the stream of the collector ends, services have emitted
their events or are killed, archivers and readers are done, the controller is down,
the streams are answered.

These runs end with a counterexample. Each states what a document, docstring or
comment of the repository says; `PROJECT.json` quotes the line.

| Run | The code |
|---|---|
| `registry_lost_revocation` | an overlapping command undoes a reported revocation |
| `archive_strict` | strict mode seals a line that was appended after it had verified the log |

### Other disagreements

Met while modelling, each reproduced at some time as a counterexample, and kept out
of the runs above by what they assume or by an exception their properties name:

* `repair_from_log` takes the state back after the log has lost its tail; its
  docstring says that it "never rewinds". (`store_crash` has no loss.)
* A recovery that raises in `__enter__` keeps the lock for the rest of the process
  (in the model an idle signer that is still the lock's owner, until `Exit`), although
  "the exclusive lock is held for the whole block".
* A truncate that fails in `_rollback` is suppressed and the journal dropped: bytes of
  an aborted record stay in the log. (The failure `rollback`, not in `store_crash`.)
* recover-state after a recovery that could not truncate adopts a record without its
  newline, which the next recovery cuts off.
* A transaction reported as aborted, "nothing was committed", is committed by the next
  recovery if only the state could not be written; `integration.py` repeats the claim
  in a comment. `PersistedIsSealed` states what the counters do say.
* The handlers for start and stop call `info` without the supervisor's lock; a stop in
  between makes them raise `AttributeError` (`InfoCrashes`). `LockProtectsProc` states
  what the lock protects.
* Two overlapping `create_archive` of one target share its `.tmp` file; the path may
  then name a mixture (`Concurrent = TRUE` violates `TargetWhole`).
* Of two overlapping `create_archive` without `--force` both may find the target free,
  and the second rename replaces the archive of the first; likewise two
  `decrypt_archive` with one output. The command line's documentation says that it
  "refuses to overwrite files unless `--force` is given" (`cli.py:8`).
* `_insert` compares the base64 texts of public keys, and an import takes every text that
  decodes: a revoked key comes back in another text (other unused bits in the last
  letter) as a new key, and is trusted. The documentation has it that "the same public
  key registered twice under different ids" is rejected, because it "would make
  revocation incomplete". `RevocationHolds` is therefore about the text, and the claim
  about the key, `RevokedKeyRefused`, is proved only where nothing is imported.
* `StateStore.commit` "refuses to move backwards or skip ahead", compared with the state
  the object has cached, which release does not clear. In a later block, without a
  read, it goes on from there, takes the file back over what another process has
  committed since, and issues the same number again (`Blind`). Without their
  exceptions for it `ReturnedSurvives`, `NeverReused` and `NeverRewinds` are violated.
* `_fsync_directory` suppresses an `OSError`, so a commit returns although the disk may
  not have its rename; a power loss takes it back and its number is issued again, although
  "the signer must never reuse a sequence number" (`exposed`, `forgotten`).
* An archive of a later part of a log never verifies fully, because the collector
  starts every node at its genesis, and neither does one whose last line was torn when
  it was read. If the first pass counted a line that was truncated before the last
  pass, the archive of the genuine lines does not verify either, because the manifest
  counts one more.
* `verify_archive` reports the manifest of its first open and the trust of its second.
* `StateStore.recover_from` reads first and so raises on the corrupted file it is
  documented to recover. With the default, empty `key_id`, or for sequence 0, it writes
  a file that `from_dict` refuses.
* An exact repetition of a record raises `pqc_duplicate_sequence` as well as
  `pqc_replayed_event`. `seen_sequences` keeps the last hash of a sequence number: once
  a fork has been read, a repetition of the record it forks from is named a duplicate
  sequence and not a replay. Neither changes what the report as a whole says.

### Fairness

`FairSpec` makes each signer's own steps weakly fair: they are taken by a running
thread, none of them waits for anything but the lock, and the wait for the lock has
a deadline. Calls, crashes, damage and the end of a process that leaked the lock are
not fair. A batch is finite because `MaxMinted` is. `BusySpec` adds that stores keep
being opened: decoys keep reporting events, and only an opener runs recovery. A
process that leaked the lock need not end, so `InterruptionsResolved` makes an
exception for a leaked lock. recover-state is left out of that run: on a log whose
recovery cannot truncate it leaves a state that no later recovery agrees with.

In the pipeline a thread inside `handle` runs, since its wait for the store's lock has
a deadline, and gets the publisher's lock, which is free again and again (`SF`).
Nothing is assumed of the batch, of starts or of kills. In the controller threads run,
waits time out, reapers run, and a child that was sent SIGKILL exits; that requests
come, children exit by themselves or the server is shut down is not assumed.

## Proofs

All theorems are checked by TLAPS for every value of the constants that satisfies
the named assumptions. The runs above check what the theorems are for. Type
correctness, the inductive invariant `StoreInv`, and `CommittedLinesImmutable` and
`LockProtectsProc`, which follow the steps of the code closely, are left to the proofs and
are in no run; `RevokedKeyRefused` is proved where nothing is imported and false where
something is. Every safety property a passing run checks is stated by a theorem.

**Store.** `TypeCorrect` holds whatever fails. The others assume `Tolerated`: no
suppressed rollback failure, no damage from outside, and no recover-state where a
recovery may fail to truncate; each of these alone lets TLC find a counterexample
among the disagreements above. `CommittedIsDurable` and its companions are not
inductive: they say nothing about the journal, on which the next recovery acts.
`StoreInv` adds that the log is
the committed lines (`CommittedInv`) followed by at most a first part of the
journalled record (`JournalInv`), and what a signer at each label knows of the files
(`SignerInv`). A lemma for each group of actions keeps it (`StoreInvariant`).
`CommittedDurable`, `FileOrder`, `AckedDurable`, `NeverRewinds`, `LinesImmutable` and
`StoreImplementsChain` follow from it; the last maps every step of the store to a
commit, an acknowledgement or a stutter of `EvidenceChain`.

`NeverReissued` is about what `Tolerated` excludes: the log may lose its tail, the
state file may be damaged or deleted, a rollback may fail silently, any number of times.
Then nothing is left of `StoreInv`, and the log says nothing reliable. What does survive
is that a state that reads as valid, on disk or cached, is never behind an acknowledged
record that is not `orphaned` (`Covers`), because recovery writes a state only to bring
it forward, and that the record of a running transaction is ahead of all of them
(`Fresh`). `ReissueInv` adds
that only the lock's owner has a state cached; without it a second signer's older state
would break the induction. The one hypothesis, that recover-state is not run, is needed:
it takes the state from whatever log is left (see the first disagreement above). Deleting
the state file gives up every record acknowledged until then: the code starts again at 1,
as the documentation warns.

**Registry.** `FileLoads` holds for all operations and overlaps; its invariant is
that the file and every command's copy hold a public key text once. `OneActiveKeyHolds`
needs that nothing is imported, since an imported entry may be active; it holds
under overlap, because a save replaces the file as a whole. `RevocationIsFinal`,
`HistoryIsKept` and `ActiveKeyIsKept` assume that commands do not overlap and that
no import overwrites; their invariants relate the copy of the one running command
to the file. `RevocationIsFinal` is about the revoked text, which is what `_insert`
compares; `RevokedKeyIsRefused` is about the key itself and needs that nothing is
imported, since then every text is the canonical one (`CanonicalInv`).

**Collector.** `ReportHolds` is an equivalence, so both directions need the tracker:
`TrackInv` says that behind a genuine chain the cursor rests on its last record and
the seen sequences and hashes are exactly its own. Then a record has no error
exactly when it continues the chain and can still be tracked (`ErrorsContinue`).
`NoFalseGap` rests on `GapInv` (the cursor counts the records that come in order),
`NoDoubleVerification` and `NoSteering` on `VerifiedInv` (the cursor rests on a record
of the stream, and verified records lie behind it).

**Controller.** `RunningOwned` needs that a caller inside stop holds the lock and the
component's process (`CallerInv`), and that handlers run only while the application
serves (`PhaseInv`); `ShutdownLeaves` adds what the lifespan has gone through already
(`ShutdownInv`). They hold for any number of threads, components and requests.

**Pipeline.** `NoEventLost` needs to know where a thread's event is at each label
(`FlowInv`). The counters are compared with numbers of threads and events, so
`CountersRight`, `PersistedSealed` and `PlainCounted` follow from one invariant,
`CountInv`, in which whatever is on its way is counted as well; the lemma `Counts` says
what the change of one label does to those numbers. `ServiceInv` and `EventInv` give
the zeros a service starts with and that no event is in a log before its time. The
set of threads is assumed to be finite.

**State store.** For `StaysWhole` the temporary file is complete before it is synced and
synced before the rename (`WholeInv`), so no version a power loss may leave is torn.
`CommitsSurvive` needs that every version a power loss may leave is not behind a returned
commit whose rename the disk has (`AckedInv`), and, because the file may be damaged under
a running block, that the block's own state is not behind any (`ReadyInv`, `WriteInv`).
`NoReuse` rests on a commit in progress being strictly ahead of every returned one, a
blind commit of those that are left once it has been written. `NoRewind` is read off each
step's effect on the file (`FileSteps`) and on what is being written, unless by a blind
commit, never being behind it.

**Induction over data.** Two of the theorems below say what a recursive function
computes for every input: the frames of a stream, the report of `verify_stream`. The
induction is done by hand: a property of natural numbers that fails somewhere fails
first at a least number (`LeastNat`, from the well-foundedness of < in
`WellFoundedInduction`), and the step from the number before it refutes that. The
defining equation of a recursive function is obtained the same way, by showing that a
function that satisfies it exists for every length.

**Honeypot and fake PLC** (`FieldProofs`), for any bank, clients, streams and pieces. `Inv`
has a part for each connection: what the client has written is the frames dispatched so
far, the buffer, and what is still under way, and the cut between them falls where a
frame begins (`StreamOk`); a buffer that is waiting holds less than one frame
(`DrainOk`); a write to a critical register that is not yet answered has its alert out
(`AlertOk`). From it follow `FramesReassembled`, `ResidueBounded` and `AlertsFirst`.
`PollInv` says what the poll has asked on its own connection and `DocInv` what its files
hold, in particular that a temporary file is complete when it is renamed; they give
`StateFileIsWhole` and `ReadingsReal`. A late answer cannot be taken for
another poll's, because each poll opens a connection of its own.

**Archive** (`ArchiveProofs`). `QuietLines`, `QuietChained` and `ChainedQuiet` show that
`verify_stream` finds nothing to report on a log exactly if it is a genuine chain of its
nodes, by induction over the lines. `Kept` relates what one pass read to what a
later one reads: the committed lines are there again, but the line behind them may have
been completed, truncated or replaced. Hence the last line of a pass is the one nothing is
known of (`ButLast`), and with `BaseInv`, which holds even if calls of `create_archive`
overlap, `StrictCovers` follows: the records a strict archive counts are in it and
genuine but perhaps for the last, although strict mode does not cover the lines that came
later (`archive_strict`). `TargetIsWhole`, `OutputIsSealed` and `VerdictIsRight` assume
that calls of `create_archive` do not overlap (`~Concurrent`), since overlapping ones
share a temporary file; they allow any number of killed calls, readers and damages. Their invariant, `FullInv`, says in addition what the one running call has
written, that the target holds what a finished call sealed or was damaged since, and what
each reader has taken from the file it opened.

Only model-checked: the liveness properties (`CallsReturn`, `InterruptionsResolved`,
`EmitsReturn`, `RequestsReturn`, `SlotIsReleased`, `ShutdownEnds`),
since fairness is outside the prover's reach. An overwriting import occurs in the proofs
only (`FileLoads`): it may replace a revoked record by a usable one, so
`RevocationIsFinal` excludes it.

## Plan

Modelled: the evidence store, the key registry, the verifier and the collector, the
pipeline, the archive, the state store, the controller, the Modbus honeypot and the
fake PLC, and every safety property of the runs is proved. Next, in this order:

1. The safety half of the progress properties, as theorems: what a signer that waits,
   a thread inside `handle` or a shutdown can still be waiting for.
2. Shorter proofs for the controller, from a lemma for each group of actions.

## Not modelled

* The record format and canonical JSON: data, abstracted to whether a line parses.
* The cryptographic backends: library calls, abstracted to whether they succeed and
  whether a signature or a tag verifies.
* The benchmark: it measures time and has no state to be correct about.
* Validation of configuration files, arguments and paths: no state. Which components
  are enabled and which captures are refused enters `Controller`.
* The DNP3 sensor, the telnet and SSH decoys: a connection is read, reported and closed
  and shares nothing with another but the publisher. The native Modbus honeypot repeats
  the framing that `ModbusServer` models.
* The sending of a capture's packets: I/O. The replay job itself is in `Controller`.
