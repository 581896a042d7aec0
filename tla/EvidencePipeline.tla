-------------------------- MODULE EvidencePipeline --------------------------
(***************************************************************************)
(* common/events.py, common/publisher.py and pqc_evidence/integration.py:  *)
(* the threads of several services emit events; the evidence sink of each  *)
(* service seals them into the node's one chain, and the publisher writes  *)
(* the plain line where the sink says so or fails.  signer.sign_log seals  *)
(* a file into the same chain as one batch.                                *)
(*                                                                         *)
(* Of a transaction of the evidence store (module EvidenceStore) the sink  *)
(* sees this: it waits for the lock and may time out, nothing is written   *)
(* when signing or appending fails, a record stays in the log when only    *)
(* the commit of the state fails, and whoever opens the store next         *)
(* completes that commit.                                                  *)
(***************************************************************************)
EXTENDS Naturals, FiniteSets

CONSTANTS
    Proc,       \* services
    Thread,     \* their threads
    Home,       \* the service of each thread
    Modes,      \* the values of ICS_PQC_EVIDENCE_MODE a service may be started with
    MaxEvents,  \* bound: events of a thread
    MaxLines,   \* lines of the file the batch signs
    Batch,      \* the batch
    Free        \* value of a lock nobody holds

Mode == {"disabled", "verify-only", "sign", "dual"}
Counter == {"received", "signed", "persisted", "rejected_before_signing",
            "signing_failures", "persistence_failures", "backend_unavailable",
            "state_recoveries"}
Event == Thread \X (1..MaxEvents)

ASSUME PipelineAssumption ==
    /\ Home \in [Thread -> Proc]
    /\ Modes \in [Proc -> SUBSET Mode]
    /\ MaxEvents \in Nat /\ MaxLines \in Nat
    /\ Free \notin Thread \cup {Batch} /\ Batch \notin Thread
    /\ IsFiniteSet(Thread)

VARIABLES
    mode,      \* the configured mode of each service, "down" or "killed"
    signer,    \* whether its sink has a signer
    metrics,   \* EvidenceMetrics of its sink
    rawLock,   \* EventPublisher._lock of its process
    lock,      \* the evidence store's lock
    pending,   \* the log's last record is not in the state file
    pc,        \* where each thread is
    count,     \* how many events it has begun to emit
    chain,     \* the events and lines with a record in the evidence log
    plain,     \* the events with a line in the plain log
    lost,      \* the events whose plain line could not be written
    returned,  \* the events whose emit has returned (history)
    line       \* the next line of the batch

logs == <<chain, plain, lost>>
vars == <<mode, signer, metrics, rawLock, lock, pending, pc, count, logs, returned, line>>

----------------------------------------------------------------------------
\* EvidenceMetrics.increment, under the metrics' lock
Increment(p, c) == metrics' = [metrics EXCEPT ![p][c] = @ + 1]

Goto(t, l) == pc' = [pc EXCEPT ![t] = l]
Up(p) == mode[p] \notin {"down", "killed"}
At(t, l) == pc[t] = l
Ev(t) == <<t, count[t]>>

\* A service without a sink has no metrics.
HasSink(p) == mode[p] # "disabled"

Init ==
    /\ mode = [p \in Proc |-> "down"]
    /\ signer = [p \in Proc |-> FALSE]
    /\ metrics = [p \in Proc |-> [c \in Counter |-> 0]]
    /\ rawLock = [p \in Proc |-> Free]
    /\ lock = Free
    /\ pending = FALSE
    /\ pc = [t \in Thread |-> "idle"]
    /\ count = [t \in Thread |-> 0]
    /\ chain = {} /\ plain = {} /\ lost = {}
    /\ returned = {}
    /\ line = 1

----------------------------------------------------------------------------
(* Starting a service *)

\* create_event_publisher, _shared_sink: no sink, or one that does not sign.
StartPlain(p, m) ==
    /\ mode[p] = "down" /\ m \in {"disabled", "verify-only"}
    /\ mode' = [mode EXCEPT ![p] = m]
    /\ UNCHANGED <<signer, metrics, rawLock, lock, pending, pc, count, logs, returned, line>>

\* Mutant: a service that cannot open its store runs without a signer.
StartDegraded(p, m) ==
    /\ mode[p] = "down" /\ m \in {"sign", "dual"}
    /\ mode' = [mode EXCEPT ![p] = m]
    /\ signer' = [signer EXCEPT ![p] = lock = Free]
    /\ UNCHANGED <<metrics, rawLock, lock, pending, pc, count, logs, returned, line>>

\* _build_signer opens the store once, which completes an unfinished commit.  When
\* the key, the backend, the lock or the store is not usable it raises, and the
\* service does not start: no step.
StartSigning(p, m) ==
    /\ mode[p] = "down" /\ m \in {"sign", "dual"} /\ lock = Free
    /\ mode' = [mode EXCEPT ![p] = m]
    /\ signer' = [signer EXCEPT ![p] = TRUE]
    /\ pending' = FALSE
    /\ IF pending THEN Increment(p, "state_recoveries") ELSE UNCHANGED metrics
    /\ UNCHANGED <<rawLock, lock, pc, count, logs, returned, line>>

----------------------------------------------------------------------------
(* emit and EvidenceSink.handle *)

\* build, and handle up to the test for a signer
Emit(t) ==
    LET p == Home[t] IN
    /\ At(t, "idle") /\ Up(p) /\ count[t] < MaxEvents
    /\ count' = [count EXCEPT ![t] = @ + 1]
    /\ IF HasSink(p) THEN Increment(p, "received") ELSE UNCHANGED metrics
    /\ Goto(t, IF signer[p] THEN "bound" ELSE "raw")
    /\ UNCHANGED <<mode, signer, rawLock, lock, pending, logs, returned, line>>

\* bound_event, which replaces what is too large by its digest
Bound(t) ==
    /\ At(t, "bound")
    /\ Goto(t, "lock")
    /\ UNCHANGED <<mode, signer, metrics, rawLock, lock, pending, count, logs, returned, line>>

\* Mutant: after a failure the sink's answer for the mode is used.
GiveUpByMode(t) ==
    /\ Goto(t, IF mode[Home[t]] = "dual" THEN "raw" ELSE "idle")
    /\ returned' = IF mode[Home[t]] = "dual" THEN returned ELSE returned \cup {Ev(t)}

\* emit's except clause: whatever handle raised, the plain line is written.
GiveUp(t) ==
    /\ Goto(t, "raw")
    /\ UNCHANGED returned

BoundFails(t) ==
    /\ At(t, "bound")
    /\ Increment(Home[t], "rejected_before_signing")
    /\ GiveUp(t)
    /\ UNCHANGED <<mode, signer, rawLock, lock, pending, count, logs, line>>

\* sign_event: the store is opened, which completes an unfinished commit.
Open(t) ==
    /\ At(t, "lock") /\ lock = Free
    /\ lock' = t /\ pending' = FALSE
    /\ Goto(t, "sign")
    /\ UNCHANGED <<mode, signer, metrics, rawLock, count, logs, returned, line>>

\* The lock is not free in time, or the store refuses to open.
OpenFails(t) ==
    /\ At(t, "lock")
    /\ Increment(Home[t], "persistence_failures")
    /\ GiveUp(t)
    /\ UNCHANGED <<mode, signer, rawLock, lock, pending, count, logs, line>>

\* A BackendError is counted twice, by two increments.
BackendFails(t) ==
    /\ At(t, "sign")
    /\ lock' = Free
    /\ Increment(Home[t], "backend_unavailable")
    /\ Goto(t, "backend")
    /\ UNCHANGED <<mode, signer, rawLock, pending, count, logs, returned, line>>

\* Mutant: a backend failure is not counted as a failure to sign.
BackendUncounted(t) ==
    /\ At(t, "backend")
    /\ GiveUp(t)
    /\ UNCHANGED <<mode, signer, metrics, rawLock, lock, pending, count, logs, line>>

BackendCounted(t) ==
    /\ At(t, "backend")
    /\ Increment(Home[t], "signing_failures")
    /\ GiveUp(t)
    /\ UNCHANGED <<mode, signer, rawLock, lock, pending, count, logs, line>>

\* Any other exception before the append is complete: the store has rolled back.
TransactionFails(t, c) ==
    /\ At(t, "sign")
    /\ c \in {"signing_failures", "persistence_failures"}
    /\ lock' = Free
    /\ Increment(Home[t], c)
    /\ GiveUp(t)
    /\ UNCHANGED <<mode, signer, rawLock, pending, count, logs, line>>

\* The record is in the log, its state not yet.
AppendRecord(t) ==
    /\ At(t, "sign")
    /\ chain' = chain \cup {Ev(t)}
    /\ pending' = TRUE
    /\ Goto(t, "commit")
    /\ UNCHANGED <<mode, signer, metrics, rawLock, lock, count, plain, lost, returned, line>>

Commit(t) ==
    /\ At(t, "commit")
    /\ pending' = FALSE /\ lock' = Free
    /\ Goto(t, "signed")
    /\ UNCHANGED <<mode, signer, metrics, rawLock, count, logs, returned, line>>

\* Mutant: the failure is counted as one of signing.
CommitMiscounted(t) ==
    /\ At(t, "commit")
    /\ lock' = Free
    /\ Increment(Home[t], "signing_failures")
    /\ GiveUp(t)
    /\ UNCHANGED <<mode, signer, rawLock, pending, count, logs, line>>

\* TransactionAborted although the record stays: the next open commits it.
CommitFails(t) ==
    /\ At(t, "commit")
    /\ lock' = Free
    /\ Increment(Home[t], "persistence_failures")
    /\ GiveUp(t)
    /\ UNCHANGED <<mode, signer, rawLock, pending, count, logs, line>>

CountSigned(t) ==
    /\ At(t, "signed")
    /\ Increment(Home[t], "signed")
    /\ Goto(t, "persisted")
    /\ UNCHANGED <<mode, signer, rawLock, lock, pending, count, logs, returned, line>>

\* handle returns whether the plain line is wanted as well.
CountPersisted(t) ==
    /\ At(t, "persisted")
    /\ Increment(Home[t], "persisted")
    /\ Goto(t, IF mode[Home[t]] = "dual" THEN "raw" ELSE "idle")
    /\ returned' = IF mode[Home[t]] = "dual" THEN returned ELSE returned \cup {Ev(t)}
    /\ UNCHANGED <<mode, signer, rawLock, lock, pending, count, logs, line>>

----------------------------------------------------------------------------
(* The plain line *)

TakeRawLock(t) ==
    /\ At(t, "raw") /\ rawLock[Home[t]] = Free
    /\ rawLock' = [rawLock EXCEPT ![Home[t]] = t]
    /\ Goto(t, "write")
    /\ UNCHANGED <<mode, signer, metrics, lock, pending, count, logs, returned, line>>

WriteRaw(t) ==
    /\ At(t, "write")
    /\ plain' = plain \cup {Ev(t)}
    /\ rawLock' = [rawLock EXCEPT ![Home[t]] = Free]
    /\ returned' = returned \cup {Ev(t)}
    /\ Goto(t, "idle")
    /\ UNCHANGED <<mode, signer, metrics, lock, pending, count, chain, lost, line>>

\* Mutant: an OSError leaves the lock taken.
WriteFailsLocked(t) ==
    /\ At(t, "write")
    /\ lost' = lost \cup {Ev(t)}
    /\ returned' = returned \cup {Ev(t)}
    /\ Goto(t, "idle")
    /\ UNCHANGED <<mode, signer, metrics, rawLock, lock, pending, count, chain, plain, line>>

\* An OSError is only printed.
WriteFails(t) ==
    /\ At(t, "write")
    /\ lost' = lost \cup {Ev(t)}
    /\ rawLock' = [rawLock EXCEPT ![Home[t]] = Free]
    /\ returned' = returned \cup {Ev(t)}
    /\ Goto(t, "idle")
    /\ UNCHANGED <<mode, signer, metrics, lock, pending, count, chain, plain, line>>

----------------------------------------------------------------------------
(* sign_log: one lock for the whole file, a transaction for each line *)

BatchOpen ==
    /\ lock = Free /\ line = 1
    /\ lock' = Batch /\ pending' = FALSE
    /\ UNCHANGED <<mode, signer, metrics, rawLock, pc, count, logs, returned, line>>

\* The next line is sealed, or skipped (blank, not a JSON object).  The generator
\* keeps the lock until the source gives its next line, however long that takes.
BatchLine(sealed) ==
    /\ lock = Batch /\ line <= MaxLines
    /\ line' = line + 1
    /\ chain' = IF sealed THEN chain \cup {<<Batch, line>>} ELSE chain
    /\ UNCHANGED <<mode, signer, metrics, rawLock, lock, pending, pc, count, plain, lost, returned>>

\* The end of the file, or an exception: the with-block releases the lock.
BatchEnds ==
    /\ lock = Batch
    /\ lock' = Free /\ line' = MaxLines + 1
    /\ UNCHANGED <<mode, signer, metrics, rawLock, pending, pc, count, logs, returned>>

\* The exception of a line whose record stays although its commit failed.
BatchAborts ==
    /\ lock = Batch /\ line <= MaxLines
    /\ lock' = Free /\ line' = MaxLines + 1
    /\ chain' = chain \cup {<<Batch, line>>} /\ pending' = TRUE
    /\ UNCHANGED <<mode, signer, metrics, rawLock, pc, count, plain, lost, returned>>

----------------------------------------------------------------------------
\* A service is killed: its threads are gone and the kernel drops its locks.
Crash(p) ==
    /\ Up(p) /\ \E t \in Thread : Home[t] = p /\ pc[t] # "idle"
    /\ mode' = [mode EXCEPT ![p] = "killed"]
    /\ lock' = IF \E t \in Thread : Home[t] = p /\ lock = t THEN Free ELSE lock
    /\ pc' = [t \in Thread |-> IF Home[t] = p THEN "dead" ELSE pc[t]]
    /\ rawLock' = [rawLock EXCEPT ![p] = Free]
    /\ UNCHANGED <<signer, metrics, pending, count, logs, returned, line>>

Handle(t) ==
    \/ Bound(t) \/ BoundFails(t) \/ Open(t) \/ OpenFails(t)
    \/ BackendFails(t) \/ BackendCounted(t)
    \/ \E c \in Counter : TransactionFails(t, c)
    \/ AppendRecord(t) \/ Commit(t) \/ CommitFails(t)
    \/ CountSigned(t) \/ CountPersisted(t)

WriteLine(t) == TakeRawLock(t) \/ WriteRaw(t) \/ WriteFails(t)

Next ==
    \/ \E p \in Proc : \E m \in Modes[p] : StartPlain(p, m) \/ StartSigning(p, m)
    \/ \E p \in Proc : Crash(p)
    \/ \E t \in Thread : Emit(t) \/ Handle(t) \/ WriteLine(t)
    \/ BatchOpen \/ BatchEnds \/ BatchAborts
    \/ \E sealed \in BOOLEAN : BatchLine(sealed)

Spec == Init /\ [][Next]_vars

\* A thread inside emit runs, and gets a lock that is free again and again; the
\* wait for the store's lock ends by itself.  Nothing is assumed of the batch.
FairSpec == Spec /\ \A t \in Thread : WF_vars(Handle(t)) /\ SF_vars(WriteLine(t))

----------------------------------------------------------------------------
(* Properties *)

Label == {"idle", "bound", "lock", "sign", "backend", "commit", "signed", "persisted",
          "raw", "write", "dead"}

\* Types, and the places of the code where a lock is held.
TypeOK ==
    /\ mode \in [Proc -> Mode \cup {"down", "killed"}]
    /\ signer \in [Proc -> BOOLEAN]
    /\ metrics \in [Proc -> [Counter -> Nat]]
    /\ rawLock \in [Proc -> Thread \cup {Free}]
    /\ lock \in Thread \cup {Batch, Free}
    /\ pending \in BOOLEAN
    /\ pc \in [Thread -> Label]
    /\ count \in [Thread -> 0..MaxEvents]
    /\ chain \subseteq Event \cup ({Batch} \X (1..MaxLines))
    /\ plain \subseteq Event /\ lost \subseteq Event /\ returned \subseteq Event
    /\ line \in 1..(MaxLines + 1)
    /\ \A t \in Thread : (lock = t) <=> pc[t] \in {"sign", "commit"}
    /\ \A t \in Thread : (rawLock[Home[t]] = t) <=> pc[t] = "write"

Mine(p, S) == {e \in S \cap Event : Home[e[1]] = p}
In(p, L) == {t \in Thread : Home[t] = p /\ pc[t] \in L}
Handling == {"bound", "lock", "sign", "backend", "commit", "signed", "persisted"}
Failures(p) == metrics[p]["rejected_before_signing"] + metrics[p]["signing_failures"]
               + metrics[p]["persistence_failures"]

\* An event whose emit has returned is sealed or in the plain log, whatever failed
\* on the way, unless the plain log itself could not be written (emit, handle).
NothingLost == \A e \in returned : e \in chain \cup plain \cup lost

\* With a signer every event the sink received is counted once, as persisted or as
\* one kind of failure, or is still inside handle (EvidenceMetrics).
CountersAddUp ==
    \A p \in Proc : Up(p) /\ signer[p] =>
        /\ metrics[p]["received"] =
               metrics[p]["persisted"] + Failures(p) + Cardinality(In(p, Handling))
        /\ metrics[p]["signed"] = metrics[p]["persisted"] + Cardinality(In(p, {"persisted"}))

\* "persisted" counts events that are in the evidence log, and those in the log
\* that it does not count are still on their way or were counted as failures.
PersistedIsSealed ==
    \A p \in Proc : Up(p) =>
        LET sealed == Cardinality(Mine(p, chain)) IN
        /\ metrics[p]["persisted"] <= sealed
        /\ sealed <= metrics[p]["persisted"] + metrics[p]["persistence_failures"]
                     + Cardinality(In(p, {"commit", "signed", "persisted"}))

\* A service configured to sign never falls back to plain output unnoticed: each of
\* its plain lines stands for a failure that was counted (sink_from_env).
PlainIsCounted ==
    \A p \in Proc : mode[p] = "sign" => Cardinality(Mine(p, plain)) <= Failures(p)

\* Every emit returns, or its process dies: a batch that keeps the store's lock for
\* ever only costs the others their seals (sign_events, lock_timeout).
EmitsReturn ==
    \A t \in Thread : pc[t] # "idle" ~> pc[t] \in {"idle", "dead"}
=============================================================================
