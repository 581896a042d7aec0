--------------------------- MODULE PipelineProofs ---------------------------
(***************************************************************************)
(* Theorems about EvidencePipeline, for any number of services, threads,   *)
(* events and lines of a batch.                                            *)
(***************************************************************************)
EXTENDS EvidencePipeline, FiniteSetTheorems, TLAPS

\* A service that has not been started has done nothing, and one that signs has a signer.
ServiceOk(p) ==
    /\ mode[p] = "down" =>
          /\ ~signer[p]
          /\ \A c \in Counter : metrics[p][c] = 0
          /\ \A t \in Thread : Home[t] = p => pc[t] = "idle" /\ count[t] = 0
    /\ mode[p] \in {"sign", "dual"} => signer[p]
    /\ signer[p] => mode[p] \in {"sign", "dual", "killed"}

ServiceInv == \A p \in Proc : ServiceOk(p)

\* A thread inside emit has an event, and inside handle a service with a signer; its
\* record is in the log exactly from the append on.
FlowInv ==
    \A t \in Thread :
        /\ pc[t] \notin {"idle", "dead"} => Up(Home[t]) /\ count[t] >= 1
        /\ pc[t] \in Handling => signer[Home[t]]
        /\ pc[t] \in {"commit", "signed", "persisted"} => Ev(t) \in chain
        /\ pc[t] \in {"bound", "lock", "sign", "backend"} => Ev(t) \notin chain

\* No event is anywhere before it was emitted.
EventInv == \A e \in (chain \cup plain) \cap Event : e[2] <= count[e[1]]

\* The number of threads of a service at some labels, and of its events in a log.
Handled(p) == Cardinality(In(p, Handling))
Counting(p) == Cardinality(In(p, {"persisted"}))
Sealing(p) == Cardinality(In(p, {"commit", "signed", "persisted"}))
Falling(p) == Cardinality(In(p, {"raw", "write"}))
Sealed(p) == Cardinality(Mine(p, chain))
Plain(p) == Cardinality(Mine(p, plain))

\* The counters, with what is on its way.
CountsRight(p) ==
    /\ Up(p) /\ signer[p] =>
          /\ metrics[p]["received"] = metrics[p]["persisted"] + Failures(p) + Handled(p)
          /\ metrics[p]["signed"] = metrics[p]["persisted"] + Counting(p)
    /\ Up(p) =>
          /\ metrics[p]["persisted"] + Sealing(p) <= Sealed(p)
          /\ Sealed(p) <= metrics[p]["persisted"] + metrics[p]["persistence_failures"] + Sealing(p)
    /\ mode[p] = "sign" => Plain(p) + Falling(p) <= Failures(p)

CountInv == \A p \in Proc : CountsRight(p)

PipelineInv == TypeOK /\ ServiceInv /\ FlowInv /\ EventInv /\ NothingLost /\ CountInv

----------------------------------------------------------------------------
(* Counting threads and events *)

\* The threads of a process at given labels can be counted.
LEMMA ThreadsFinite ==
    ASSUME NEW p, NEW L
    PROVE  IsFiniteSet(In(p, L)) /\ Cardinality(In(p, L)) \in Nat
  <1>1. In(p, L) \in SUBSET Thread
    BY DEF In
  <1>2. IsFiniteSet(In(p, L))
    BY <1>1, FS_Subset, PipelineAssumption
  <1> QED
    BY <1>2, FS_CardinalityType

\* The events of a process in a set can be counted.
LEMMA EventsFinite ==
    ASSUME NEW p, NEW S
    PROVE  IsFiniteSet(Mine(p, S)) /\ Cardinality(Mine(p, S)) \in Nat
  <1>1. IsFiniteSet(1..MaxEvents)
    BY FS_Interval, PipelineAssumption
  <1>2. IsFiniteSet(Event)
    BY <1>1, FS_Product, PipelineAssumption DEF Event
  <1>3. Mine(p, S) \in SUBSET Event
    BY DEF Mine
  <1>4. IsFiniteSet(Mine(p, S))
    BY <1>2, <1>3, FS_Subset
  <1> QED
    BY <1>4, FS_CardinalityType

\* One thread that changes its label changes a count of its service by at most one.
LEMMA MoveCounts ==
    ASSUME TypeOK, NEW t \in Thread, NEW l \in Label, Goto(t, l), NEW p \in Proc, NEW L
    PROVE  Cardinality(In(p, L)') =
             IF p = Home[t] /\ pc[t] \notin L /\ l \in L THEN Cardinality(In(p, L)) + 1
             ELSE IF p = Home[t] /\ pc[t] \in L /\ l \notin L THEN Cardinality(In(p, L)) - 1
             ELSE Cardinality(In(p, L))
  <1>1. IsFiniteSet(In(p, L)) /\ Cardinality(In(p, L)) \in Nat
    BY ThreadsFinite
  <1>2. CASE p = Home[t] /\ pc[t] \notin L /\ l \in L
    <2>1. In(p, L)' = In(p, L) \cup {t} /\ t \notin In(p, L)
      BY <1>2 DEF In, Goto, TypeOK
    <2>2. Cardinality(In(p, L) \cup {t}) = Cardinality(In(p, L)) + 1
      BY <1>1, <2>1, FS_AddElement
    <2> QED
      BY <1>2, <2>1, <2>2
  <1>3. CASE p = Home[t] /\ pc[t] \in L /\ l \notin L
    <2>1. In(p, L)' = In(p, L) \ {t} /\ t \in In(p, L)
      BY <1>3 DEF In, Goto, TypeOK
    <2>2. Cardinality(In(p, L) \ {t}) = Cardinality(In(p, L)) - 1
      BY <1>1, <2>1, FS_RemoveElement
    <2> QED
      BY <1>3, <2>1, <2>2
  <1>4. CASE ~(p = Home[t] /\ pc[t] \notin L /\ l \in L) /\ ~(p = Home[t] /\ pc[t] \in L /\ l \notin L)
    <2>1. In(p, L)' = In(p, L)
      BY <1>4 DEF In, Goto, TypeOK
    <2> QED
      BY <1>4, <2>1
  <1> QED
    BY <1>2, <1>3, <1>4

\* A counter and no other one is incremented.
LEMMA Increments ==
    ASSUME TypeOK, NEW p \in Proc, NEW c \in Counter, Increment(p, c)
    PROVE  /\ metrics' \in [Proc -> [Counter -> Nat]]
           /\ \A q \in Proc : \A d \in Counter :
                 metrics'[q][d] = IF q = p /\ d = c THEN metrics[q][d] + 1 ELSE metrics[q][d]
  <1>1. metrics \in [Proc -> [Counter -> Nat]] /\ metrics[p] \in [Counter -> Nat]
    BY DEF TypeOK
  <1>2. metrics' = [metrics EXCEPT ![p] = [metrics[p] EXCEPT ![c] = metrics[p][c] + 1]]
    BY DEF Increment
  <1>3. [metrics[p] EXCEPT ![c] = metrics[p][c] + 1] \in [Counter -> Nat]
    BY <1>1
  <1> QED
    BY <1>1, <1>2, <1>3

\* What a change of label does to a count.
Delta(p, t, l, L) ==
    IF p = Home[t] /\ pc[t] \notin L /\ l \in L THEN 1
    ELSE IF p = Home[t] /\ pc[t] \in L /\ l \notin L THEN -1 ELSE 0

\* The counts are numbers.
LEMMA CountTypes ==
    ASSUME NEW p \in Proc
    PROVE  /\ Handled(p) \in Nat /\ Counting(p) \in Nat /\ Sealing(p) \in Nat
           /\ Falling(p) \in Nat /\ Sealed(p) \in Nat /\ Plain(p) \in Nat
  BY ThreadsFinite, EventsFinite DEF Handled, Counting, Sealing, Falling, Sealed, Plain

\* What a thread that goes to label l does to the counts of a process.
LEMMA Counts ==
    ASSUME TypeOK, NEW t \in Thread, NEW l \in Label, Goto(t, l), NEW p \in Proc
    PROVE  /\ Handled(p)' = Handled(p) + Delta(p, t, l, Handling)
           /\ Counting(p)' = Counting(p) + Delta(p, t, l, {"persisted"})
           /\ Sealing(p)' = Sealing(p) + Delta(p, t, l, {"commit", "signed", "persisted"})
           /\ Falling(p)' = Falling(p) + Delta(p, t, l, {"raw", "write"})
  <1>1. /\ Handled(p) \in Nat /\ Counting(p) \in Nat /\ Sealing(p) \in Nat
        /\ Falling(p) \in Nat
    BY CountTypes
  <1>2. Handled(p)' = Handled(p) + Delta(p, t, l, Handling)
    <2>1. Cardinality(In(p, Handling)') =
            IF p = Home[t] /\ pc[t] \notin Handling /\ l \in Handling THEN Cardinality(In(p, Handling)) + 1
            ELSE IF p = Home[t] /\ pc[t] \in Handling /\ l \notin Handling THEN Cardinality(In(p, Handling)) - 1
            ELSE Cardinality(In(p, Handling))
      BY MoveCounts
    <2> QED
      BY <1>1, <2>1 DEF Handled, Delta
  <1>3. Counting(p)' = Counting(p) + Delta(p, t, l, {"persisted"})
    <2> DEFINE L == {"persisted"}
    <2>1. Cardinality(In(p, L)') =
            IF p = Home[t] /\ pc[t] \notin L /\ l \in L THEN Cardinality(In(p, L)) + 1
            ELSE IF p = Home[t] /\ pc[t] \in L /\ l \notin L THEN Cardinality(In(p, L)) - 1
            ELSE Cardinality(In(p, L))
      <3> HIDE DEF L
      <3> QED
        BY MoveCounts
    <2> QED
      BY <1>1, <2>1 DEF Counting, Delta
  <1>4. Sealing(p)' = Sealing(p) + Delta(p, t, l, {"commit", "signed", "persisted"})
    <2> DEFINE L == {"commit", "signed", "persisted"}
    <2>1. Cardinality(In(p, L)') =
            IF p = Home[t] /\ pc[t] \notin L /\ l \in L THEN Cardinality(In(p, L)) + 1
            ELSE IF p = Home[t] /\ pc[t] \in L /\ l \notin L THEN Cardinality(In(p, L)) - 1
            ELSE Cardinality(In(p, L))
      <3> HIDE DEF L
      <3> QED
        BY MoveCounts
    <2> QED
      BY <1>1, <2>1 DEF Sealing, Delta
  <1>5. Falling(p)' = Falling(p) + Delta(p, t, l, {"raw", "write"})
    <2> DEFINE L == {"raw", "write"}
    <2>1. Cardinality(In(p, L)') =
            IF p = Home[t] /\ pc[t] \notin L /\ l \in L THEN Cardinality(In(p, L)) + 1
            ELSE IF p = Home[t] /\ pc[t] \in L /\ l \notin L THEN Cardinality(In(p, L)) - 1
            ELSE Cardinality(In(p, L))
      <3> HIDE DEF L
      <3> QED
        BY MoveCounts
    <2> QED
      BY <1>1, <2>1 DEF Falling, Delta
  <1> QED
    BY <1>2, <1>3, <1>4, <1>5

\* An event enters handle, or the plain log's queue.
LEMMA EmitKeeps ==
    ASSUME PipelineInv, NEW t \in Thread, Emit(t)
    PROVE  PipelineInv'
  <1>0. /\ metrics' \in [Proc -> [Counter -> Nat]]
        /\ \A q \in Proc : \A d \in Counter :
              metrics'[q][d] = IF HasSink(Home[t]) /\ q = Home[t] /\ d = "received" THEN metrics[q][d] + 1
                               ELSE metrics[q][d]
    <2>1. CASE HasSink(Home[t])
      <3>1. Increment(Home[t], "received") /\ Home[t] \in Proc /\ "received" \in Counter
        BY <2>1, PipelineAssumption DEF Emit, Counter
      <3> QED
        BY <2>1, <3>1, Increments DEF PipelineInv
    <2>2. CASE ~HasSink(Home[t])
      BY <2>2 DEF Emit, PipelineInv, TypeOK
    <2> QED
      BY <2>1, <2>2
  <1>1. TypeOK'
    <2>1. mode' \in [Proc -> Mode \cup {"down", "killed"}] /\ signer' \in [Proc -> BOOLEAN]
      BY PipelineAssumption, <1>0 DEF PipelineInv, TypeOK, FlowInv, Up, At, Ev, Goto, logs,
         Label, Handling, Event, Counter, Mode, ServiceInv,
         Emit, HasSink
    <2>2. metrics' \in [Proc -> [Counter -> Nat]]
      BY PipelineAssumption, <1>0 DEF PipelineInv, TypeOK, FlowInv, Up, At, Ev, Goto, logs,
         Label, Handling, Event, Counter, Mode, ServiceInv,
         Emit, HasSink
    <2>3. rawLock' \in [Proc -> Thread \cup {Free}] /\ lock' \in Thread \cup {Batch, Free}
      BY PipelineAssumption, <1>0 DEF PipelineInv, TypeOK, FlowInv, Up, At, Ev, Goto, logs,
         Label, Handling, Event, Counter, Mode, ServiceInv,
         Emit, HasSink
    <2>4. pending' \in BOOLEAN
      BY PipelineAssumption, <1>0 DEF PipelineInv, TypeOK, FlowInv, Up, At, Ev, Goto, logs,
         Label, Handling, Event, Counter, Mode, ServiceInv,
         Emit, HasSink
    <2>5. pc' \in [Thread -> Label]
      BY PipelineAssumption, <1>0 DEF PipelineInv, TypeOK, FlowInv, Up, At, Ev, Goto, logs,
         Label, Handling, Event, Counter, Mode, ServiceInv,
         Emit, HasSink
    <2>6. count' \in [Thread -> 0..MaxEvents]
      BY PipelineAssumption, <1>0 DEF PipelineInv, TypeOK, FlowInv, Up, At, Ev, Goto, logs,
         Label, Handling, Event, Counter, Mode, ServiceInv,
         Emit, HasSink
    <2>7. chain' \subseteq Event \cup ({Batch} \X (1..MaxLines))
      BY PipelineAssumption, <1>0 DEF PipelineInv, TypeOK, FlowInv, Up, At, Ev, Goto, logs,
         Label, Handling, Event, Counter, Mode, ServiceInv,
         Emit, HasSink
    <2>8. plain' \subseteq Event /\ lost' \subseteq Event /\ returned' \subseteq Event
      BY PipelineAssumption, <1>0 DEF PipelineInv, TypeOK, FlowInv, Up, At, Ev, Goto, logs,
         Label, Handling, Event, Counter, Mode, ServiceInv,
         Emit, HasSink
    <2>9. line' \in 1..(MaxLines + 1)
      BY PipelineAssumption, <1>0 DEF PipelineInv, TypeOK, FlowInv, Up, At, Ev, Goto, logs,
         Label, Handling, Event, Counter, Mode, ServiceInv,
         Emit, HasSink
    <2>10. \A u \in Thread : (lock' = u) <=> pc'[u] \in {"sign", "commit"}
      BY PipelineAssumption, <1>0 DEF PipelineInv, TypeOK, FlowInv, Up, At, Ev, Goto, logs,
         Label, Handling, Event, Counter, Mode, ServiceInv,
         Emit, HasSink
    <2>11. \A u \in Thread : (rawLock'[Home[u]] = u) <=> pc'[u] = "write"
      BY PipelineAssumption, <1>0 DEF PipelineInv, TypeOK, FlowInv, Up, At, Ev, Goto, logs,
         Label, Handling, Event, Counter, Mode, ServiceInv,
         Emit, HasSink
    <2> QED
      BY <2>1, <2>2, <2>3, <2>4, <2>5, <2>6, <2>7, <2>8, <2>9, <2>10, <2>11 DEF TypeOK
  <1>2. ServiceInv'
    BY <1>1, PipelineAssumption, <1>0 DEF PipelineInv, TypeOK, FlowInv, Up, At, Ev, Goto, logs,
       Label, Handling, ServiceInv, ServiceOk, Counter,
       Emit, HasSink
  <1>3. FlowInv'
    BY <1>1, PipelineAssumption, <1>0 DEF PipelineInv, TypeOK, FlowInv, Up, At, Ev, Goto, logs,
       Label, Handling, ServiceInv, ServiceOk, EventInv, Event, Counter,
       Emit, HasSink
  <1>4. EventInv'
    BY <1>1, PipelineAssumption, <1>0 DEF PipelineInv, TypeOK, FlowInv, Up, At, Ev, Goto, logs,
       Label, Handling, EventInv, Event, Counter,
       Emit, HasSink
  <1>5. NothingLost'
    BY <1>1, PipelineAssumption, <1>0 DEF PipelineInv, TypeOK, FlowInv, Up, At, Ev, Goto, logs,
       Label, Handling, NothingLost, Counter,
       Emit, HasSink
  <1>6. CountInv'
    <2> DEFINE l == IF signer[Home[t]] THEN "bound" ELSE "raw"
    <2>1. l \in Label /\ Goto(t, l)
      BY DEF Label, PipelineInv, TypeOK, Goto, Emit, HasSink
    <2>2. ASSUME NEW p \in Proc
          PROVE  /\ Handled(p)' = Handled(p) + Delta(p, t, l, Handling)
                 /\ Counting(p)' = Counting(p) + Delta(p, t, l, {"persisted"})
                 /\ Sealing(p)' = Sealing(p) + Delta(p, t, l, {"commit", "signed", "persisted"})
                 /\ Falling(p)' = Falling(p) + Delta(p, t, l, {"raw", "write"})
      <3> HIDE DEF l
      <3> QED
        BY <2>1, Counts DEF PipelineInv
    <2>3. ASSUME NEW p \in Proc PROVE Sealed(p)' = Sealed(p) /\ Plain(p)' = Plain(p)
      BY DEF Sealed, Plain, Mine, logs, Emit, HasSink
    <2>4. ASSUME NEW p \in Proc
          PROVE  /\ Handled(p) \in Nat /\ Counting(p) \in Nat /\ Sealing(p) \in Nat
                 /\ Falling(p) \in Nat /\ Sealed(p) \in Nat /\ Plain(p) \in Nat
      BY CountTypes
    <2>5. mode' = mode /\ signer' = signer
      BY DEF Emit, HasSink
    <2>6. ASSUME NEW p \in Proc, p # Home[t] PROVE CountsRight(p)'
      <3>1. /\ Handled(p)' = Handled(p) /\ Counting(p)' = Counting(p)
            /\ Sealing(p)' = Sealing(p) /\ Falling(p)' = Falling(p)
        BY <2>2, <2>4, <2>6 DEF Delta
      <3>2. \A d \in Counter : metrics'[p][d] = metrics[p][d]
        BY <1>0, <2>6
      <3>3. Sealed(p)' = Sealed(p) /\ Plain(p)' = Plain(p)
        BY <2>3, <2>6
      <3>4. \A d \in Counter : metrics[p][d] \in Nat
        BY DEF PipelineInv, TypeOK
      <3>5. CountsRight(p)
        BY DEF PipelineInv, CountInv
      <3> QED
        BY <2>4, <2>5, <3>1, <3>2, <3>3, <3>4, <3>5 DEF CountsRight, Failures, Up, Counter
    <2>7. ASSUME NEW p \in Proc, p = Home[t] PROVE CountsRight(p)'
      <3>1. /\ Handled(p)' = (IF signer[Home[t]] THEN Handled(p) + 1 ELSE Handled(p))
            /\ Counting(p)' = Counting(p)
            /\ Sealing(p)' = Sealing(p)
            /\ Falling(p)' = (IF signer[Home[t]] THEN Falling(p) ELSE Falling(p) + 1)
        BY <2>2, <2>4, <2>7 DEF Delta, Handling, At, Emit, HasSink
      <3>2. \A d \in Counter : metrics[p][d] \in Nat
        BY DEF PipelineInv, TypeOK
      <3>3. CountsRight(p)
        BY DEF PipelineInv, CountInv
      <3>4. mode[p] \in {"sign", "dual"} => signer[p]
        BY DEF PipelineInv, ServiceInv, ServiceOk
      <3>5. /\ metrics'[p]["received"] = metrics[p]["received"] + (IF HasSink(p) THEN 1 ELSE 0)
            /\ metrics'[p]["signed"] = metrics[p]["signed"]
            /\ metrics'[p]["persisted"] = metrics[p]["persisted"]
            /\ metrics'[p]["rejected_before_signing"] = metrics[p]["rejected_before_signing"]
            /\ metrics'[p]["signing_failures"] = metrics[p]["signing_failures"]
            /\ metrics'[p]["persistence_failures"] = metrics[p]["persistence_failures"]
        BY <1>0, <2>7, <3>2 DEF Counter
      <3>6. /\ metrics[p]["received"] \in Nat
            /\ metrics[p]["signed"] \in Nat
            /\ metrics[p]["persisted"] \in Nat
            /\ metrics[p]["rejected_before_signing"] \in Nat
            /\ metrics[p]["signing_failures"] \in Nat
            /\ metrics[p]["persistence_failures"] \in Nat
        BY <3>2 DEF Counter
      <3>7. Up(p)
        BY <2>7 DEF Emit
      <3>8. HasSink(p) \/ ~signer[p]
        BY DEF HasSink, PipelineInv, ServiceInv, ServiceOk
      <3> QED
        BY <2>3, <2>4, <2>5, <2>7, <3>1, <3>3, <3>4, <3>5, <3>6, <3>7, <3>8 DEF CountsRight,
           Failures, Up
    <2> QED
      BY <2>6, <2>7 DEF CountInv
  <1> QED
    BY <1>1, <1>2, <1>3, <1>4, <1>5, <1>6 DEF PipelineInv

\* The event is bounded.
LEMMA BoundKeeps ==
    ASSUME PipelineInv, NEW t \in Thread, Bound(t)
    PROVE  PipelineInv'
  <1>0. metrics' = metrics
    BY DEF Bound
  <1>1. TypeOK'
    <2>1. mode' \in [Proc -> Mode \cup {"down", "killed"}] /\ signer' \in [Proc -> BOOLEAN]
      BY PipelineAssumption, <1>0 DEF PipelineInv, TypeOK, FlowInv, Up, At, Ev, Goto, logs,
         Label, Handling, Event, Counter, Mode, ServiceInv,
         Bound
    <2>2. metrics' \in [Proc -> [Counter -> Nat]]
      BY PipelineAssumption, <1>0 DEF PipelineInv, TypeOK, FlowInv, Up, At, Ev, Goto, logs,
         Label, Handling, Event, Counter, Mode, ServiceInv,
         Bound
    <2>3. rawLock' \in [Proc -> Thread \cup {Free}] /\ lock' \in Thread \cup {Batch, Free}
      BY PipelineAssumption, <1>0 DEF PipelineInv, TypeOK, FlowInv, Up, At, Ev, Goto, logs,
         Label, Handling, Event, Counter, Mode, ServiceInv,
         Bound
    <2>4. pending' \in BOOLEAN
      BY PipelineAssumption, <1>0 DEF PipelineInv, TypeOK, FlowInv, Up, At, Ev, Goto, logs,
         Label, Handling, Event, Counter, Mode, ServiceInv,
         Bound
    <2>5. pc' \in [Thread -> Label]
      BY PipelineAssumption, <1>0 DEF PipelineInv, TypeOK, FlowInv, Up, At, Ev, Goto, logs,
         Label, Handling, Event, Counter, Mode, ServiceInv,
         Bound
    <2>6. count' \in [Thread -> 0..MaxEvents]
      BY PipelineAssumption, <1>0 DEF PipelineInv, TypeOK, FlowInv, Up, At, Ev, Goto, logs,
         Label, Handling, Event, Counter, Mode, ServiceInv,
         Bound
    <2>7. chain' \subseteq Event \cup ({Batch} \X (1..MaxLines))
      BY PipelineAssumption, <1>0 DEF PipelineInv, TypeOK, FlowInv, Up, At, Ev, Goto, logs,
         Label, Handling, Event, Counter, Mode, ServiceInv,
         Bound
    <2>8. plain' \subseteq Event /\ lost' \subseteq Event /\ returned' \subseteq Event
      BY PipelineAssumption, <1>0 DEF PipelineInv, TypeOK, FlowInv, Up, At, Ev, Goto, logs,
         Label, Handling, Event, Counter, Mode, ServiceInv,
         Bound
    <2>9. line' \in 1..(MaxLines + 1)
      BY PipelineAssumption, <1>0 DEF PipelineInv, TypeOK, FlowInv, Up, At, Ev, Goto, logs,
         Label, Handling, Event, Counter, Mode, ServiceInv,
         Bound
    <2>10. \A u \in Thread : (lock' = u) <=> pc'[u] \in {"sign", "commit"}
      BY PipelineAssumption, <1>0 DEF PipelineInv, TypeOK, FlowInv, Up, At, Ev, Goto, logs,
         Label, Handling, Event, Counter, Mode, ServiceInv,
         Bound
    <2>11. \A u \in Thread : (rawLock'[Home[u]] = u) <=> pc'[u] = "write"
      BY PipelineAssumption, <1>0 DEF PipelineInv, TypeOK, FlowInv, Up, At, Ev, Goto, logs,
         Label, Handling, Event, Counter, Mode, ServiceInv,
         Bound
    <2> QED
      BY <2>1, <2>2, <2>3, <2>4, <2>5, <2>6, <2>7, <2>8, <2>9, <2>10, <2>11 DEF TypeOK
  <1>7. Up(Home[t]) /\ Home[t] \in Proc
    BY PipelineAssumption DEF PipelineInv, FlowInv, At, Bound
  <1>2. ServiceInv'
    <2> SUFFICES ASSUME NEW p \in Proc PROVE ServiceOk(p)'
      BY DEF ServiceInv
    <2>1. mode' = mode /\ signer' = signer /\ count' = count
      BY DEF Bound
    <2>2. CASE p = Home[t]
      BY <1>7, <2>1, <2>2 DEF PipelineInv, ServiceInv, ServiceOk, Up
    <2>3. CASE p # Home[t]
      <3>1. \A u \in Thread : Home[u] = p => pc'[u] = pc[u]
        BY <2>3 DEF PipelineInv, TypeOK, Goto, Bound
      <3>2. \A d \in Counter : metrics'[p][d] = metrics[p][d]
        BY <1>0, <2>3
      <3> QED
        BY <2>1, <3>1, <3>2 DEF PipelineInv, ServiceInv, ServiceOk
    <2> QED
      BY <2>2, <2>3
  <1>3. FlowInv'
    BY PipelineAssumption DEF PipelineInv, TypeOK, FlowInv, Up, At, Ev, Goto, logs, Handling,
       Bound
  <1>4. EventInv'
    BY <1>1, PipelineAssumption, <1>0 DEF PipelineInv, TypeOK, FlowInv, Up, At, Ev, Goto, logs,
       Label, Handling, EventInv, Event, Counter,
       Bound
  <1>5. NothingLost'
    BY <1>1, PipelineAssumption, <1>0 DEF PipelineInv, TypeOK, FlowInv, Up, At, Ev, Goto, logs,
       Label, Handling, NothingLost, Counter,
       Bound
  <1>6. CountInv'
    <2> DEFINE l == "lock"
    <2>1. l \in Label /\ Goto(t, l)
      BY DEF Label, PipelineInv, TypeOK, Goto, Bound
    <2>2. ASSUME NEW p \in Proc
          PROVE  /\ Handled(p)' = Handled(p) + Delta(p, t, l, Handling)
                 /\ Counting(p)' = Counting(p) + Delta(p, t, l, {"persisted"})
                 /\ Sealing(p)' = Sealing(p) + Delta(p, t, l, {"commit", "signed", "persisted"})
                 /\ Falling(p)' = Falling(p) + Delta(p, t, l, {"raw", "write"})
      <3> HIDE DEF l
      <3> QED
        BY <2>1, Counts DEF PipelineInv
    <2>3. ASSUME NEW p \in Proc PROVE Sealed(p)' = Sealed(p) /\ Plain(p)' = Plain(p)
      BY DEF Sealed, Plain, Mine, logs, Bound
    <2>4. ASSUME NEW p \in Proc
          PROVE  /\ Handled(p) \in Nat /\ Counting(p) \in Nat /\ Sealing(p) \in Nat
                 /\ Falling(p) \in Nat /\ Sealed(p) \in Nat /\ Plain(p) \in Nat
      BY CountTypes
    <2>5. mode' = mode /\ signer' = signer
      BY DEF Bound
    <2>6. ASSUME NEW p \in Proc, p # Home[t] PROVE CountsRight(p)'
      <3>1. /\ Handled(p)' = Handled(p) /\ Counting(p)' = Counting(p)
            /\ Sealing(p)' = Sealing(p) /\ Falling(p)' = Falling(p)
        BY <2>2, <2>4, <2>6 DEF Delta
      <3>2. \A d \in Counter : metrics'[p][d] = metrics[p][d]
        BY <1>0, <2>6
      <3>3. Sealed(p)' = Sealed(p) /\ Plain(p)' = Plain(p)
        BY <2>3, <2>6
      <3>4. \A d \in Counter : metrics[p][d] \in Nat
        BY DEF PipelineInv, TypeOK
      <3>5. CountsRight(p)
        BY DEF PipelineInv, CountInv
      <3> QED
        BY <2>4, <2>5, <3>1, <3>2, <3>3, <3>4, <3>5 DEF CountsRight, Failures, Up, Counter
    <2>7. ASSUME NEW p \in Proc, p = Home[t] PROVE CountsRight(p)'
      <3>1. /\ Handled(p)' = Handled(p)
            /\ Counting(p)' = Counting(p)
            /\ Sealing(p)' = Sealing(p)
            /\ Falling(p)' = Falling(p)
        BY <2>2, <2>4, <2>7 DEF Delta, Handling, At, Bound
      <3>2. \A d \in Counter : metrics[p][d] \in Nat
        BY DEF PipelineInv, TypeOK
      <3>3. CountsRight(p)
        BY DEF PipelineInv, CountInv
      <3>4. mode[p] \in {"sign", "dual"} => signer[p]
        BY DEF PipelineInv, ServiceInv, ServiceOk
      <3> QED
        BY <1>0, <2>3, <2>4, <2>5, <2>7, <3>1, <3>2, <3>3, <3>4 DEF CountsRight, Failures, Up,
           Counter, Bound
    <2> QED
      BY <2>6, <2>7 DEF CountInv
  <1> QED
    BY <1>1, <1>2, <1>3, <1>4, <1>5, <1>6 DEF PipelineInv

\* An event that is refused before signing.
LEMMA BoundFailsKeeps ==
    ASSUME PipelineInv, NEW t \in Thread, BoundFails(t)
    PROVE  PipelineInv'
  <1>0. /\ metrics' \in [Proc -> [Counter -> Nat]]
        /\ \A q \in Proc : \A d \in Counter :
              metrics'[q][d] = IF q = Home[t] /\ d = "rejected_before_signing" THEN metrics[q][d] + 1 ELSE metrics[q][d]
    <2>1. Increment(Home[t], "rejected_before_signing") /\ Home[t] \in Proc /\ "rejected_before_signing" \in Counter
      BY PipelineAssumption DEF BoundFails, GiveUp, Counter
    <2> QED
      BY <2>1, Increments DEF PipelineInv
  <1>1. TypeOK'
    <2>1. mode' \in [Proc -> Mode \cup {"down", "killed"}] /\ signer' \in [Proc -> BOOLEAN]
      BY PipelineAssumption, <1>0 DEF PipelineInv, TypeOK, FlowInv, Up, At, Ev, Goto, logs,
         Label, Handling, Event, Counter, Mode, ServiceInv,
         BoundFails, GiveUp
    <2>2. metrics' \in [Proc -> [Counter -> Nat]]
      BY PipelineAssumption, <1>0 DEF PipelineInv, TypeOK, FlowInv, Up, At, Ev, Goto, logs,
         Label, Handling, Event, Counter, Mode, ServiceInv,
         BoundFails, GiveUp
    <2>3. rawLock' \in [Proc -> Thread \cup {Free}] /\ lock' \in Thread \cup {Batch, Free}
      BY PipelineAssumption, <1>0 DEF PipelineInv, TypeOK, FlowInv, Up, At, Ev, Goto, logs,
         Label, Handling, Event, Counter, Mode, ServiceInv,
         BoundFails, GiveUp
    <2>4. pending' \in BOOLEAN
      BY PipelineAssumption, <1>0 DEF PipelineInv, TypeOK, FlowInv, Up, At, Ev, Goto, logs,
         Label, Handling, Event, Counter, Mode, ServiceInv,
         BoundFails, GiveUp
    <2>5. pc' \in [Thread -> Label]
      BY PipelineAssumption, <1>0 DEF PipelineInv, TypeOK, FlowInv, Up, At, Ev, Goto, logs,
         Label, Handling, Event, Counter, Mode, ServiceInv,
         BoundFails, GiveUp
    <2>6. count' \in [Thread -> 0..MaxEvents]
      BY PipelineAssumption, <1>0 DEF PipelineInv, TypeOK, FlowInv, Up, At, Ev, Goto, logs,
         Label, Handling, Event, Counter, Mode, ServiceInv,
         BoundFails, GiveUp
    <2>7. chain' \subseteq Event \cup ({Batch} \X (1..MaxLines))
      BY PipelineAssumption, <1>0 DEF PipelineInv, TypeOK, FlowInv, Up, At, Ev, Goto, logs,
         Label, Handling, Event, Counter, Mode, ServiceInv,
         BoundFails, GiveUp
    <2>8. plain' \subseteq Event /\ lost' \subseteq Event /\ returned' \subseteq Event
      BY PipelineAssumption, <1>0 DEF PipelineInv, TypeOK, FlowInv, Up, At, Ev, Goto, logs,
         Label, Handling, Event, Counter, Mode, ServiceInv,
         BoundFails, GiveUp
    <2>9. line' \in 1..(MaxLines + 1)
      BY PipelineAssumption, <1>0 DEF PipelineInv, TypeOK, FlowInv, Up, At, Ev, Goto, logs,
         Label, Handling, Event, Counter, Mode, ServiceInv,
         BoundFails, GiveUp
    <2>10. \A u \in Thread : (lock' = u) <=> pc'[u] \in {"sign", "commit"}
      BY PipelineAssumption, <1>0 DEF PipelineInv, TypeOK, FlowInv, Up, At, Ev, Goto, logs,
         Label, Handling, Event, Counter, Mode, ServiceInv,
         BoundFails, GiveUp
    <2>11. \A u \in Thread : (rawLock'[Home[u]] = u) <=> pc'[u] = "write"
      BY PipelineAssumption, <1>0 DEF PipelineInv, TypeOK, FlowInv, Up, At, Ev, Goto, logs,
         Label, Handling, Event, Counter, Mode, ServiceInv,
         BoundFails, GiveUp
    <2> QED
      BY <2>1, <2>2, <2>3, <2>4, <2>5, <2>6, <2>7, <2>8, <2>9, <2>10, <2>11 DEF TypeOK
  <1>7. Up(Home[t]) /\ Home[t] \in Proc
    BY PipelineAssumption DEF PipelineInv, FlowInv, At, BoundFails, GiveUp
  <1>2. ServiceInv'
    <2> SUFFICES ASSUME NEW p \in Proc PROVE ServiceOk(p)'
      BY DEF ServiceInv
    <2>1. mode' = mode /\ signer' = signer /\ count' = count
      BY DEF BoundFails, GiveUp
    <2>2. CASE p = Home[t]
      BY <1>7, <2>1, <2>2 DEF PipelineInv, ServiceInv, ServiceOk, Up
    <2>3. CASE p # Home[t]
      <3>1. \A u \in Thread : Home[u] = p => pc'[u] = pc[u]
        BY <2>3 DEF PipelineInv, TypeOK, Goto, BoundFails, GiveUp
      <3>2. \A d \in Counter : metrics'[p][d] = metrics[p][d]
        BY <1>0, <2>3
      <3> QED
        BY <2>1, <3>1, <3>2 DEF PipelineInv, ServiceInv, ServiceOk
    <2> QED
      BY <2>2, <2>3
  <1>3. FlowInv'
    BY PipelineAssumption, SMTT(40) DEF PipelineInv, TypeOK, FlowInv, Up, At, Ev, Goto, logs,
       Handling,
       BoundFails, GiveUp
  <1>4. EventInv'
    BY <1>1, PipelineAssumption, <1>0 DEF PipelineInv, TypeOK, FlowInv, Up, At, Ev, Goto, logs,
       Label, Handling, EventInv, Event, Counter,
       BoundFails, GiveUp
  <1>5. NothingLost'
    BY <1>1, PipelineAssumption, <1>0 DEF PipelineInv, TypeOK, FlowInv, Up, At, Ev, Goto, logs,
       Label, Handling, NothingLost, Counter,
       BoundFails, GiveUp
  <1>6. CountInv'
    <2> DEFINE l == "raw"
    <2>1. l \in Label /\ Goto(t, l)
      BY DEF Label, PipelineInv, TypeOK, Goto, BoundFails, GiveUp
    <2>2. ASSUME NEW p \in Proc
          PROVE  /\ Handled(p)' = Handled(p) + Delta(p, t, l, Handling)
                 /\ Counting(p)' = Counting(p) + Delta(p, t, l, {"persisted"})
                 /\ Sealing(p)' = Sealing(p) + Delta(p, t, l, {"commit", "signed", "persisted"})
                 /\ Falling(p)' = Falling(p) + Delta(p, t, l, {"raw", "write"})
      <3> HIDE DEF l
      <3> QED
        BY <2>1, Counts DEF PipelineInv
    <2>3. ASSUME NEW p \in Proc PROVE Sealed(p)' = Sealed(p) /\ Plain(p)' = Plain(p)
      BY DEF Sealed, Plain, Mine, logs, BoundFails, GiveUp
    <2>4. ASSUME NEW p \in Proc
          PROVE  /\ Handled(p) \in Nat /\ Counting(p) \in Nat /\ Sealing(p) \in Nat
                 /\ Falling(p) \in Nat /\ Sealed(p) \in Nat /\ Plain(p) \in Nat
      BY CountTypes
    <2>5. mode' = mode /\ signer' = signer
      BY DEF BoundFails, GiveUp
    <2>6. ASSUME NEW p \in Proc, p # Home[t] PROVE CountsRight(p)'
      <3>1. /\ Handled(p)' = Handled(p) /\ Counting(p)' = Counting(p)
            /\ Sealing(p)' = Sealing(p) /\ Falling(p)' = Falling(p)
        BY <2>2, <2>4, <2>6 DEF Delta
      <3>2. \A d \in Counter : metrics'[p][d] = metrics[p][d]
        BY <1>0, <2>6
      <3>3. Sealed(p)' = Sealed(p) /\ Plain(p)' = Plain(p)
        BY <2>3, <2>6
      <3>4. \A d \in Counter : metrics[p][d] \in Nat
        BY DEF PipelineInv, TypeOK
      <3>5. CountsRight(p)
        BY DEF PipelineInv, CountInv
      <3> QED
        BY <2>4, <2>5, <3>1, <3>2, <3>3, <3>4, <3>5 DEF CountsRight, Failures, Up, Counter
    <2>7. ASSUME NEW p \in Proc, p = Home[t] PROVE CountsRight(p)'
      <3>1. /\ Handled(p)' = Handled(p) - 1
            /\ Counting(p)' = Counting(p)
            /\ Sealing(p)' = Sealing(p)
            /\ Falling(p)' = Falling(p) + 1
        BY <2>2, <2>4, <2>7 DEF Delta, Handling, At, BoundFails, GiveUp
      <3>2. \A d \in Counter : metrics[p][d] \in Nat
        BY DEF PipelineInv, TypeOK
      <3>3. CountsRight(p)
        BY DEF PipelineInv, CountInv
      <3>4. mode[p] \in {"sign", "dual"} => signer[p]
        BY DEF PipelineInv, ServiceInv, ServiceOk
      <3>5. /\ metrics'[p]["received"] = metrics[p]["received"]
            /\ metrics'[p]["signed"] = metrics[p]["signed"]
            /\ metrics'[p]["persisted"] = metrics[p]["persisted"]
            /\ metrics'[p]["rejected_before_signing"] = metrics[p]["rejected_before_signing"] + 1
            /\ metrics'[p]["signing_failures"] = metrics[p]["signing_failures"]
            /\ metrics'[p]["persistence_failures"] = metrics[p]["persistence_failures"]
        BY <1>0, <2>7, <3>2 DEF Counter
      <3>6. /\ metrics[p]["received"] \in Nat
            /\ metrics[p]["signed"] \in Nat
            /\ metrics[p]["persisted"] \in Nat
            /\ metrics[p]["rejected_before_signing"] \in Nat
            /\ metrics[p]["signing_failures"] \in Nat
            /\ metrics[p]["persistence_failures"] \in Nat
        BY <3>2 DEF Counter
      <3>7. Failures(p)' = Failures(p) + 1 /\ Failures(p) \in Nat
        BY <3>5, <3>6 DEF Failures
      <3>8. /\ Handled(p) \in Nat /\ Sealing(p) \in Nat /\ Falling(p) \in Nat /\ Plain(p) \in Nat
            /\ Sealed(p)' = Sealed(p) /\ Plain(p)' = Plain(p)
        BY <2>3, <2>4
      <3> QED
        BY <2>5, <3>1, <3>3, <3>5, <3>6, <3>7, <3>8 DEF CountsRight, Up
    <2> QED
      BY <2>6, <2>7 DEF CountInv
  <1> QED
    BY <1>1, <1>2, <1>3, <1>4, <1>5, <1>6 DEF PipelineInv

\* The thread opens the store.
LEMMA OpenKeeps ==
    ASSUME PipelineInv, NEW t \in Thread, Open(t)
    PROVE  PipelineInv'
  <1>0. metrics' = metrics
    BY DEF Open
  <1>1. TypeOK'
    <2>1. mode' \in [Proc -> Mode \cup {"down", "killed"}] /\ signer' \in [Proc -> BOOLEAN]
      BY PipelineAssumption, <1>0 DEF PipelineInv, TypeOK, FlowInv, Up, At, Ev, Goto, logs,
         Label, Handling, Event, Counter, Mode, ServiceInv,
         Open
    <2>2. metrics' \in [Proc -> [Counter -> Nat]]
      BY PipelineAssumption, <1>0 DEF PipelineInv, TypeOK, FlowInv, Up, At, Ev, Goto, logs,
         Label, Handling, Event, Counter, Mode, ServiceInv,
         Open
    <2>3. rawLock' \in [Proc -> Thread \cup {Free}] /\ lock' \in Thread \cup {Batch, Free}
      BY PipelineAssumption, <1>0 DEF PipelineInv, TypeOK, FlowInv, Up, At, Ev, Goto, logs,
         Label, Handling, Event, Counter, Mode, ServiceInv,
         Open
    <2>4. pending' \in BOOLEAN
      BY PipelineAssumption, <1>0 DEF PipelineInv, TypeOK, FlowInv, Up, At, Ev, Goto, logs,
         Label, Handling, Event, Counter, Mode, ServiceInv,
         Open
    <2>5. pc' \in [Thread -> Label]
      BY PipelineAssumption, <1>0 DEF PipelineInv, TypeOK, FlowInv, Up, At, Ev, Goto, logs,
         Label, Handling, Event, Counter, Mode, ServiceInv,
         Open
    <2>6. count' \in [Thread -> 0..MaxEvents]
      BY PipelineAssumption, <1>0 DEF PipelineInv, TypeOK, FlowInv, Up, At, Ev, Goto, logs,
         Label, Handling, Event, Counter, Mode, ServiceInv,
         Open
    <2>7. chain' \subseteq Event \cup ({Batch} \X (1..MaxLines))
      BY PipelineAssumption, <1>0 DEF PipelineInv, TypeOK, FlowInv, Up, At, Ev, Goto, logs,
         Label, Handling, Event, Counter, Mode, ServiceInv,
         Open
    <2>8. plain' \subseteq Event /\ lost' \subseteq Event /\ returned' \subseteq Event
      BY PipelineAssumption, <1>0 DEF PipelineInv, TypeOK, FlowInv, Up, At, Ev, Goto, logs,
         Label, Handling, Event, Counter, Mode, ServiceInv,
         Open
    <2>9. line' \in 1..(MaxLines + 1)
      BY PipelineAssumption, <1>0 DEF PipelineInv, TypeOK, FlowInv, Up, At, Ev, Goto, logs,
         Label, Handling, Event, Counter, Mode, ServiceInv,
         Open
    <2>10. \A u \in Thread : (lock' = u) <=> pc'[u] \in {"sign", "commit"}
      BY PipelineAssumption, <1>0 DEF PipelineInv, TypeOK, FlowInv, Up, At, Ev, Goto, logs,
         Label, Handling, Event, Counter, Mode, ServiceInv,
         Open
    <2>11. \A u \in Thread : (rawLock'[Home[u]] = u) <=> pc'[u] = "write"
      BY PipelineAssumption, <1>0 DEF PipelineInv, TypeOK, FlowInv, Up, At, Ev, Goto, logs,
         Label, Handling, Event, Counter, Mode, ServiceInv,
         Open
    <2> QED
      BY <2>1, <2>2, <2>3, <2>4, <2>5, <2>6, <2>7, <2>8, <2>9, <2>10, <2>11 DEF TypeOK
  <1>7. Up(Home[t]) /\ Home[t] \in Proc
    BY PipelineAssumption DEF PipelineInv, FlowInv, At, Open
  <1>2. ServiceInv'
    <2> SUFFICES ASSUME NEW p \in Proc PROVE ServiceOk(p)'
      BY DEF ServiceInv
    <2>1. mode' = mode /\ signer' = signer /\ count' = count
      BY DEF Open
    <2>2. CASE p = Home[t]
      BY <1>7, <2>1, <2>2 DEF PipelineInv, ServiceInv, ServiceOk, Up
    <2>3. CASE p # Home[t]
      <3>1. \A u \in Thread : Home[u] = p => pc'[u] = pc[u]
        BY <2>3 DEF PipelineInv, TypeOK, Goto, Open
      <3>2. \A d \in Counter : metrics'[p][d] = metrics[p][d]
        BY <1>0, <2>3
      <3> QED
        BY <2>1, <3>1, <3>2 DEF PipelineInv, ServiceInv, ServiceOk
    <2> QED
      BY <2>2, <2>3
  <1>3. FlowInv'
    BY PipelineAssumption DEF PipelineInv, TypeOK, FlowInv, Up, At, Ev, Goto, logs, Handling,
       Open
  <1>4. EventInv'
    BY <1>1, PipelineAssumption, <1>0 DEF PipelineInv, TypeOK, FlowInv, Up, At, Ev, Goto, logs,
       Label, Handling, EventInv, Event, Counter,
       Open
  <1>5. NothingLost'
    BY <1>1, PipelineAssumption, <1>0 DEF PipelineInv, TypeOK, FlowInv, Up, At, Ev, Goto, logs,
       Label, Handling, NothingLost, Counter,
       Open
  <1>6. CountInv'
    <2> DEFINE l == "sign"
    <2>1. l \in Label /\ Goto(t, l)
      BY DEF Label, PipelineInv, TypeOK, Goto, Open
    <2>2. ASSUME NEW p \in Proc
          PROVE  /\ Handled(p)' = Handled(p) + Delta(p, t, l, Handling)
                 /\ Counting(p)' = Counting(p) + Delta(p, t, l, {"persisted"})
                 /\ Sealing(p)' = Sealing(p) + Delta(p, t, l, {"commit", "signed", "persisted"})
                 /\ Falling(p)' = Falling(p) + Delta(p, t, l, {"raw", "write"})
      <3> HIDE DEF l
      <3> QED
        BY <2>1, Counts DEF PipelineInv
    <2>3. ASSUME NEW p \in Proc PROVE Sealed(p)' = Sealed(p) /\ Plain(p)' = Plain(p)
      BY DEF Sealed, Plain, Mine, logs, Open
    <2>4. ASSUME NEW p \in Proc
          PROVE  /\ Handled(p) \in Nat /\ Counting(p) \in Nat /\ Sealing(p) \in Nat
                 /\ Falling(p) \in Nat /\ Sealed(p) \in Nat /\ Plain(p) \in Nat
      BY CountTypes
    <2>5. mode' = mode /\ signer' = signer
      BY DEF Open
    <2>6. ASSUME NEW p \in Proc, p # Home[t] PROVE CountsRight(p)'
      <3>1. /\ Handled(p)' = Handled(p) /\ Counting(p)' = Counting(p)
            /\ Sealing(p)' = Sealing(p) /\ Falling(p)' = Falling(p)
        BY <2>2, <2>4, <2>6 DEF Delta
      <3>2. \A d \in Counter : metrics'[p][d] = metrics[p][d]
        BY <1>0, <2>6
      <3>3. Sealed(p)' = Sealed(p) /\ Plain(p)' = Plain(p)
        BY <2>3, <2>6
      <3>4. \A d \in Counter : metrics[p][d] \in Nat
        BY DEF PipelineInv, TypeOK
      <3>5. CountsRight(p)
        BY DEF PipelineInv, CountInv
      <3> QED
        BY <2>4, <2>5, <3>1, <3>2, <3>3, <3>4, <3>5 DEF CountsRight, Failures, Up, Counter
    <2>7. ASSUME NEW p \in Proc, p = Home[t] PROVE CountsRight(p)'
      <3>1. /\ Handled(p)' = Handled(p)
            /\ Counting(p)' = Counting(p)
            /\ Sealing(p)' = Sealing(p)
            /\ Falling(p)' = Falling(p)
        BY <2>2, <2>4, <2>7 DEF Delta, Handling, At, Open
      <3>2. \A d \in Counter : metrics[p][d] \in Nat
        BY DEF PipelineInv, TypeOK
      <3>3. CountsRight(p)
        BY DEF PipelineInv, CountInv
      <3>4. mode[p] \in {"sign", "dual"} => signer[p]
        BY DEF PipelineInv, ServiceInv, ServiceOk
      <3> QED
        BY <1>0, <2>3, <2>4, <2>5, <2>7, <3>1, <3>2, <3>3, <3>4 DEF CountsRight, Failures, Up,
           Counter, Open
    <2> QED
      BY <2>6, <2>7 DEF CountInv
  <1> QED
    BY <1>1, <1>2, <1>3, <1>4, <1>5, <1>6 DEF PipelineInv

\* The store is not opened in time.
LEMMA OpenFailsKeeps ==
    ASSUME PipelineInv, NEW t \in Thread, OpenFails(t)
    PROVE  PipelineInv'
  <1>0. /\ metrics' \in [Proc -> [Counter -> Nat]]
        /\ \A q \in Proc : \A d \in Counter :
              metrics'[q][d] = IF q = Home[t] /\ d = "persistence_failures" THEN metrics[q][d] + 1 ELSE metrics[q][d]
    <2>1. Increment(Home[t], "persistence_failures") /\ Home[t] \in Proc /\ "persistence_failures" \in Counter
      BY PipelineAssumption DEF OpenFails, GiveUp, Counter
    <2> QED
      BY <2>1, Increments DEF PipelineInv
  <1>1. TypeOK'
    <2>1. mode' \in [Proc -> Mode \cup {"down", "killed"}] /\ signer' \in [Proc -> BOOLEAN]
      BY PipelineAssumption, <1>0 DEF PipelineInv, TypeOK, FlowInv, Up, At, Ev, Goto, logs,
         Label, Handling, Event, Counter, Mode, ServiceInv,
         OpenFails, GiveUp
    <2>2. metrics' \in [Proc -> [Counter -> Nat]]
      BY PipelineAssumption, <1>0 DEF PipelineInv, TypeOK, FlowInv, Up, At, Ev, Goto, logs,
         Label, Handling, Event, Counter, Mode, ServiceInv,
         OpenFails, GiveUp
    <2>3. rawLock' \in [Proc -> Thread \cup {Free}] /\ lock' \in Thread \cup {Batch, Free}
      BY PipelineAssumption, <1>0 DEF PipelineInv, TypeOK, FlowInv, Up, At, Ev, Goto, logs,
         Label, Handling, Event, Counter, Mode, ServiceInv,
         OpenFails, GiveUp
    <2>4. pending' \in BOOLEAN
      BY PipelineAssumption, <1>0 DEF PipelineInv, TypeOK, FlowInv, Up, At, Ev, Goto, logs,
         Label, Handling, Event, Counter, Mode, ServiceInv,
         OpenFails, GiveUp
    <2>5. pc' \in [Thread -> Label]
      BY PipelineAssumption, <1>0 DEF PipelineInv, TypeOK, FlowInv, Up, At, Ev, Goto, logs,
         Label, Handling, Event, Counter, Mode, ServiceInv,
         OpenFails, GiveUp
    <2>6. count' \in [Thread -> 0..MaxEvents]
      BY PipelineAssumption, <1>0 DEF PipelineInv, TypeOK, FlowInv, Up, At, Ev, Goto, logs,
         Label, Handling, Event, Counter, Mode, ServiceInv,
         OpenFails, GiveUp
    <2>7. chain' \subseteq Event \cup ({Batch} \X (1..MaxLines))
      BY PipelineAssumption, <1>0 DEF PipelineInv, TypeOK, FlowInv, Up, At, Ev, Goto, logs,
         Label, Handling, Event, Counter, Mode, ServiceInv,
         OpenFails, GiveUp
    <2>8. plain' \subseteq Event /\ lost' \subseteq Event /\ returned' \subseteq Event
      BY PipelineAssumption, <1>0 DEF PipelineInv, TypeOK, FlowInv, Up, At, Ev, Goto, logs,
         Label, Handling, Event, Counter, Mode, ServiceInv,
         OpenFails, GiveUp
    <2>9. line' \in 1..(MaxLines + 1)
      BY PipelineAssumption, <1>0 DEF PipelineInv, TypeOK, FlowInv, Up, At, Ev, Goto, logs,
         Label, Handling, Event, Counter, Mode, ServiceInv,
         OpenFails, GiveUp
    <2>10. \A u \in Thread : (lock' = u) <=> pc'[u] \in {"sign", "commit"}
      BY PipelineAssumption, <1>0 DEF PipelineInv, TypeOK, FlowInv, Up, At, Ev, Goto, logs,
         Label, Handling, Event, Counter, Mode, ServiceInv,
         OpenFails, GiveUp
    <2>11. \A u \in Thread : (rawLock'[Home[u]] = u) <=> pc'[u] = "write"
      BY PipelineAssumption, <1>0 DEF PipelineInv, TypeOK, FlowInv, Up, At, Ev, Goto, logs,
         Label, Handling, Event, Counter, Mode, ServiceInv,
         OpenFails, GiveUp
    <2> QED
      BY <2>1, <2>2, <2>3, <2>4, <2>5, <2>6, <2>7, <2>8, <2>9, <2>10, <2>11 DEF TypeOK
  <1>7. Up(Home[t]) /\ Home[t] \in Proc
    BY PipelineAssumption DEF PipelineInv, FlowInv, At, OpenFails, GiveUp
  <1>2. ServiceInv'
    <2> SUFFICES ASSUME NEW p \in Proc PROVE ServiceOk(p)'
      BY DEF ServiceInv
    <2>1. mode' = mode /\ signer' = signer /\ count' = count
      BY DEF OpenFails, GiveUp
    <2>2. CASE p = Home[t]
      BY <1>7, <2>1, <2>2 DEF PipelineInv, ServiceInv, ServiceOk, Up
    <2>3. CASE p # Home[t]
      <3>1. \A u \in Thread : Home[u] = p => pc'[u] = pc[u]
        BY <2>3 DEF PipelineInv, TypeOK, Goto, OpenFails, GiveUp
      <3>2. \A d \in Counter : metrics'[p][d] = metrics[p][d]
        BY <1>0, <2>3
      <3> QED
        BY <2>1, <3>1, <3>2 DEF PipelineInv, ServiceInv, ServiceOk
    <2> QED
      BY <2>2, <2>3
  <1>3. FlowInv'
    BY PipelineAssumption, SMTT(40) DEF PipelineInv, TypeOK, FlowInv, Up, At, Ev, Goto, logs,
       Handling,
       OpenFails, GiveUp
  <1>4. EventInv'
    BY <1>1, PipelineAssumption, <1>0 DEF PipelineInv, TypeOK, FlowInv, Up, At, Ev, Goto, logs,
       Label, Handling, EventInv, Event, Counter,
       OpenFails, GiveUp
  <1>5. NothingLost'
    BY <1>1, PipelineAssumption, <1>0 DEF PipelineInv, TypeOK, FlowInv, Up, At, Ev, Goto, logs,
       Label, Handling, NothingLost, Counter,
       OpenFails, GiveUp
  <1>6. CountInv'
    <2> DEFINE l == "raw"
    <2>1. l \in Label /\ Goto(t, l)
      BY DEF Label, PipelineInv, TypeOK, Goto, OpenFails, GiveUp
    <2>2. ASSUME NEW p \in Proc
          PROVE  /\ Handled(p)' = Handled(p) + Delta(p, t, l, Handling)
                 /\ Counting(p)' = Counting(p) + Delta(p, t, l, {"persisted"})
                 /\ Sealing(p)' = Sealing(p) + Delta(p, t, l, {"commit", "signed", "persisted"})
                 /\ Falling(p)' = Falling(p) + Delta(p, t, l, {"raw", "write"})
      <3> HIDE DEF l
      <3> QED
        BY <2>1, Counts DEF PipelineInv
    <2>3. ASSUME NEW p \in Proc PROVE Sealed(p)' = Sealed(p) /\ Plain(p)' = Plain(p)
      BY DEF Sealed, Plain, Mine, logs, OpenFails, GiveUp
    <2>4. ASSUME NEW p \in Proc
          PROVE  /\ Handled(p) \in Nat /\ Counting(p) \in Nat /\ Sealing(p) \in Nat
                 /\ Falling(p) \in Nat /\ Sealed(p) \in Nat /\ Plain(p) \in Nat
      BY CountTypes
    <2>5. mode' = mode /\ signer' = signer
      BY DEF OpenFails, GiveUp
    <2>6. ASSUME NEW p \in Proc, p # Home[t] PROVE CountsRight(p)'
      <3>1. /\ Handled(p)' = Handled(p) /\ Counting(p)' = Counting(p)
            /\ Sealing(p)' = Sealing(p) /\ Falling(p)' = Falling(p)
        BY <2>2, <2>4, <2>6 DEF Delta
      <3>2. \A d \in Counter : metrics'[p][d] = metrics[p][d]
        BY <1>0, <2>6
      <3>3. Sealed(p)' = Sealed(p) /\ Plain(p)' = Plain(p)
        BY <2>3, <2>6
      <3>4. \A d \in Counter : metrics[p][d] \in Nat
        BY DEF PipelineInv, TypeOK
      <3>5. CountsRight(p)
        BY DEF PipelineInv, CountInv
      <3> QED
        BY <2>4, <2>5, <3>1, <3>2, <3>3, <3>4, <3>5 DEF CountsRight, Failures, Up, Counter
    <2>7. ASSUME NEW p \in Proc, p = Home[t] PROVE CountsRight(p)'
      <3>1. /\ Handled(p)' = Handled(p) - 1
            /\ Counting(p)' = Counting(p)
            /\ Sealing(p)' = Sealing(p)
            /\ Falling(p)' = Falling(p) + 1
        BY <2>2, <2>4, <2>7 DEF Delta, Handling, At, OpenFails, GiveUp
      <3>2. \A d \in Counter : metrics[p][d] \in Nat
        BY DEF PipelineInv, TypeOK
      <3>3. CountsRight(p)
        BY DEF PipelineInv, CountInv
      <3>4. mode[p] \in {"sign", "dual"} => signer[p]
        BY DEF PipelineInv, ServiceInv, ServiceOk
      <3> QED
        BY <1>0, <2>3, <2>4, <2>5, <2>7, <3>1, <3>2, <3>3, <3>4 DEF CountsRight, Failures, Up,
           Counter, OpenFails, GiveUp
    <2> QED
      BY <2>6, <2>7 DEF CountInv
  <1> QED
    BY <1>1, <1>2, <1>3, <1>4, <1>5, <1>6 DEF PipelineInv

\* The backend fails.
LEMMA BackendFailsKeeps ==
    ASSUME PipelineInv, NEW t \in Thread, BackendFails(t)
    PROVE  PipelineInv'
  <1>0. /\ metrics' \in [Proc -> [Counter -> Nat]]
        /\ \A q \in Proc : \A d \in Counter :
              metrics'[q][d] = IF q = Home[t] /\ d = "backend_unavailable" THEN metrics[q][d] + 1 ELSE metrics[q][d]
    <2>1. Increment(Home[t], "backend_unavailable") /\ Home[t] \in Proc /\ "backend_unavailable" \in Counter
      BY PipelineAssumption DEF BackendFails, Counter
    <2> QED
      BY <2>1, Increments DEF PipelineInv
  <1>1. TypeOK'
    <2>1. mode' \in [Proc -> Mode \cup {"down", "killed"}] /\ signer' \in [Proc -> BOOLEAN]
      BY PipelineAssumption, <1>0 DEF PipelineInv, TypeOK, FlowInv, Up, At, Ev, Goto, logs,
         Label, Handling, Event, Counter, Mode, ServiceInv,
         BackendFails
    <2>2. metrics' \in [Proc -> [Counter -> Nat]]
      BY PipelineAssumption, <1>0 DEF PipelineInv, TypeOK, FlowInv, Up, At, Ev, Goto, logs,
         Label, Handling, Event, Counter, Mode, ServiceInv,
         BackendFails
    <2>3. rawLock' \in [Proc -> Thread \cup {Free}] /\ lock' \in Thread \cup {Batch, Free}
      BY PipelineAssumption, <1>0 DEF PipelineInv, TypeOK, FlowInv, Up, At, Ev, Goto, logs,
         Label, Handling, Event, Counter, Mode, ServiceInv,
         BackendFails
    <2>4. pending' \in BOOLEAN
      BY PipelineAssumption, <1>0 DEF PipelineInv, TypeOK, FlowInv, Up, At, Ev, Goto, logs,
         Label, Handling, Event, Counter, Mode, ServiceInv,
         BackendFails
    <2>5. pc' \in [Thread -> Label]
      BY PipelineAssumption, <1>0 DEF PipelineInv, TypeOK, FlowInv, Up, At, Ev, Goto, logs,
         Label, Handling, Event, Counter, Mode, ServiceInv,
         BackendFails
    <2>6. count' \in [Thread -> 0..MaxEvents]
      BY PipelineAssumption, <1>0 DEF PipelineInv, TypeOK, FlowInv, Up, At, Ev, Goto, logs,
         Label, Handling, Event, Counter, Mode, ServiceInv,
         BackendFails
    <2>7. chain' \subseteq Event \cup ({Batch} \X (1..MaxLines))
      BY PipelineAssumption, <1>0 DEF PipelineInv, TypeOK, FlowInv, Up, At, Ev, Goto, logs,
         Label, Handling, Event, Counter, Mode, ServiceInv,
         BackendFails
    <2>8. plain' \subseteq Event /\ lost' \subseteq Event /\ returned' \subseteq Event
      BY PipelineAssumption, <1>0 DEF PipelineInv, TypeOK, FlowInv, Up, At, Ev, Goto, logs,
         Label, Handling, Event, Counter, Mode, ServiceInv,
         BackendFails
    <2>9. line' \in 1..(MaxLines + 1)
      BY PipelineAssumption, <1>0 DEF PipelineInv, TypeOK, FlowInv, Up, At, Ev, Goto, logs,
         Label, Handling, Event, Counter, Mode, ServiceInv,
         BackendFails
    <2>10. \A u \in Thread : (lock' = u) <=> pc'[u] \in {"sign", "commit"}
      BY PipelineAssumption, <1>0 DEF PipelineInv, TypeOK, FlowInv, Up, At, Ev, Goto, logs,
         Label, Handling, Event, Counter, Mode, ServiceInv,
         BackendFails
    <2>11. \A u \in Thread : (rawLock'[Home[u]] = u) <=> pc'[u] = "write"
      BY PipelineAssumption, <1>0 DEF PipelineInv, TypeOK, FlowInv, Up, At, Ev, Goto, logs,
         Label, Handling, Event, Counter, Mode, ServiceInv,
         BackendFails
    <2> QED
      BY <2>1, <2>2, <2>3, <2>4, <2>5, <2>6, <2>7, <2>8, <2>9, <2>10, <2>11 DEF TypeOK
  <1>7. Up(Home[t]) /\ Home[t] \in Proc
    BY PipelineAssumption DEF PipelineInv, FlowInv, At, BackendFails
  <1>2. ServiceInv'
    <2> SUFFICES ASSUME NEW p \in Proc PROVE ServiceOk(p)'
      BY DEF ServiceInv
    <2>1. mode' = mode /\ signer' = signer /\ count' = count
      BY DEF BackendFails
    <2>2. CASE p = Home[t]
      BY <1>7, <2>1, <2>2 DEF PipelineInv, ServiceInv, ServiceOk, Up
    <2>3. CASE p # Home[t]
      <3>1. \A u \in Thread : Home[u] = p => pc'[u] = pc[u]
        BY <2>3 DEF PipelineInv, TypeOK, Goto, BackendFails
      <3>2. \A d \in Counter : metrics'[p][d] = metrics[p][d]
        BY <1>0, <2>3
      <3> QED
        BY <2>1, <3>1, <3>2 DEF PipelineInv, ServiceInv, ServiceOk
    <2> QED
      BY <2>2, <2>3
  <1>3. FlowInv'
    BY PipelineAssumption DEF PipelineInv, TypeOK, FlowInv, Up, At, Ev, Goto, logs, Handling,
       BackendFails
  <1>4. EventInv'
    BY <1>1, PipelineAssumption, <1>0 DEF PipelineInv, TypeOK, FlowInv, Up, At, Ev, Goto, logs,
       Label, Handling, EventInv, Event, Counter,
       BackendFails
  <1>5. NothingLost'
    BY <1>1, PipelineAssumption, <1>0 DEF PipelineInv, TypeOK, FlowInv, Up, At, Ev, Goto, logs,
       Label, Handling, NothingLost, Counter,
       BackendFails
  <1>6. CountInv'
    <2> DEFINE l == "backend"
    <2>1. l \in Label /\ Goto(t, l)
      BY DEF Label, PipelineInv, TypeOK, Goto, BackendFails
    <2>2. ASSUME NEW p \in Proc
          PROVE  /\ Handled(p)' = Handled(p) + Delta(p, t, l, Handling)
                 /\ Counting(p)' = Counting(p) + Delta(p, t, l, {"persisted"})
                 /\ Sealing(p)' = Sealing(p) + Delta(p, t, l, {"commit", "signed", "persisted"})
                 /\ Falling(p)' = Falling(p) + Delta(p, t, l, {"raw", "write"})
      <3> HIDE DEF l
      <3> QED
        BY <2>1, Counts DEF PipelineInv
    <2>3. ASSUME NEW p \in Proc PROVE Sealed(p)' = Sealed(p) /\ Plain(p)' = Plain(p)
      BY DEF Sealed, Plain, Mine, logs, BackendFails
    <2>4. ASSUME NEW p \in Proc
          PROVE  /\ Handled(p) \in Nat /\ Counting(p) \in Nat /\ Sealing(p) \in Nat
                 /\ Falling(p) \in Nat /\ Sealed(p) \in Nat /\ Plain(p) \in Nat
      BY CountTypes
    <2>5. mode' = mode /\ signer' = signer
      BY DEF BackendFails
    <2>6. ASSUME NEW p \in Proc, p # Home[t] PROVE CountsRight(p)'
      <3>1. /\ Handled(p)' = Handled(p) /\ Counting(p)' = Counting(p)
            /\ Sealing(p)' = Sealing(p) /\ Falling(p)' = Falling(p)
        BY <2>2, <2>4, <2>6 DEF Delta
      <3>2. \A d \in Counter : metrics'[p][d] = metrics[p][d]
        BY <1>0, <2>6
      <3>3. Sealed(p)' = Sealed(p) /\ Plain(p)' = Plain(p)
        BY <2>3, <2>6
      <3>4. \A d \in Counter : metrics[p][d] \in Nat
        BY DEF PipelineInv, TypeOK
      <3>5. CountsRight(p)
        BY DEF PipelineInv, CountInv
      <3> QED
        BY <2>4, <2>5, <3>1, <3>2, <3>3, <3>4, <3>5 DEF CountsRight, Failures, Up, Counter
    <2>7. ASSUME NEW p \in Proc, p = Home[t] PROVE CountsRight(p)'
      <3>1. /\ Handled(p)' = Handled(p)
            /\ Counting(p)' = Counting(p)
            /\ Sealing(p)' = Sealing(p)
            /\ Falling(p)' = Falling(p)
        BY <2>2, <2>4, <2>7 DEF Delta, Handling, At, BackendFails
      <3>2. \A d \in Counter : metrics[p][d] \in Nat
        BY DEF PipelineInv, TypeOK
      <3>3. CountsRight(p)
        BY DEF PipelineInv, CountInv
      <3>4. mode[p] \in {"sign", "dual"} => signer[p]
        BY DEF PipelineInv, ServiceInv, ServiceOk
      <3> QED
        BY <1>0, <2>3, <2>4, <2>5, <2>7, <3>1, <3>2, <3>3, <3>4 DEF CountsRight, Failures, Up,
           Counter, BackendFails
    <2> QED
      BY <2>6, <2>7 DEF CountInv
  <1> QED
    BY <1>1, <1>2, <1>3, <1>4, <1>5, <1>6 DEF PipelineInv

\* Its second counter.
LEMMA BackendCountedKeeps ==
    ASSUME PipelineInv, NEW t \in Thread, BackendCounted(t)
    PROVE  PipelineInv'
  <1>0. /\ metrics' \in [Proc -> [Counter -> Nat]]
        /\ \A q \in Proc : \A d \in Counter :
              metrics'[q][d] = IF q = Home[t] /\ d = "signing_failures" THEN metrics[q][d] + 1 ELSE metrics[q][d]
    <2>1. Increment(Home[t], "signing_failures") /\ Home[t] \in Proc /\ "signing_failures" \in Counter
      BY PipelineAssumption DEF BackendCounted, GiveUp, Counter
    <2> QED
      BY <2>1, Increments DEF PipelineInv
  <1>1. TypeOK'
    <2>1. mode' \in [Proc -> Mode \cup {"down", "killed"}] /\ signer' \in [Proc -> BOOLEAN]
      BY PipelineAssumption, <1>0 DEF PipelineInv, TypeOK, FlowInv, Up, At, Ev, Goto, logs,
         Label, Handling, Event, Counter, Mode, ServiceInv,
         BackendCounted, GiveUp
    <2>2. metrics' \in [Proc -> [Counter -> Nat]]
      BY PipelineAssumption, <1>0 DEF PipelineInv, TypeOK, FlowInv, Up, At, Ev, Goto, logs,
         Label, Handling, Event, Counter, Mode, ServiceInv,
         BackendCounted, GiveUp
    <2>3. rawLock' \in [Proc -> Thread \cup {Free}] /\ lock' \in Thread \cup {Batch, Free}
      BY PipelineAssumption, <1>0 DEF PipelineInv, TypeOK, FlowInv, Up, At, Ev, Goto, logs,
         Label, Handling, Event, Counter, Mode, ServiceInv,
         BackendCounted, GiveUp
    <2>4. pending' \in BOOLEAN
      BY PipelineAssumption, <1>0 DEF PipelineInv, TypeOK, FlowInv, Up, At, Ev, Goto, logs,
         Label, Handling, Event, Counter, Mode, ServiceInv,
         BackendCounted, GiveUp
    <2>5. pc' \in [Thread -> Label]
      BY PipelineAssumption, <1>0 DEF PipelineInv, TypeOK, FlowInv, Up, At, Ev, Goto, logs,
         Label, Handling, Event, Counter, Mode, ServiceInv,
         BackendCounted, GiveUp
    <2>6. count' \in [Thread -> 0..MaxEvents]
      BY PipelineAssumption, <1>0 DEF PipelineInv, TypeOK, FlowInv, Up, At, Ev, Goto, logs,
         Label, Handling, Event, Counter, Mode, ServiceInv,
         BackendCounted, GiveUp
    <2>7. chain' \subseteq Event \cup ({Batch} \X (1..MaxLines))
      BY PipelineAssumption, <1>0 DEF PipelineInv, TypeOK, FlowInv, Up, At, Ev, Goto, logs,
         Label, Handling, Event, Counter, Mode, ServiceInv,
         BackendCounted, GiveUp
    <2>8. plain' \subseteq Event /\ lost' \subseteq Event /\ returned' \subseteq Event
      BY PipelineAssumption, <1>0 DEF PipelineInv, TypeOK, FlowInv, Up, At, Ev, Goto, logs,
         Label, Handling, Event, Counter, Mode, ServiceInv,
         BackendCounted, GiveUp
    <2>9. line' \in 1..(MaxLines + 1)
      BY PipelineAssumption, <1>0 DEF PipelineInv, TypeOK, FlowInv, Up, At, Ev, Goto, logs,
         Label, Handling, Event, Counter, Mode, ServiceInv,
         BackendCounted, GiveUp
    <2>10. \A u \in Thread : (lock' = u) <=> pc'[u] \in {"sign", "commit"}
      BY PipelineAssumption, <1>0 DEF PipelineInv, TypeOK, FlowInv, Up, At, Ev, Goto, logs,
         Label, Handling, Event, Counter, Mode, ServiceInv,
         BackendCounted, GiveUp
    <2>11. \A u \in Thread : (rawLock'[Home[u]] = u) <=> pc'[u] = "write"
      BY PipelineAssumption, <1>0 DEF PipelineInv, TypeOK, FlowInv, Up, At, Ev, Goto, logs,
         Label, Handling, Event, Counter, Mode, ServiceInv,
         BackendCounted, GiveUp
    <2> QED
      BY <2>1, <2>2, <2>3, <2>4, <2>5, <2>6, <2>7, <2>8, <2>9, <2>10, <2>11 DEF TypeOK
  <1>7. Up(Home[t]) /\ Home[t] \in Proc
    BY PipelineAssumption DEF PipelineInv, FlowInv, At, BackendCounted, GiveUp
  <1>2. ServiceInv'
    <2> SUFFICES ASSUME NEW p \in Proc PROVE ServiceOk(p)'
      BY DEF ServiceInv
    <2>1. mode' = mode /\ signer' = signer /\ count' = count
      BY DEF BackendCounted, GiveUp
    <2>2. CASE p = Home[t]
      BY <1>7, <2>1, <2>2 DEF PipelineInv, ServiceInv, ServiceOk, Up
    <2>3. CASE p # Home[t]
      <3>1. \A u \in Thread : Home[u] = p => pc'[u] = pc[u]
        BY <2>3 DEF PipelineInv, TypeOK, Goto, BackendCounted, GiveUp
      <3>2. \A d \in Counter : metrics'[p][d] = metrics[p][d]
        BY <1>0, <2>3
      <3> QED
        BY <2>1, <3>1, <3>2 DEF PipelineInv, ServiceInv, ServiceOk
    <2> QED
      BY <2>2, <2>3
  <1>3. FlowInv'
    BY PipelineAssumption, SMTT(40) DEF PipelineInv, TypeOK, FlowInv, Up, At, Ev, Goto, logs,
       Handling,
       BackendCounted, GiveUp
  <1>4. EventInv'
    BY <1>1, PipelineAssumption, <1>0 DEF PipelineInv, TypeOK, FlowInv, Up, At, Ev, Goto, logs,
       Label, Handling, EventInv, Event, Counter,
       BackendCounted, GiveUp
  <1>5. NothingLost'
    BY <1>1, PipelineAssumption, <1>0 DEF PipelineInv, TypeOK, FlowInv, Up, At, Ev, Goto, logs,
       Label, Handling, NothingLost, Counter,
       BackendCounted, GiveUp
  <1>6. CountInv'
    <2> DEFINE l == "raw"
    <2>1. l \in Label /\ Goto(t, l)
      BY DEF Label, PipelineInv, TypeOK, Goto, BackendCounted, GiveUp
    <2>2. ASSUME NEW p \in Proc
          PROVE  /\ Handled(p)' = Handled(p) + Delta(p, t, l, Handling)
                 /\ Counting(p)' = Counting(p) + Delta(p, t, l, {"persisted"})
                 /\ Sealing(p)' = Sealing(p) + Delta(p, t, l, {"commit", "signed", "persisted"})
                 /\ Falling(p)' = Falling(p) + Delta(p, t, l, {"raw", "write"})
      <3> HIDE DEF l
      <3> QED
        BY <2>1, Counts DEF PipelineInv
    <2>3. ASSUME NEW p \in Proc PROVE Sealed(p)' = Sealed(p) /\ Plain(p)' = Plain(p)
      BY DEF Sealed, Plain, Mine, logs, BackendCounted, GiveUp
    <2>4. ASSUME NEW p \in Proc
          PROVE  /\ Handled(p) \in Nat /\ Counting(p) \in Nat /\ Sealing(p) \in Nat
                 /\ Falling(p) \in Nat /\ Sealed(p) \in Nat /\ Plain(p) \in Nat
      BY CountTypes
    <2>5. mode' = mode /\ signer' = signer
      BY DEF BackendCounted, GiveUp
    <2>6. ASSUME NEW p \in Proc, p # Home[t] PROVE CountsRight(p)'
      <3>1. /\ Handled(p)' = Handled(p) /\ Counting(p)' = Counting(p)
            /\ Sealing(p)' = Sealing(p) /\ Falling(p)' = Falling(p)
        BY <2>2, <2>4, <2>6 DEF Delta
      <3>2. \A d \in Counter : metrics'[p][d] = metrics[p][d]
        BY <1>0, <2>6
      <3>3. Sealed(p)' = Sealed(p) /\ Plain(p)' = Plain(p)
        BY <2>3, <2>6
      <3>4. \A d \in Counter : metrics[p][d] \in Nat
        BY DEF PipelineInv, TypeOK
      <3>5. CountsRight(p)
        BY DEF PipelineInv, CountInv
      <3> QED
        BY <2>4, <2>5, <3>1, <3>2, <3>3, <3>4, <3>5 DEF CountsRight, Failures, Up, Counter
    <2>7. ASSUME NEW p \in Proc, p = Home[t] PROVE CountsRight(p)'
      <3>1. /\ Handled(p)' = Handled(p) - 1
            /\ Counting(p)' = Counting(p)
            /\ Sealing(p)' = Sealing(p)
            /\ Falling(p)' = Falling(p) + 1
        BY <2>2, <2>4, <2>7 DEF Delta, Handling, At, BackendCounted, GiveUp
      <3>2. \A d \in Counter : metrics[p][d] \in Nat
        BY DEF PipelineInv, TypeOK
      <3>3. CountsRight(p)
        BY DEF PipelineInv, CountInv
      <3>4. mode[p] \in {"sign", "dual"} => signer[p]
        BY DEF PipelineInv, ServiceInv, ServiceOk
      <3> QED
        BY <1>0, <2>3, <2>4, <2>5, <2>7, <3>1, <3>2, <3>3, <3>4 DEF CountsRight, Failures, Up,
           Counter, BackendCounted, GiveUp
    <2> QED
      BY <2>6, <2>7 DEF CountInv
  <1> QED
    BY <1>1, <1>2, <1>3, <1>4, <1>5, <1>6 DEF PipelineInv

\* The store has rolled back.
LEMMA TransactionFailsKeeps ==
    ASSUME PipelineInv, NEW t \in Thread, NEW c \in Counter, TransactionFails(t, c)
    PROVE  PipelineInv'
  <1>0. /\ metrics' \in [Proc -> [Counter -> Nat]]
        /\ \A q \in Proc : \A d \in Counter :
              metrics'[q][d] = IF q = Home[t] /\ d = c THEN metrics[q][d] + 1 ELSE metrics[q][d]
    <2>1. Increment(Home[t], c) /\ Home[t] \in Proc /\ c \in Counter
      BY PipelineAssumption DEF TransactionFails, GiveUp, Counter
    <2> QED
      BY <2>1, Increments DEF PipelineInv
  <1>1. TypeOK'
    <2>1. mode' \in [Proc -> Mode \cup {"down", "killed"}] /\ signer' \in [Proc -> BOOLEAN]
      BY PipelineAssumption, <1>0 DEF PipelineInv, TypeOK, FlowInv, Up, At, Ev, Goto, logs,
         Label, Handling, Event, Counter, Mode, ServiceInv,
         TransactionFails, GiveUp
    <2>2. metrics' \in [Proc -> [Counter -> Nat]]
      BY PipelineAssumption, <1>0 DEF PipelineInv, TypeOK, FlowInv, Up, At, Ev, Goto, logs,
         Label, Handling, Event, Counter, Mode, ServiceInv,
         TransactionFails, GiveUp
    <2>3. rawLock' \in [Proc -> Thread \cup {Free}] /\ lock' \in Thread \cup {Batch, Free}
      BY PipelineAssumption, <1>0 DEF PipelineInv, TypeOK, FlowInv, Up, At, Ev, Goto, logs,
         Label, Handling, Event, Counter, Mode, ServiceInv,
         TransactionFails, GiveUp
    <2>4. pending' \in BOOLEAN
      BY PipelineAssumption, <1>0 DEF PipelineInv, TypeOK, FlowInv, Up, At, Ev, Goto, logs,
         Label, Handling, Event, Counter, Mode, ServiceInv,
         TransactionFails, GiveUp
    <2>5. pc' \in [Thread -> Label]
      BY PipelineAssumption, <1>0 DEF PipelineInv, TypeOK, FlowInv, Up, At, Ev, Goto, logs,
         Label, Handling, Event, Counter, Mode, ServiceInv,
         TransactionFails, GiveUp
    <2>6. count' \in [Thread -> 0..MaxEvents]
      BY PipelineAssumption, <1>0 DEF PipelineInv, TypeOK, FlowInv, Up, At, Ev, Goto, logs,
         Label, Handling, Event, Counter, Mode, ServiceInv,
         TransactionFails, GiveUp
    <2>7. chain' \subseteq Event \cup ({Batch} \X (1..MaxLines))
      BY PipelineAssumption, <1>0 DEF PipelineInv, TypeOK, FlowInv, Up, At, Ev, Goto, logs,
         Label, Handling, Event, Counter, Mode, ServiceInv,
         TransactionFails, GiveUp
    <2>8. plain' \subseteq Event /\ lost' \subseteq Event /\ returned' \subseteq Event
      BY PipelineAssumption, <1>0 DEF PipelineInv, TypeOK, FlowInv, Up, At, Ev, Goto, logs,
         Label, Handling, Event, Counter, Mode, ServiceInv,
         TransactionFails, GiveUp
    <2>9. line' \in 1..(MaxLines + 1)
      BY PipelineAssumption, <1>0 DEF PipelineInv, TypeOK, FlowInv, Up, At, Ev, Goto, logs,
         Label, Handling, Event, Counter, Mode, ServiceInv,
         TransactionFails, GiveUp
    <2>10. \A u \in Thread : (lock' = u) <=> pc'[u] \in {"sign", "commit"}
      BY PipelineAssumption, <1>0 DEF PipelineInv, TypeOK, FlowInv, Up, At, Ev, Goto, logs,
         Label, Handling, Event, Counter, Mode, ServiceInv,
         TransactionFails, GiveUp
    <2>11. \A u \in Thread : (rawLock'[Home[u]] = u) <=> pc'[u] = "write"
      BY PipelineAssumption, <1>0 DEF PipelineInv, TypeOK, FlowInv, Up, At, Ev, Goto, logs,
         Label, Handling, Event, Counter, Mode, ServiceInv,
         TransactionFails, GiveUp
    <2> QED
      BY <2>1, <2>2, <2>3, <2>4, <2>5, <2>6, <2>7, <2>8, <2>9, <2>10, <2>11 DEF TypeOK
  <1>7. Up(Home[t]) /\ Home[t] \in Proc
    BY PipelineAssumption DEF PipelineInv, FlowInv, At, TransactionFails, GiveUp
  <1>2. ServiceInv'
    <2> SUFFICES ASSUME NEW p \in Proc PROVE ServiceOk(p)'
      BY DEF ServiceInv
    <2>1. mode' = mode /\ signer' = signer /\ count' = count
      BY DEF TransactionFails, GiveUp
    <2>2. CASE p = Home[t]
      BY <1>7, <2>1, <2>2 DEF PipelineInv, ServiceInv, ServiceOk, Up
    <2>3. CASE p # Home[t]
      <3>1. \A u \in Thread : Home[u] = p => pc'[u] = pc[u]
        BY <2>3 DEF PipelineInv, TypeOK, Goto, TransactionFails, GiveUp
      <3>2. \A d \in Counter : metrics'[p][d] = metrics[p][d]
        BY <1>0, <2>3
      <3> QED
        BY <2>1, <3>1, <3>2 DEF PipelineInv, ServiceInv, ServiceOk
    <2> QED
      BY <2>2, <2>3
  <1>3. FlowInv'
    BY PipelineAssumption DEF PipelineInv, TypeOK, FlowInv, Up, At, Ev, Goto, logs, Handling,
       TransactionFails, GiveUp
  <1>4. EventInv'
    BY <1>1, PipelineAssumption, <1>0 DEF PipelineInv, TypeOK, FlowInv, Up, At, Ev, Goto, logs,
       Label, Handling, EventInv, Event, Counter,
       TransactionFails, GiveUp
  <1>5. NothingLost'
    BY <1>1, PipelineAssumption, <1>0 DEF PipelineInv, TypeOK, FlowInv, Up, At, Ev, Goto, logs,
       Label, Handling, NothingLost, Counter,
       TransactionFails, GiveUp
  <1>6. CountInv'
    <2> DEFINE l == "raw"
    <2>1. l \in Label /\ Goto(t, l)
      BY DEF Label, PipelineInv, TypeOK, Goto, TransactionFails, GiveUp
    <2>2. ASSUME NEW p \in Proc
          PROVE  /\ Handled(p)' = Handled(p) + Delta(p, t, l, Handling)
                 /\ Counting(p)' = Counting(p) + Delta(p, t, l, {"persisted"})
                 /\ Sealing(p)' = Sealing(p) + Delta(p, t, l, {"commit", "signed", "persisted"})
                 /\ Falling(p)' = Falling(p) + Delta(p, t, l, {"raw", "write"})
      <3> HIDE DEF l
      <3> QED
        BY <2>1, Counts DEF PipelineInv
    <2>3. ASSUME NEW p \in Proc PROVE Sealed(p)' = Sealed(p) /\ Plain(p)' = Plain(p)
      BY DEF Sealed, Plain, Mine, logs, TransactionFails, GiveUp
    <2>4. ASSUME NEW p \in Proc
          PROVE  /\ Handled(p) \in Nat /\ Counting(p) \in Nat /\ Sealing(p) \in Nat
                 /\ Falling(p) \in Nat /\ Sealed(p) \in Nat /\ Plain(p) \in Nat
      BY CountTypes
    <2>5. mode' = mode /\ signer' = signer
      BY DEF TransactionFails, GiveUp
    <2>6. ASSUME NEW p \in Proc, p # Home[t] PROVE CountsRight(p)'
      <3>1. /\ Handled(p)' = Handled(p) /\ Counting(p)' = Counting(p)
            /\ Sealing(p)' = Sealing(p) /\ Falling(p)' = Falling(p)
        BY <2>2, <2>4, <2>6 DEF Delta
      <3>2. \A d \in Counter : metrics'[p][d] = metrics[p][d]
        BY <1>0, <2>6
      <3>3. Sealed(p)' = Sealed(p) /\ Plain(p)' = Plain(p)
        BY <2>3, <2>6
      <3>4. \A d \in Counter : metrics[p][d] \in Nat
        BY DEF PipelineInv, TypeOK
      <3>5. CountsRight(p)
        BY DEF PipelineInv, CountInv
      <3> QED
        BY <2>4, <2>5, <3>1, <3>2, <3>3, <3>4, <3>5 DEF CountsRight, Failures, Up, Counter
    <2>7. ASSUME NEW p \in Proc, p = Home[t] PROVE CountsRight(p)'
      <3>1. /\ Handled(p)' = Handled(p) - 1
            /\ Counting(p)' = Counting(p)
            /\ Sealing(p)' = Sealing(p)
            /\ Falling(p)' = Falling(p) + 1
        BY <2>2, <2>4, <2>7 DEF Delta, Handling, At, TransactionFails, GiveUp
      <3>2. \A d \in Counter : metrics[p][d] \in Nat
        BY DEF PipelineInv, TypeOK
      <3>3. CountsRight(p)
        BY DEF PipelineInv, CountInv
      <3>4. mode[p] \in {"sign", "dual"} => signer[p]
        BY DEF PipelineInv, ServiceInv, ServiceOk
      <3> QED
        BY <1>0, <2>3, <2>4, <2>5, <2>7, <3>1, <3>2, <3>3, <3>4 DEF CountsRight, Failures, Up,
           Counter, TransactionFails, GiveUp
    <2> QED
      BY <2>6, <2>7 DEF CountInv
  <1> QED
    BY <1>1, <1>2, <1>3, <1>4, <1>5, <1>6 DEF PipelineInv

\* The record is in the log.
LEMMA AppendKeeps ==
    ASSUME PipelineInv, NEW t \in Thread, AppendRecord(t)
    PROVE  PipelineInv'
  <1>0. metrics' = metrics
    BY DEF AppendRecord
  <1>1. TypeOK'
    <2>1. mode' \in [Proc -> Mode \cup {"down", "killed"}] /\ signer' \in [Proc -> BOOLEAN]
      BY PipelineAssumption, <1>0 DEF PipelineInv, TypeOK, FlowInv, Up, At, Ev, Goto, logs,
         Label, Handling, Event, Counter, Mode, ServiceInv,
         AppendRecord
    <2>2. metrics' \in [Proc -> [Counter -> Nat]]
      BY PipelineAssumption, <1>0 DEF PipelineInv, TypeOK, FlowInv, Up, At, Ev, Goto, logs,
         Label, Handling, Event, Counter, Mode, ServiceInv,
         AppendRecord
    <2>3. rawLock' \in [Proc -> Thread \cup {Free}] /\ lock' \in Thread \cup {Batch, Free}
      BY PipelineAssumption, <1>0 DEF PipelineInv, TypeOK, FlowInv, Up, At, Ev, Goto, logs,
         Label, Handling, Event, Counter, Mode, ServiceInv,
         AppendRecord
    <2>4. pending' \in BOOLEAN
      BY PipelineAssumption, <1>0 DEF PipelineInv, TypeOK, FlowInv, Up, At, Ev, Goto, logs,
         Label, Handling, Event, Counter, Mode, ServiceInv,
         AppendRecord
    <2>5. pc' \in [Thread -> Label]
      BY PipelineAssumption, <1>0 DEF PipelineInv, TypeOK, FlowInv, Up, At, Ev, Goto, logs,
         Label, Handling, Event, Counter, Mode, ServiceInv,
         AppendRecord
    <2>6. count' \in [Thread -> 0..MaxEvents]
      BY PipelineAssumption, <1>0 DEF PipelineInv, TypeOK, FlowInv, Up, At, Ev, Goto, logs,
         Label, Handling, Event, Counter, Mode, ServiceInv,
         AppendRecord
    <2>7. chain' \subseteq Event \cup ({Batch} \X (1..MaxLines))
      BY PipelineAssumption, <1>0 DEF PipelineInv, TypeOK, FlowInv, Up, At, Ev, Goto, logs,
         Label, Handling, Event, Counter, Mode, ServiceInv,
         AppendRecord
    <2>8. plain' \subseteq Event /\ lost' \subseteq Event /\ returned' \subseteq Event
      BY PipelineAssumption, <1>0 DEF PipelineInv, TypeOK, FlowInv, Up, At, Ev, Goto, logs,
         Label, Handling, Event, Counter, Mode, ServiceInv,
         AppendRecord
    <2>9. line' \in 1..(MaxLines + 1)
      BY PipelineAssumption, <1>0 DEF PipelineInv, TypeOK, FlowInv, Up, At, Ev, Goto, logs,
         Label, Handling, Event, Counter, Mode, ServiceInv,
         AppendRecord
    <2>10. \A u \in Thread : (lock' = u) <=> pc'[u] \in {"sign", "commit"}
      BY PipelineAssumption, <1>0 DEF PipelineInv, TypeOK, FlowInv, Up, At, Ev, Goto, logs,
         Label, Handling, Event, Counter, Mode, ServiceInv,
         AppendRecord
    <2>11. \A u \in Thread : (rawLock'[Home[u]] = u) <=> pc'[u] = "write"
      BY PipelineAssumption, <1>0 DEF PipelineInv, TypeOK, FlowInv, Up, At, Ev, Goto, logs,
         Label, Handling, Event, Counter, Mode, ServiceInv,
         AppendRecord
    <2> QED
      BY <2>1, <2>2, <2>3, <2>4, <2>5, <2>6, <2>7, <2>8, <2>9, <2>10, <2>11 DEF TypeOK
  <1>7. Up(Home[t]) /\ Home[t] \in Proc
    BY PipelineAssumption DEF PipelineInv, FlowInv, At, AppendRecord
  <1>2. ServiceInv'
    <2> SUFFICES ASSUME NEW p \in Proc PROVE ServiceOk(p)'
      BY DEF ServiceInv
    <2>1. mode' = mode /\ signer' = signer /\ count' = count
      BY DEF AppendRecord
    <2>2. CASE p = Home[t]
      BY <1>7, <2>1, <2>2 DEF PipelineInv, ServiceInv, ServiceOk, Up
    <2>3. CASE p # Home[t]
      <3>1. \A u \in Thread : Home[u] = p => pc'[u] = pc[u]
        BY <2>3 DEF PipelineInv, TypeOK, Goto, AppendRecord
      <3>2. \A d \in Counter : metrics'[p][d] = metrics[p][d]
        BY <1>0, <2>3
      <3> QED
        BY <2>1, <3>1, <3>2 DEF PipelineInv, ServiceInv, ServiceOk
    <2> QED
      BY <2>2, <2>3
  <1>3. FlowInv'
    BY PipelineAssumption DEF PipelineInv, TypeOK, FlowInv, Up, At, Ev, Goto, logs, Handling,
       AppendRecord
  <1>4. EventInv'
    BY <1>1, PipelineAssumption, <1>0 DEF PipelineInv, TypeOK, FlowInv, Up, At, Ev, Goto, logs,
       Label, Handling, EventInv, Event, Counter,
       AppendRecord
  <1>5. NothingLost'
    BY <1>1, PipelineAssumption, <1>0 DEF PipelineInv, TypeOK, FlowInv, Up, At, Ev, Goto, logs,
       Label, Handling, NothingLost, Counter,
       AppendRecord
  <1>6. CountInv'
    <2> DEFINE l == "commit"
    <2>1. l \in Label /\ Goto(t, l)
      BY DEF Label, PipelineInv, TypeOK, Goto, AppendRecord
    <2>2. ASSUME NEW p \in Proc
          PROVE  /\ Handled(p)' = Handled(p) + Delta(p, t, l, Handling)
                 /\ Counting(p)' = Counting(p) + Delta(p, t, l, {"persisted"})
                 /\ Sealing(p)' = Sealing(p) + Delta(p, t, l, {"commit", "signed", "persisted"})
                 /\ Falling(p)' = Falling(p) + Delta(p, t, l, {"raw", "write"})
      <3> HIDE DEF l
      <3> QED
        BY <2>1, Counts DEF PipelineInv
    <2>3. ASSUME NEW p \in Proc
          PROVE  Sealed(p)' = (IF p = Home[t] THEN Sealed(p) + 1 ELSE Sealed(p)) /\ Plain(p)' = Plain(p)
      <3>1. Plain(p)' = Plain(p)
        BY DEF Plain, Mine, AppendRecord
      <3>2. CASE p = Home[t]
        <4>1. Mine(p, chain)' = Mine(p, chain) \cup {Ev(t)} /\ Ev(t) \notin Mine(p, chain)
          BY <3>2, <1>1, PipelineAssumption DEF Mine, AppendRecord, At, Ev, Event, PipelineInv,
             TypeOK, FlowInv
        <4>2. Cardinality(Mine(p, chain) \cup {Ev(t)}) = Cardinality(Mine(p, chain)) + 1
          BY <4>1, EventsFinite, FS_AddElement
        <4> QED
          BY <3>1, <3>2, <4>1, <4>2 DEF Sealed
      <3>3. CASE p # Home[t]
        <4>1. Mine(p, chain)' = Mine(p, chain)
          BY <3>3 DEF Mine, AppendRecord, Ev
        <4> QED
          BY <3>1, <3>3, <4>1 DEF Sealed
      <3> QED
        BY <3>2, <3>3
    <2>4. ASSUME NEW p \in Proc
          PROVE  /\ Handled(p) \in Nat /\ Counting(p) \in Nat /\ Sealing(p) \in Nat
                 /\ Falling(p) \in Nat /\ Sealed(p) \in Nat /\ Plain(p) \in Nat
      BY CountTypes
    <2>5. mode' = mode /\ signer' = signer
      BY DEF AppendRecord
    <2>6. ASSUME NEW p \in Proc, p # Home[t] PROVE CountsRight(p)'
      <3>1. /\ Handled(p)' = Handled(p) /\ Counting(p)' = Counting(p)
            /\ Sealing(p)' = Sealing(p) /\ Falling(p)' = Falling(p)
        BY <2>2, <2>4, <2>6 DEF Delta
      <3>2. \A d \in Counter : metrics'[p][d] = metrics[p][d]
        BY <1>0, <2>6
      <3>3. Sealed(p)' = Sealed(p) /\ Plain(p)' = Plain(p)
        BY <2>3, <2>6
      <3>4. \A d \in Counter : metrics[p][d] \in Nat
        BY DEF PipelineInv, TypeOK
      <3>5. CountsRight(p)
        BY DEF PipelineInv, CountInv
      <3> QED
        BY <2>4, <2>5, <3>1, <3>2, <3>3, <3>4, <3>5 DEF CountsRight, Failures, Up, Counter
    <2>7. ASSUME NEW p \in Proc, p = Home[t] PROVE CountsRight(p)'
      <3>1. /\ Handled(p)' = Handled(p)
            /\ Counting(p)' = Counting(p)
            /\ Sealing(p)' = Sealing(p) + 1
            /\ Falling(p)' = Falling(p)
        BY <2>2, <2>4, <2>7 DEF Delta, Handling, At, AppendRecord
      <3>2. \A d \in Counter : metrics[p][d] \in Nat
        BY DEF PipelineInv, TypeOK
      <3>3. CountsRight(p)
        BY DEF PipelineInv, CountInv
      <3>4. mode[p] \in {"sign", "dual"} => signer[p]
        BY DEF PipelineInv, ServiceInv, ServiceOk
      <3> QED
        BY <1>0, <2>3, <2>4, <2>5, <2>7, <3>1, <3>2, <3>3, <3>4 DEF CountsRight, Failures, Up,
           Counter, AppendRecord
    <2> QED
      BY <2>6, <2>7 DEF CountInv
  <1> QED
    BY <1>1, <1>2, <1>3, <1>4, <1>5, <1>6 DEF PipelineInv

\* Its state is written.
LEMMA CommitKeeps ==
    ASSUME PipelineInv, NEW t \in Thread, Commit(t)
    PROVE  PipelineInv'
  <1>0. metrics' = metrics
    BY DEF Commit
  <1>1. TypeOK'
    <2>1. mode' \in [Proc -> Mode \cup {"down", "killed"}] /\ signer' \in [Proc -> BOOLEAN]
      BY PipelineAssumption, <1>0 DEF PipelineInv, TypeOK, FlowInv, Up, At, Ev, Goto, logs,
         Label, Handling, Event, Counter, Mode, ServiceInv,
         Commit
    <2>2. metrics' \in [Proc -> [Counter -> Nat]]
      BY PipelineAssumption, <1>0 DEF PipelineInv, TypeOK, FlowInv, Up, At, Ev, Goto, logs,
         Label, Handling, Event, Counter, Mode, ServiceInv,
         Commit
    <2>3. rawLock' \in [Proc -> Thread \cup {Free}] /\ lock' \in Thread \cup {Batch, Free}
      BY PipelineAssumption, <1>0 DEF PipelineInv, TypeOK, FlowInv, Up, At, Ev, Goto, logs,
         Label, Handling, Event, Counter, Mode, ServiceInv,
         Commit
    <2>4. pending' \in BOOLEAN
      BY PipelineAssumption, <1>0 DEF PipelineInv, TypeOK, FlowInv, Up, At, Ev, Goto, logs,
         Label, Handling, Event, Counter, Mode, ServiceInv,
         Commit
    <2>5. pc' \in [Thread -> Label]
      BY PipelineAssumption, <1>0 DEF PipelineInv, TypeOK, FlowInv, Up, At, Ev, Goto, logs,
         Label, Handling, Event, Counter, Mode, ServiceInv,
         Commit
    <2>6. count' \in [Thread -> 0..MaxEvents]
      BY PipelineAssumption, <1>0 DEF PipelineInv, TypeOK, FlowInv, Up, At, Ev, Goto, logs,
         Label, Handling, Event, Counter, Mode, ServiceInv,
         Commit
    <2>7. chain' \subseteq Event \cup ({Batch} \X (1..MaxLines))
      BY PipelineAssumption, <1>0 DEF PipelineInv, TypeOK, FlowInv, Up, At, Ev, Goto, logs,
         Label, Handling, Event, Counter, Mode, ServiceInv,
         Commit
    <2>8. plain' \subseteq Event /\ lost' \subseteq Event /\ returned' \subseteq Event
      BY PipelineAssumption, <1>0 DEF PipelineInv, TypeOK, FlowInv, Up, At, Ev, Goto, logs,
         Label, Handling, Event, Counter, Mode, ServiceInv,
         Commit
    <2>9. line' \in 1..(MaxLines + 1)
      BY PipelineAssumption, <1>0 DEF PipelineInv, TypeOK, FlowInv, Up, At, Ev, Goto, logs,
         Label, Handling, Event, Counter, Mode, ServiceInv,
         Commit
    <2>10. \A u \in Thread : (lock' = u) <=> pc'[u] \in {"sign", "commit"}
      BY PipelineAssumption, <1>0 DEF PipelineInv, TypeOK, FlowInv, Up, At, Ev, Goto, logs,
         Label, Handling, Event, Counter, Mode, ServiceInv,
         Commit
    <2>11. \A u \in Thread : (rawLock'[Home[u]] = u) <=> pc'[u] = "write"
      BY PipelineAssumption, <1>0 DEF PipelineInv, TypeOK, FlowInv, Up, At, Ev, Goto, logs,
         Label, Handling, Event, Counter, Mode, ServiceInv,
         Commit
    <2> QED
      BY <2>1, <2>2, <2>3, <2>4, <2>5, <2>6, <2>7, <2>8, <2>9, <2>10, <2>11 DEF TypeOK
  <1>7. Up(Home[t]) /\ Home[t] \in Proc
    BY PipelineAssumption DEF PipelineInv, FlowInv, At, Commit
  <1>2. ServiceInv'
    <2> SUFFICES ASSUME NEW p \in Proc PROVE ServiceOk(p)'
      BY DEF ServiceInv
    <2>1. mode' = mode /\ signer' = signer /\ count' = count
      BY DEF Commit
    <2>2. CASE p = Home[t]
      BY <1>7, <2>1, <2>2 DEF PipelineInv, ServiceInv, ServiceOk, Up
    <2>3. CASE p # Home[t]
      <3>1. \A u \in Thread : Home[u] = p => pc'[u] = pc[u]
        BY <2>3 DEF PipelineInv, TypeOK, Goto, Commit
      <3>2. \A d \in Counter : metrics'[p][d] = metrics[p][d]
        BY <1>0, <2>3
      <3> QED
        BY <2>1, <3>1, <3>2 DEF PipelineInv, ServiceInv, ServiceOk
    <2> QED
      BY <2>2, <2>3
  <1>3. FlowInv'
    BY PipelineAssumption DEF PipelineInv, TypeOK, FlowInv, Up, At, Ev, Goto, logs, Handling,
       Commit
  <1>4. EventInv'
    BY <1>1, PipelineAssumption, <1>0 DEF PipelineInv, TypeOK, FlowInv, Up, At, Ev, Goto, logs,
       Label, Handling, EventInv, Event, Counter,
       Commit
  <1>5. NothingLost'
    BY <1>1, PipelineAssumption, <1>0 DEF PipelineInv, TypeOK, FlowInv, Up, At, Ev, Goto, logs,
       Label, Handling, NothingLost, Counter,
       Commit
  <1>6. CountInv'
    <2> DEFINE l == "signed"
    <2>1. l \in Label /\ Goto(t, l)
      BY DEF Label, PipelineInv, TypeOK, Goto, Commit
    <2>2. ASSUME NEW p \in Proc
          PROVE  /\ Handled(p)' = Handled(p) + Delta(p, t, l, Handling)
                 /\ Counting(p)' = Counting(p) + Delta(p, t, l, {"persisted"})
                 /\ Sealing(p)' = Sealing(p) + Delta(p, t, l, {"commit", "signed", "persisted"})
                 /\ Falling(p)' = Falling(p) + Delta(p, t, l, {"raw", "write"})
      <3> HIDE DEF l
      <3> QED
        BY <2>1, Counts DEF PipelineInv
    <2>3. ASSUME NEW p \in Proc PROVE Sealed(p)' = Sealed(p) /\ Plain(p)' = Plain(p)
      BY DEF Sealed, Plain, Mine, logs, Commit
    <2>4. ASSUME NEW p \in Proc
          PROVE  /\ Handled(p) \in Nat /\ Counting(p) \in Nat /\ Sealing(p) \in Nat
                 /\ Falling(p) \in Nat /\ Sealed(p) \in Nat /\ Plain(p) \in Nat
      BY CountTypes
    <2>5. mode' = mode /\ signer' = signer
      BY DEF Commit
    <2>6. ASSUME NEW p \in Proc, p # Home[t] PROVE CountsRight(p)'
      <3>1. /\ Handled(p)' = Handled(p) /\ Counting(p)' = Counting(p)
            /\ Sealing(p)' = Sealing(p) /\ Falling(p)' = Falling(p)
        BY <2>2, <2>4, <2>6 DEF Delta
      <3>2. \A d \in Counter : metrics'[p][d] = metrics[p][d]
        BY <1>0, <2>6
      <3>3. Sealed(p)' = Sealed(p) /\ Plain(p)' = Plain(p)
        BY <2>3, <2>6
      <3>4. \A d \in Counter : metrics[p][d] \in Nat
        BY DEF PipelineInv, TypeOK
      <3>5. CountsRight(p)
        BY DEF PipelineInv, CountInv
      <3> QED
        BY <2>4, <2>5, <3>1, <3>2, <3>3, <3>4, <3>5 DEF CountsRight, Failures, Up, Counter
    <2>7. ASSUME NEW p \in Proc, p = Home[t] PROVE CountsRight(p)'
      <3>1. /\ Handled(p)' = Handled(p)
            /\ Counting(p)' = Counting(p)
            /\ Sealing(p)' = Sealing(p)
            /\ Falling(p)' = Falling(p)
        BY <2>2, <2>4, <2>7 DEF Delta, Handling, At, Commit
      <3>2. \A d \in Counter : metrics[p][d] \in Nat
        BY DEF PipelineInv, TypeOK
      <3>3. CountsRight(p)
        BY DEF PipelineInv, CountInv
      <3>4. mode[p] \in {"sign", "dual"} => signer[p]
        BY DEF PipelineInv, ServiceInv, ServiceOk
      <3> QED
        BY <1>0, <2>3, <2>4, <2>5, <2>7, <3>1, <3>2, <3>3, <3>4 DEF CountsRight, Failures, Up,
           Counter, Commit
    <2> QED
      BY <2>6, <2>7 DEF CountInv
  <1> QED
    BY <1>1, <1>2, <1>3, <1>4, <1>5, <1>6 DEF PipelineInv

\* Its state could not be written.
LEMMA CommitFailsKeeps ==
    ASSUME PipelineInv, NEW t \in Thread, CommitFails(t)
    PROVE  PipelineInv'
  <1>0. /\ metrics' \in [Proc -> [Counter -> Nat]]
        /\ \A q \in Proc : \A d \in Counter :
              metrics'[q][d] = IF q = Home[t] /\ d = "persistence_failures" THEN metrics[q][d] + 1 ELSE metrics[q][d]
    <2>1. Increment(Home[t], "persistence_failures") /\ Home[t] \in Proc /\ "persistence_failures" \in Counter
      BY PipelineAssumption DEF CommitFails, GiveUp, Counter
    <2> QED
      BY <2>1, Increments DEF PipelineInv
  <1>1. TypeOK'
    <2>1. mode' \in [Proc -> Mode \cup {"down", "killed"}] /\ signer' \in [Proc -> BOOLEAN]
      BY PipelineAssumption, <1>0 DEF PipelineInv, TypeOK, FlowInv, Up, At, Ev, Goto, logs,
         Label, Handling, Event, Counter, Mode, ServiceInv,
         CommitFails, GiveUp
    <2>2. metrics' \in [Proc -> [Counter -> Nat]]
      BY PipelineAssumption, <1>0 DEF PipelineInv, TypeOK, FlowInv, Up, At, Ev, Goto, logs,
         Label, Handling, Event, Counter, Mode, ServiceInv,
         CommitFails, GiveUp
    <2>3. rawLock' \in [Proc -> Thread \cup {Free}] /\ lock' \in Thread \cup {Batch, Free}
      BY PipelineAssumption, <1>0 DEF PipelineInv, TypeOK, FlowInv, Up, At, Ev, Goto, logs,
         Label, Handling, Event, Counter, Mode, ServiceInv,
         CommitFails, GiveUp
    <2>4. pending' \in BOOLEAN
      BY PipelineAssumption, <1>0 DEF PipelineInv, TypeOK, FlowInv, Up, At, Ev, Goto, logs,
         Label, Handling, Event, Counter, Mode, ServiceInv,
         CommitFails, GiveUp
    <2>5. pc' \in [Thread -> Label]
      BY PipelineAssumption, <1>0 DEF PipelineInv, TypeOK, FlowInv, Up, At, Ev, Goto, logs,
         Label, Handling, Event, Counter, Mode, ServiceInv,
         CommitFails, GiveUp
    <2>6. count' \in [Thread -> 0..MaxEvents]
      BY PipelineAssumption, <1>0 DEF PipelineInv, TypeOK, FlowInv, Up, At, Ev, Goto, logs,
         Label, Handling, Event, Counter, Mode, ServiceInv,
         CommitFails, GiveUp
    <2>7. chain' \subseteq Event \cup ({Batch} \X (1..MaxLines))
      BY PipelineAssumption, <1>0 DEF PipelineInv, TypeOK, FlowInv, Up, At, Ev, Goto, logs,
         Label, Handling, Event, Counter, Mode, ServiceInv,
         CommitFails, GiveUp
    <2>8. plain' \subseteq Event /\ lost' \subseteq Event /\ returned' \subseteq Event
      BY PipelineAssumption, <1>0 DEF PipelineInv, TypeOK, FlowInv, Up, At, Ev, Goto, logs,
         Label, Handling, Event, Counter, Mode, ServiceInv,
         CommitFails, GiveUp
    <2>9. line' \in 1..(MaxLines + 1)
      BY PipelineAssumption, <1>0 DEF PipelineInv, TypeOK, FlowInv, Up, At, Ev, Goto, logs,
         Label, Handling, Event, Counter, Mode, ServiceInv,
         CommitFails, GiveUp
    <2>10. \A u \in Thread : (lock' = u) <=> pc'[u] \in {"sign", "commit"}
      BY PipelineAssumption, <1>0 DEF PipelineInv, TypeOK, FlowInv, Up, At, Ev, Goto, logs,
         Label, Handling, Event, Counter, Mode, ServiceInv,
         CommitFails, GiveUp
    <2>11. \A u \in Thread : (rawLock'[Home[u]] = u) <=> pc'[u] = "write"
      BY PipelineAssumption, <1>0 DEF PipelineInv, TypeOK, FlowInv, Up, At, Ev, Goto, logs,
         Label, Handling, Event, Counter, Mode, ServiceInv,
         CommitFails, GiveUp
    <2> QED
      BY <2>1, <2>2, <2>3, <2>4, <2>5, <2>6, <2>7, <2>8, <2>9, <2>10, <2>11 DEF TypeOK
  <1>7. Up(Home[t]) /\ Home[t] \in Proc
    BY PipelineAssumption DEF PipelineInv, FlowInv, At, CommitFails, GiveUp
  <1>2. ServiceInv'
    <2> SUFFICES ASSUME NEW p \in Proc PROVE ServiceOk(p)'
      BY DEF ServiceInv
    <2>1. mode' = mode /\ signer' = signer /\ count' = count
      BY DEF CommitFails, GiveUp
    <2>2. CASE p = Home[t]
      BY <1>7, <2>1, <2>2 DEF PipelineInv, ServiceInv, ServiceOk, Up
    <2>3. CASE p # Home[t]
      <3>1. \A u \in Thread : Home[u] = p => pc'[u] = pc[u]
        BY <2>3 DEF PipelineInv, TypeOK, Goto, CommitFails, GiveUp
      <3>2. \A d \in Counter : metrics'[p][d] = metrics[p][d]
        BY <1>0, <2>3
      <3> QED
        BY <2>1, <3>1, <3>2 DEF PipelineInv, ServiceInv, ServiceOk
    <2> QED
      BY <2>2, <2>3
  <1>3. FlowInv'
    BY PipelineAssumption DEF PipelineInv, TypeOK, FlowInv, Up, At, Ev, Goto, logs, Handling,
       CommitFails, GiveUp
  <1>4. EventInv'
    BY <1>1, PipelineAssumption, <1>0 DEF PipelineInv, TypeOK, FlowInv, Up, At, Ev, Goto, logs,
       Label, Handling, EventInv, Event, Counter,
       CommitFails, GiveUp
  <1>5. NothingLost'
    BY <1>1, PipelineAssumption, <1>0 DEF PipelineInv, TypeOK, FlowInv, Up, At, Ev, Goto, logs,
       Label, Handling, NothingLost, Counter,
       CommitFails, GiveUp
  <1>6. CountInv'
    <2> DEFINE l == "raw"
    <2>1. l \in Label /\ Goto(t, l)
      BY DEF Label, PipelineInv, TypeOK, Goto, CommitFails, GiveUp
    <2>2. ASSUME NEW p \in Proc
          PROVE  /\ Handled(p)' = Handled(p) + Delta(p, t, l, Handling)
                 /\ Counting(p)' = Counting(p) + Delta(p, t, l, {"persisted"})
                 /\ Sealing(p)' = Sealing(p) + Delta(p, t, l, {"commit", "signed", "persisted"})
                 /\ Falling(p)' = Falling(p) + Delta(p, t, l, {"raw", "write"})
      <3> HIDE DEF l
      <3> QED
        BY <2>1, Counts DEF PipelineInv
    <2>3. ASSUME NEW p \in Proc PROVE Sealed(p)' = Sealed(p) /\ Plain(p)' = Plain(p)
      BY DEF Sealed, Plain, Mine, logs, CommitFails, GiveUp
    <2>4. ASSUME NEW p \in Proc
          PROVE  /\ Handled(p) \in Nat /\ Counting(p) \in Nat /\ Sealing(p) \in Nat
                 /\ Falling(p) \in Nat /\ Sealed(p) \in Nat /\ Plain(p) \in Nat
      BY CountTypes
    <2>5. mode' = mode /\ signer' = signer
      BY DEF CommitFails, GiveUp
    <2>6. ASSUME NEW p \in Proc, p # Home[t] PROVE CountsRight(p)'
      <3>1. /\ Handled(p)' = Handled(p) /\ Counting(p)' = Counting(p)
            /\ Sealing(p)' = Sealing(p) /\ Falling(p)' = Falling(p)
        BY <2>2, <2>4, <2>6 DEF Delta
      <3>2. \A d \in Counter : metrics'[p][d] = metrics[p][d]
        BY <1>0, <2>6
      <3>3. Sealed(p)' = Sealed(p) /\ Plain(p)' = Plain(p)
        BY <2>3, <2>6
      <3>4. \A d \in Counter : metrics[p][d] \in Nat
        BY DEF PipelineInv, TypeOK
      <3>5. CountsRight(p)
        BY DEF PipelineInv, CountInv
      <3> QED
        BY <2>4, <2>5, <3>1, <3>2, <3>3, <3>4, <3>5 DEF CountsRight, Failures, Up, Counter
    <2>7. ASSUME NEW p \in Proc, p = Home[t] PROVE CountsRight(p)'
      <3>1. /\ Handled(p)' = Handled(p) - 1
            /\ Counting(p)' = Counting(p)
            /\ Sealing(p)' = Sealing(p) - 1
            /\ Falling(p)' = Falling(p) + 1
        BY <2>2, <2>4, <2>7 DEF Delta, Handling, At, CommitFails, GiveUp
      <3>2. \A d \in Counter : metrics[p][d] \in Nat
        BY DEF PipelineInv, TypeOK
      <3>3. CountsRight(p)
        BY DEF PipelineInv, CountInv
      <3>4. mode[p] \in {"sign", "dual"} => signer[p]
        BY DEF PipelineInv, ServiceInv, ServiceOk
      <3> QED
        BY <1>0, <2>3, <2>4, <2>5, <2>7, <3>1, <3>2, <3>3, <3>4 DEF CountsRight, Failures, Up,
           Counter, CommitFails, GiveUp
    <2> QED
      BY <2>6, <2>7 DEF CountInv
  <1> QED
    BY <1>1, <1>2, <1>3, <1>4, <1>5, <1>6 DEF PipelineInv

\* The first counter after a commit.
LEMMA CountSignedKeeps ==
    ASSUME PipelineInv, NEW t \in Thread, CountSigned(t)
    PROVE  PipelineInv'
  <1>0. /\ metrics' \in [Proc -> [Counter -> Nat]]
        /\ \A q \in Proc : \A d \in Counter :
              metrics'[q][d] = IF q = Home[t] /\ d = "signed" THEN metrics[q][d] + 1 ELSE metrics[q][d]
    <2>1. Increment(Home[t], "signed") /\ Home[t] \in Proc /\ "signed" \in Counter
      BY PipelineAssumption DEF CountSigned, Counter
    <2> QED
      BY <2>1, Increments DEF PipelineInv
  <1>1. TypeOK'
    <2>1. mode' \in [Proc -> Mode \cup {"down", "killed"}] /\ signer' \in [Proc -> BOOLEAN]
      BY PipelineAssumption, <1>0 DEF PipelineInv, TypeOK, FlowInv, Up, At, Ev, Goto, logs,
         Label, Handling, Event, Counter, Mode, ServiceInv,
         CountSigned
    <2>2. metrics' \in [Proc -> [Counter -> Nat]]
      BY PipelineAssumption, <1>0 DEF PipelineInv, TypeOK, FlowInv, Up, At, Ev, Goto, logs,
         Label, Handling, Event, Counter, Mode, ServiceInv,
         CountSigned
    <2>3. rawLock' \in [Proc -> Thread \cup {Free}] /\ lock' \in Thread \cup {Batch, Free}
      BY PipelineAssumption, <1>0 DEF PipelineInv, TypeOK, FlowInv, Up, At, Ev, Goto, logs,
         Label, Handling, Event, Counter, Mode, ServiceInv,
         CountSigned
    <2>4. pending' \in BOOLEAN
      BY PipelineAssumption, <1>0 DEF PipelineInv, TypeOK, FlowInv, Up, At, Ev, Goto, logs,
         Label, Handling, Event, Counter, Mode, ServiceInv,
         CountSigned
    <2>5. pc' \in [Thread -> Label]
      BY PipelineAssumption, <1>0 DEF PipelineInv, TypeOK, FlowInv, Up, At, Ev, Goto, logs,
         Label, Handling, Event, Counter, Mode, ServiceInv,
         CountSigned
    <2>6. count' \in [Thread -> 0..MaxEvents]
      BY PipelineAssumption, <1>0 DEF PipelineInv, TypeOK, FlowInv, Up, At, Ev, Goto, logs,
         Label, Handling, Event, Counter, Mode, ServiceInv,
         CountSigned
    <2>7. chain' \subseteq Event \cup ({Batch} \X (1..MaxLines))
      BY PipelineAssumption, <1>0 DEF PipelineInv, TypeOK, FlowInv, Up, At, Ev, Goto, logs,
         Label, Handling, Event, Counter, Mode, ServiceInv,
         CountSigned
    <2>8. plain' \subseteq Event /\ lost' \subseteq Event /\ returned' \subseteq Event
      BY PipelineAssumption, <1>0 DEF PipelineInv, TypeOK, FlowInv, Up, At, Ev, Goto, logs,
         Label, Handling, Event, Counter, Mode, ServiceInv,
         CountSigned
    <2>9. line' \in 1..(MaxLines + 1)
      BY PipelineAssumption, <1>0 DEF PipelineInv, TypeOK, FlowInv, Up, At, Ev, Goto, logs,
         Label, Handling, Event, Counter, Mode, ServiceInv,
         CountSigned
    <2>10. \A u \in Thread : (lock' = u) <=> pc'[u] \in {"sign", "commit"}
      BY PipelineAssumption, <1>0 DEF PipelineInv, TypeOK, FlowInv, Up, At, Ev, Goto, logs,
         Label, Handling, Event, Counter, Mode, ServiceInv,
         CountSigned
    <2>11. \A u \in Thread : (rawLock'[Home[u]] = u) <=> pc'[u] = "write"
      BY PipelineAssumption, <1>0 DEF PipelineInv, TypeOK, FlowInv, Up, At, Ev, Goto, logs,
         Label, Handling, Event, Counter, Mode, ServiceInv,
         CountSigned
    <2> QED
      BY <2>1, <2>2, <2>3, <2>4, <2>5, <2>6, <2>7, <2>8, <2>9, <2>10, <2>11 DEF TypeOK
  <1>7. Up(Home[t]) /\ Home[t] \in Proc
    BY PipelineAssumption DEF PipelineInv, FlowInv, At, CountSigned
  <1>2. ServiceInv'
    <2> SUFFICES ASSUME NEW p \in Proc PROVE ServiceOk(p)'
      BY DEF ServiceInv
    <2>1. mode' = mode /\ signer' = signer /\ count' = count
      BY DEF CountSigned
    <2>2. CASE p = Home[t]
      BY <1>7, <2>1, <2>2 DEF PipelineInv, ServiceInv, ServiceOk, Up
    <2>3. CASE p # Home[t]
      <3>1. \A u \in Thread : Home[u] = p => pc'[u] = pc[u]
        BY <2>3 DEF PipelineInv, TypeOK, Goto, CountSigned
      <3>2. \A d \in Counter : metrics'[p][d] = metrics[p][d]
        BY <1>0, <2>3
      <3> QED
        BY <2>1, <3>1, <3>2 DEF PipelineInv, ServiceInv, ServiceOk
    <2> QED
      BY <2>2, <2>3
  <1>3. FlowInv'
    BY PipelineAssumption DEF PipelineInv, TypeOK, FlowInv, Up, At, Ev, Goto, logs, Handling,
       CountSigned
  <1>4. EventInv'
    BY <1>1, PipelineAssumption, <1>0 DEF PipelineInv, TypeOK, FlowInv, Up, At, Ev, Goto, logs,
       Label, Handling, EventInv, Event, Counter,
       CountSigned
  <1>5. NothingLost'
    BY <1>1, PipelineAssumption, <1>0 DEF PipelineInv, TypeOK, FlowInv, Up, At, Ev, Goto, logs,
       Label, Handling, NothingLost, Counter,
       CountSigned
  <1>6. CountInv'
    <2> DEFINE l == "persisted"
    <2>1. l \in Label /\ Goto(t, l)
      BY DEF Label, PipelineInv, TypeOK, Goto, CountSigned
    <2>2. ASSUME NEW p \in Proc
          PROVE  /\ Handled(p)' = Handled(p) + Delta(p, t, l, Handling)
                 /\ Counting(p)' = Counting(p) + Delta(p, t, l, {"persisted"})
                 /\ Sealing(p)' = Sealing(p) + Delta(p, t, l, {"commit", "signed", "persisted"})
                 /\ Falling(p)' = Falling(p) + Delta(p, t, l, {"raw", "write"})
      <3> HIDE DEF l
      <3> QED
        BY <2>1, Counts DEF PipelineInv
    <2>3. ASSUME NEW p \in Proc PROVE Sealed(p)' = Sealed(p) /\ Plain(p)' = Plain(p)
      BY DEF Sealed, Plain, Mine, logs, CountSigned
    <2>4. ASSUME NEW p \in Proc
          PROVE  /\ Handled(p) \in Nat /\ Counting(p) \in Nat /\ Sealing(p) \in Nat
                 /\ Falling(p) \in Nat /\ Sealed(p) \in Nat /\ Plain(p) \in Nat
      BY CountTypes
    <2>5. mode' = mode /\ signer' = signer
      BY DEF CountSigned
    <2>6. ASSUME NEW p \in Proc, p # Home[t] PROVE CountsRight(p)'
      <3>1. /\ Handled(p)' = Handled(p) /\ Counting(p)' = Counting(p)
            /\ Sealing(p)' = Sealing(p) /\ Falling(p)' = Falling(p)
        BY <2>2, <2>4, <2>6 DEF Delta
      <3>2. \A d \in Counter : metrics'[p][d] = metrics[p][d]
        BY <1>0, <2>6
      <3>3. Sealed(p)' = Sealed(p) /\ Plain(p)' = Plain(p)
        BY <2>3, <2>6
      <3>4. \A d \in Counter : metrics[p][d] \in Nat
        BY DEF PipelineInv, TypeOK
      <3>5. CountsRight(p)
        BY DEF PipelineInv, CountInv
      <3> QED
        BY <2>4, <2>5, <3>1, <3>2, <3>3, <3>4, <3>5 DEF CountsRight, Failures, Up, Counter
    <2>7. ASSUME NEW p \in Proc, p = Home[t] PROVE CountsRight(p)'
      <3>1. /\ Handled(p)' = Handled(p)
            /\ Counting(p)' = Counting(p) + 1
            /\ Sealing(p)' = Sealing(p)
            /\ Falling(p)' = Falling(p)
        BY <2>2, <2>4, <2>7 DEF Delta, Handling, At, CountSigned
      <3>2. \A d \in Counter : metrics[p][d] \in Nat
        BY DEF PipelineInv, TypeOK
      <3>3. CountsRight(p)
        BY DEF PipelineInv, CountInv
      <3>4. mode[p] \in {"sign", "dual"} => signer[p]
        BY DEF PipelineInv, ServiceInv, ServiceOk
      <3> QED
        BY <1>0, <2>3, <2>4, <2>5, <2>7, <3>1, <3>2, <3>3, <3>4 DEF CountsRight, Failures, Up,
           Counter, CountSigned
    <2> QED
      BY <2>6, <2>7 DEF CountInv
  <1> QED
    BY <1>1, <1>2, <1>3, <1>4, <1>5, <1>6 DEF PipelineInv

\* The second one; handle returns.
LEMMA CountPersistedKeeps ==
    ASSUME PipelineInv, NEW t \in Thread, CountPersisted(t)
    PROVE  PipelineInv'
  <1>0. /\ metrics' \in [Proc -> [Counter -> Nat]]
        /\ \A q \in Proc : \A d \in Counter :
              metrics'[q][d] = IF q = Home[t] /\ d = "persisted" THEN metrics[q][d] + 1 ELSE metrics[q][d]
    <2>1. Increment(Home[t], "persisted") /\ Home[t] \in Proc /\ "persisted" \in Counter
      BY PipelineAssumption DEF CountPersisted, Counter
    <2> QED
      BY <2>1, Increments DEF PipelineInv
  <1>1. TypeOK'
    <2>1. mode' \in [Proc -> Mode \cup {"down", "killed"}] /\ signer' \in [Proc -> BOOLEAN]
      BY PipelineAssumption, <1>0 DEF PipelineInv, TypeOK, FlowInv, Up, At, Ev, Goto, logs,
         Label, Handling, Event, Counter, Mode, ServiceInv,
         CountPersisted
    <2>2. metrics' \in [Proc -> [Counter -> Nat]]
      BY PipelineAssumption, <1>0 DEF PipelineInv, TypeOK, FlowInv, Up, At, Ev, Goto, logs,
         Label, Handling, Event, Counter, Mode, ServiceInv,
         CountPersisted
    <2>3. rawLock' \in [Proc -> Thread \cup {Free}] /\ lock' \in Thread \cup {Batch, Free}
      BY PipelineAssumption, <1>0 DEF PipelineInv, TypeOK, FlowInv, Up, At, Ev, Goto, logs,
         Label, Handling, Event, Counter, Mode, ServiceInv,
         CountPersisted
    <2>4. pending' \in BOOLEAN
      BY PipelineAssumption, <1>0 DEF PipelineInv, TypeOK, FlowInv, Up, At, Ev, Goto, logs,
         Label, Handling, Event, Counter, Mode, ServiceInv,
         CountPersisted
    <2>5. pc' \in [Thread -> Label]
      BY PipelineAssumption, <1>0 DEF PipelineInv, TypeOK, FlowInv, Up, At, Ev, Goto, logs,
         Label, Handling, Event, Counter, Mode, ServiceInv,
         CountPersisted
    <2>6. count' \in [Thread -> 0..MaxEvents]
      BY PipelineAssumption, <1>0 DEF PipelineInv, TypeOK, FlowInv, Up, At, Ev, Goto, logs,
         Label, Handling, Event, Counter, Mode, ServiceInv,
         CountPersisted
    <2>7. chain' \subseteq Event \cup ({Batch} \X (1..MaxLines))
      BY PipelineAssumption, <1>0 DEF PipelineInv, TypeOK, FlowInv, Up, At, Ev, Goto, logs,
         Label, Handling, Event, Counter, Mode, ServiceInv,
         CountPersisted
    <2>8. plain' \subseteq Event /\ lost' \subseteq Event /\ returned' \subseteq Event
      BY PipelineAssumption, <1>0 DEF PipelineInv, TypeOK, FlowInv, Up, At, Ev, Goto, logs,
         Label, Handling, Event, Counter, Mode, ServiceInv,
         CountPersisted
    <2>9. line' \in 1..(MaxLines + 1)
      BY PipelineAssumption, <1>0 DEF PipelineInv, TypeOK, FlowInv, Up, At, Ev, Goto, logs,
         Label, Handling, Event, Counter, Mode, ServiceInv,
         CountPersisted
    <2>10. \A u \in Thread : (lock' = u) <=> pc'[u] \in {"sign", "commit"}
      BY PipelineAssumption, <1>0 DEF PipelineInv, TypeOK, FlowInv, Up, At, Ev, Goto, logs,
         Label, Handling, Event, Counter, Mode, ServiceInv,
         CountPersisted
    <2>11. \A u \in Thread : (rawLock'[Home[u]] = u) <=> pc'[u] = "write"
      BY PipelineAssumption, <1>0 DEF PipelineInv, TypeOK, FlowInv, Up, At, Ev, Goto, logs,
         Label, Handling, Event, Counter, Mode, ServiceInv,
         CountPersisted
    <2> QED
      BY <2>1, <2>2, <2>3, <2>4, <2>5, <2>6, <2>7, <2>8, <2>9, <2>10, <2>11 DEF TypeOK
  <1>7. Up(Home[t]) /\ Home[t] \in Proc
    BY PipelineAssumption DEF PipelineInv, FlowInv, At, CountPersisted
  <1>2. ServiceInv'
    <2> SUFFICES ASSUME NEW p \in Proc PROVE ServiceOk(p)'
      BY DEF ServiceInv
    <2>1. mode' = mode /\ signer' = signer /\ count' = count
      BY DEF CountPersisted
    <2>2. CASE p = Home[t]
      BY <1>7, <2>1, <2>2 DEF PipelineInv, ServiceInv, ServiceOk, Up
    <2>3. CASE p # Home[t]
      <3>1. \A u \in Thread : Home[u] = p => pc'[u] = pc[u]
        BY <2>3 DEF PipelineInv, TypeOK, Goto, CountPersisted
      <3>2. \A d \in Counter : metrics'[p][d] = metrics[p][d]
        BY <1>0, <2>3
      <3> QED
        BY <2>1, <3>1, <3>2 DEF PipelineInv, ServiceInv, ServiceOk
    <2> QED
      BY <2>2, <2>3
  <1>3. FlowInv'
    BY PipelineAssumption DEF PipelineInv, TypeOK, FlowInv, Up, At, Ev, Goto, logs, Handling,
       CountPersisted
  <1>4. EventInv'
    BY <1>1, PipelineAssumption, <1>0 DEF PipelineInv, TypeOK, FlowInv, Up, At, Ev, Goto, logs,
       Label, Handling, EventInv, Event, Counter,
       CountPersisted
  <1>5. NothingLost'
    BY <1>1, PipelineAssumption, <1>0 DEF PipelineInv, TypeOK, FlowInv, Up, At, Ev, Goto, logs,
       Label, Handling, NothingLost, Counter,
       CountPersisted
  <1>6. CountInv'
    <2> DEFINE l == IF mode[Home[t]] = "dual" THEN "raw" ELSE "idle"
    <2>1. l \in Label /\ Goto(t, l)
      BY DEF Label, PipelineInv, TypeOK, Goto, CountPersisted
    <2>2. ASSUME NEW p \in Proc
          PROVE  /\ Handled(p)' = Handled(p) + Delta(p, t, l, Handling)
                 /\ Counting(p)' = Counting(p) + Delta(p, t, l, {"persisted"})
                 /\ Sealing(p)' = Sealing(p) + Delta(p, t, l, {"commit", "signed", "persisted"})
                 /\ Falling(p)' = Falling(p) + Delta(p, t, l, {"raw", "write"})
      <3> HIDE DEF l
      <3> QED
        BY <2>1, Counts DEF PipelineInv
    <2>3. ASSUME NEW p \in Proc PROVE Sealed(p)' = Sealed(p) /\ Plain(p)' = Plain(p)
      BY DEF Sealed, Plain, Mine, logs, CountPersisted
    <2>4. ASSUME NEW p \in Proc
          PROVE  /\ Handled(p) \in Nat /\ Counting(p) \in Nat /\ Sealing(p) \in Nat
                 /\ Falling(p) \in Nat /\ Sealed(p) \in Nat /\ Plain(p) \in Nat
      BY CountTypes
    <2>5. mode' = mode /\ signer' = signer
      BY DEF CountPersisted
    <2>6. ASSUME NEW p \in Proc, p # Home[t] PROVE CountsRight(p)'
      <3>1. /\ Handled(p)' = Handled(p) /\ Counting(p)' = Counting(p)
            /\ Sealing(p)' = Sealing(p) /\ Falling(p)' = Falling(p)
        BY <2>2, <2>4, <2>6 DEF Delta
      <3>2. \A d \in Counter : metrics'[p][d] = metrics[p][d]
        BY <1>0, <2>6
      <3>3. Sealed(p)' = Sealed(p) /\ Plain(p)' = Plain(p)
        BY <2>3, <2>6
      <3>4. \A d \in Counter : metrics[p][d] \in Nat
        BY DEF PipelineInv, TypeOK
      <3>5. CountsRight(p)
        BY DEF PipelineInv, CountInv
      <3> QED
        BY <2>4, <2>5, <3>1, <3>2, <3>3, <3>4, <3>5 DEF CountsRight, Failures, Up, Counter
    <2>7. ASSUME NEW p \in Proc, p = Home[t] PROVE CountsRight(p)'
      <3>1. /\ Handled(p)' = Handled(p) - 1
            /\ Counting(p)' = Counting(p) - 1
            /\ Sealing(p)' = Sealing(p) - 1
            /\ Falling(p)' = (IF mode[Home[t]] = "dual" THEN Falling(p) + 1 ELSE Falling(p))
        BY <2>2, <2>4, <2>7 DEF Delta, Handling, At, CountPersisted
      <3>2. \A d \in Counter : metrics[p][d] \in Nat
        BY DEF PipelineInv, TypeOK
      <3>3. CountsRight(p)
        BY DEF PipelineInv, CountInv
      <3>4. mode[p] \in {"sign", "dual"} => signer[p]
        BY DEF PipelineInv, ServiceInv, ServiceOk
      <3> QED
        BY <1>0, <2>3, <2>4, <2>5, <2>7, <3>1, <3>2, <3>3, <3>4 DEF CountsRight, Failures, Up,
           Counter, CountPersisted
    <2> QED
      BY <2>6, <2>7 DEF CountInv
  <1> QED
    BY <1>1, <1>2, <1>3, <1>4, <1>5, <1>6 DEF PipelineInv

\* The plain log's lock.
LEMMA TakeRawLockKeeps ==
    ASSUME PipelineInv, NEW t \in Thread, TakeRawLock(t)
    PROVE  PipelineInv'
  <1>0. metrics' = metrics
    BY DEF TakeRawLock
  <1>1. TypeOK'
    <2>1. mode' \in [Proc -> Mode \cup {"down", "killed"}] /\ signer' \in [Proc -> BOOLEAN]
      BY PipelineAssumption, <1>0 DEF PipelineInv, TypeOK, FlowInv, Up, At, Ev, Goto, logs,
         Label, Handling, Event, Counter, Mode, ServiceInv,
         TakeRawLock
    <2>2. metrics' \in [Proc -> [Counter -> Nat]]
      BY PipelineAssumption, <1>0 DEF PipelineInv, TypeOK, FlowInv, Up, At, Ev, Goto, logs,
         Label, Handling, Event, Counter, Mode, ServiceInv,
         TakeRawLock
    <2>3. rawLock' \in [Proc -> Thread \cup {Free}] /\ lock' \in Thread \cup {Batch, Free}
      BY PipelineAssumption, <1>0 DEF PipelineInv, TypeOK, FlowInv, Up, At, Ev, Goto, logs,
         Label, Handling, Event, Counter, Mode, ServiceInv,
         TakeRawLock
    <2>4. pending' \in BOOLEAN
      BY PipelineAssumption, <1>0 DEF PipelineInv, TypeOK, FlowInv, Up, At, Ev, Goto, logs,
         Label, Handling, Event, Counter, Mode, ServiceInv,
         TakeRawLock
    <2>5. pc' \in [Thread -> Label]
      BY PipelineAssumption, <1>0 DEF PipelineInv, TypeOK, FlowInv, Up, At, Ev, Goto, logs,
         Label, Handling, Event, Counter, Mode, ServiceInv,
         TakeRawLock
    <2>6. count' \in [Thread -> 0..MaxEvents]
      BY PipelineAssumption, <1>0 DEF PipelineInv, TypeOK, FlowInv, Up, At, Ev, Goto, logs,
         Label, Handling, Event, Counter, Mode, ServiceInv,
         TakeRawLock
    <2>7. chain' \subseteq Event \cup ({Batch} \X (1..MaxLines))
      BY PipelineAssumption, <1>0 DEF PipelineInv, TypeOK, FlowInv, Up, At, Ev, Goto, logs,
         Label, Handling, Event, Counter, Mode, ServiceInv,
         TakeRawLock
    <2>8. plain' \subseteq Event /\ lost' \subseteq Event /\ returned' \subseteq Event
      BY PipelineAssumption, <1>0 DEF PipelineInv, TypeOK, FlowInv, Up, At, Ev, Goto, logs,
         Label, Handling, Event, Counter, Mode, ServiceInv,
         TakeRawLock
    <2>9. line' \in 1..(MaxLines + 1)
      BY PipelineAssumption, <1>0 DEF PipelineInv, TypeOK, FlowInv, Up, At, Ev, Goto, logs,
         Label, Handling, Event, Counter, Mode, ServiceInv,
         TakeRawLock
    <2>10. \A u \in Thread : (lock' = u) <=> pc'[u] \in {"sign", "commit"}
      BY PipelineAssumption, <1>0 DEF PipelineInv, TypeOK, FlowInv, Up, At, Ev, Goto, logs,
         Label, Handling, Event, Counter, Mode, ServiceInv,
         TakeRawLock
    <2>11. \A u \in Thread : (rawLock'[Home[u]] = u) <=> pc'[u] = "write"
      <3> SUFFICES ASSUME NEW u \in Thread PROVE (rawLock'[Home[u]] = u) <=> pc'[u] = "write"
        OBVIOUS
      <3>1. CASE u = t
        BY <3>1, PipelineAssumption, ZenonT(60) DEF PipelineInv, TypeOK, At, Goto, TakeRawLock
      <3>2. CASE u # t /\ Home[u] = Home[t]
        BY <3>2, PipelineAssumption DEF PipelineInv, TypeOK, At, Goto, TakeRawLock
      <3>3. CASE u # t /\ Home[u] # Home[t]
        BY <3>3, PipelineAssumption DEF PipelineInv, TypeOK, At, Goto, TakeRawLock
      <3> QED
        BY <3>1, <3>2, <3>3
    <2> QED
      BY <2>1, <2>2, <2>3, <2>4, <2>5, <2>6, <2>7, <2>8, <2>9, <2>10, <2>11 DEF TypeOK
  <1>7. Up(Home[t]) /\ Home[t] \in Proc
    BY PipelineAssumption DEF PipelineInv, FlowInv, At, TakeRawLock
  <1>2. ServiceInv'
    <2> SUFFICES ASSUME NEW p \in Proc PROVE ServiceOk(p)'
      BY DEF ServiceInv
    <2>1. mode' = mode /\ signer' = signer /\ count' = count
      BY DEF TakeRawLock
    <2>2. CASE p = Home[t]
      BY <1>7, <2>1, <2>2 DEF PipelineInv, ServiceInv, ServiceOk, Up
    <2>3. CASE p # Home[t]
      <3>1. \A u \in Thread : Home[u] = p => pc'[u] = pc[u]
        BY <2>3 DEF PipelineInv, TypeOK, Goto, TakeRawLock
      <3>2. \A d \in Counter : metrics'[p][d] = metrics[p][d]
        BY <1>0, <2>3
      <3> QED
        BY <2>1, <3>1, <3>2 DEF PipelineInv, ServiceInv, ServiceOk
    <2> QED
      BY <2>2, <2>3
  <1>3. FlowInv'
    BY PipelineAssumption, SMTT(40) DEF PipelineInv, TypeOK, FlowInv, Up, At, Ev, Goto, logs,
       Handling,
       TakeRawLock
  <1>4. EventInv'
    BY <1>1, PipelineAssumption, <1>0 DEF PipelineInv, TypeOK, FlowInv, Up, At, Ev, Goto, logs,
       Label, Handling, EventInv, Event, Counter,
       TakeRawLock
  <1>5. NothingLost'
    BY <1>1, PipelineAssumption, <1>0 DEF PipelineInv, TypeOK, FlowInv, Up, At, Ev, Goto, logs,
       Label, Handling, NothingLost, Counter,
       TakeRawLock
  <1>6. CountInv'
    <2> DEFINE l == "write"
    <2>1. l \in Label /\ Goto(t, l)
      BY DEF Label, PipelineInv, TypeOK, Goto, TakeRawLock
    <2>2. ASSUME NEW p \in Proc
          PROVE  /\ Handled(p)' = Handled(p) + Delta(p, t, l, Handling)
                 /\ Counting(p)' = Counting(p) + Delta(p, t, l, {"persisted"})
                 /\ Sealing(p)' = Sealing(p) + Delta(p, t, l, {"commit", "signed", "persisted"})
                 /\ Falling(p)' = Falling(p) + Delta(p, t, l, {"raw", "write"})
      <3> HIDE DEF l
      <3> QED
        BY <2>1, Counts DEF PipelineInv
    <2>3. ASSUME NEW p \in Proc PROVE Sealed(p)' = Sealed(p) /\ Plain(p)' = Plain(p)
      BY DEF Sealed, Plain, Mine, logs, TakeRawLock
    <2>4. ASSUME NEW p \in Proc
          PROVE  /\ Handled(p) \in Nat /\ Counting(p) \in Nat /\ Sealing(p) \in Nat
                 /\ Falling(p) \in Nat /\ Sealed(p) \in Nat /\ Plain(p) \in Nat
      BY CountTypes
    <2>5. mode' = mode /\ signer' = signer
      BY DEF TakeRawLock
    <2>6. ASSUME NEW p \in Proc, p # Home[t] PROVE CountsRight(p)'
      <3>1. /\ Handled(p)' = Handled(p) /\ Counting(p)' = Counting(p)
            /\ Sealing(p)' = Sealing(p) /\ Falling(p)' = Falling(p)
        BY <2>2, <2>4, <2>6 DEF Delta
      <3>2. \A d \in Counter : metrics'[p][d] = metrics[p][d]
        BY <1>0, <2>6
      <3>3. Sealed(p)' = Sealed(p) /\ Plain(p)' = Plain(p)
        BY <2>3, <2>6
      <3>4. \A d \in Counter : metrics[p][d] \in Nat
        BY DEF PipelineInv, TypeOK
      <3>5. CountsRight(p)
        BY DEF PipelineInv, CountInv
      <3> QED
        BY <2>4, <2>5, <3>1, <3>2, <3>3, <3>4, <3>5 DEF CountsRight, Failures, Up, Counter
    <2>7. ASSUME NEW p \in Proc, p = Home[t] PROVE CountsRight(p)'
      <3>1. /\ Handled(p)' = Handled(p)
            /\ Counting(p)' = Counting(p)
            /\ Sealing(p)' = Sealing(p)
            /\ Falling(p)' = Falling(p)
        BY <2>2, <2>4, <2>7 DEF Delta, Handling, At, TakeRawLock
      <3>2. \A d \in Counter : metrics[p][d] \in Nat
        BY DEF PipelineInv, TypeOK
      <3>3. CountsRight(p)
        BY DEF PipelineInv, CountInv
      <3>4. mode[p] \in {"sign", "dual"} => signer[p]
        BY DEF PipelineInv, ServiceInv, ServiceOk
      <3> QED
        BY <1>0, <2>3, <2>4, <2>5, <2>7, <3>1, <3>2, <3>3, <3>4 DEF CountsRight, Failures, Up,
           Counter, TakeRawLock
    <2> QED
      BY <2>6, <2>7 DEF CountInv
  <1> QED
    BY <1>1, <1>2, <1>3, <1>4, <1>5, <1>6 DEF PipelineInv

\* The plain line is written, emit returns.
LEMMA WriteRawKeeps ==
    ASSUME PipelineInv, NEW t \in Thread, WriteRaw(t)
    PROVE  PipelineInv'
  <1>0. metrics' = metrics
    BY DEF WriteRaw
  <1>1. TypeOK'
    <2>1. mode' \in [Proc -> Mode \cup {"down", "killed"}] /\ signer' \in [Proc -> BOOLEAN]
      BY PipelineAssumption, <1>0 DEF PipelineInv, TypeOK, FlowInv, Up, At, Ev, Goto, logs,
         Label, Handling, Event, Counter, Mode, ServiceInv,
         WriteRaw
    <2>2. metrics' \in [Proc -> [Counter -> Nat]]
      BY PipelineAssumption, <1>0 DEF PipelineInv, TypeOK, FlowInv, Up, At, Ev, Goto, logs,
         Label, Handling, Event, Counter, Mode, ServiceInv,
         WriteRaw
    <2>3. rawLock' \in [Proc -> Thread \cup {Free}] /\ lock' \in Thread \cup {Batch, Free}
      BY PipelineAssumption, <1>0 DEF PipelineInv, TypeOK, FlowInv, Up, At, Ev, Goto, logs,
         Label, Handling, Event, Counter, Mode, ServiceInv,
         WriteRaw
    <2>4. pending' \in BOOLEAN
      BY PipelineAssumption, <1>0 DEF PipelineInv, TypeOK, FlowInv, Up, At, Ev, Goto, logs,
         Label, Handling, Event, Counter, Mode, ServiceInv,
         WriteRaw
    <2>5. pc' \in [Thread -> Label]
      BY PipelineAssumption, <1>0 DEF PipelineInv, TypeOK, FlowInv, Up, At, Ev, Goto, logs,
         Label, Handling, Event, Counter, Mode, ServiceInv,
         WriteRaw
    <2>6. count' \in [Thread -> 0..MaxEvents]
      BY PipelineAssumption, <1>0 DEF PipelineInv, TypeOK, FlowInv, Up, At, Ev, Goto, logs,
         Label, Handling, Event, Counter, Mode, ServiceInv,
         WriteRaw
    <2>7. chain' \subseteq Event \cup ({Batch} \X (1..MaxLines))
      BY PipelineAssumption, <1>0 DEF PipelineInv, TypeOK, FlowInv, Up, At, Ev, Goto, logs,
         Label, Handling, Event, Counter, Mode, ServiceInv,
         WriteRaw
    <2>8. plain' \subseteq Event /\ lost' \subseteq Event /\ returned' \subseteq Event
      BY PipelineAssumption, <1>0 DEF PipelineInv, TypeOK, FlowInv, Up, At, Ev, Goto, logs,
         Label, Handling, Event, Counter, Mode, ServiceInv,
         WriteRaw
    <2>9. line' \in 1..(MaxLines + 1)
      BY PipelineAssumption, <1>0 DEF PipelineInv, TypeOK, FlowInv, Up, At, Ev, Goto, logs,
         Label, Handling, Event, Counter, Mode, ServiceInv,
         WriteRaw
    <2>10. \A u \in Thread : (lock' = u) <=> pc'[u] \in {"sign", "commit"}
      BY PipelineAssumption, <1>0 DEF PipelineInv, TypeOK, FlowInv, Up, At, Ev, Goto, logs,
         Label, Handling, Event, Counter, Mode, ServiceInv,
         WriteRaw
    <2>11. \A u \in Thread : (rawLock'[Home[u]] = u) <=> pc'[u] = "write"
      <3> SUFFICES ASSUME NEW u \in Thread PROVE (rawLock'[Home[u]] = u) <=> pc'[u] = "write"
        OBVIOUS
      <3>1. CASE u = t
        BY <3>1, PipelineAssumption, ZenonT(60) DEF PipelineInv, TypeOK, At, Goto, WriteRaw
      <3>2. CASE u # t /\ Home[u] = Home[t]
        BY <3>2, PipelineAssumption DEF PipelineInv, TypeOK, At, Goto, WriteRaw
      <3>3. CASE u # t /\ Home[u] # Home[t]
        BY <3>3, PipelineAssumption DEF PipelineInv, TypeOK, At, Goto, WriteRaw
      <3> QED
        BY <3>1, <3>2, <3>3
    <2> QED
      BY <2>1, <2>2, <2>3, <2>4, <2>5, <2>6, <2>7, <2>8, <2>9, <2>10, <2>11 DEF TypeOK
  <1>7. Up(Home[t]) /\ Home[t] \in Proc
    BY PipelineAssumption DEF PipelineInv, FlowInv, At, WriteRaw
  <1>2. ServiceInv'
    <2> SUFFICES ASSUME NEW p \in Proc PROVE ServiceOk(p)'
      BY DEF ServiceInv
    <2>1. mode' = mode /\ signer' = signer /\ count' = count
      BY DEF WriteRaw
    <2>2. CASE p = Home[t]
      BY <1>7, <2>1, <2>2 DEF PipelineInv, ServiceInv, ServiceOk, Up
    <2>3. CASE p # Home[t]
      <3>1. \A u \in Thread : Home[u] = p => pc'[u] = pc[u]
        BY <2>3 DEF PipelineInv, TypeOK, Goto, WriteRaw
      <3>2. \A d \in Counter : metrics'[p][d] = metrics[p][d]
        BY <1>0, <2>3
      <3> QED
        BY <2>1, <3>1, <3>2 DEF PipelineInv, ServiceInv, ServiceOk
    <2> QED
      BY <2>2, <2>3
  <1>3. FlowInv'
    BY PipelineAssumption DEF PipelineInv, TypeOK, FlowInv, Up, At, Ev, Goto, logs, Handling,
       WriteRaw
  <1>4. EventInv'
    BY <1>1, PipelineAssumption, <1>0 DEF PipelineInv, TypeOK, FlowInv, Up, At, Ev, Goto, logs,
       Label, Handling, EventInv, Event, Counter,
       WriteRaw
  <1>5. NothingLost'
    BY <1>1, PipelineAssumption, <1>0 DEF PipelineInv, TypeOK, FlowInv, Up, At, Ev, Goto, logs,
       Label, Handling, NothingLost, Counter,
       WriteRaw
  <1>6. CountInv'
    <2> DEFINE l == "idle"
    <2>1. l \in Label /\ Goto(t, l)
      BY DEF Label, PipelineInv, TypeOK, Goto, WriteRaw
    <2>2. ASSUME NEW p \in Proc
          PROVE  /\ Handled(p)' = Handled(p) + Delta(p, t, l, Handling)
                 /\ Counting(p)' = Counting(p) + Delta(p, t, l, {"persisted"})
                 /\ Sealing(p)' = Sealing(p) + Delta(p, t, l, {"commit", "signed", "persisted"})
                 /\ Falling(p)' = Falling(p) + Delta(p, t, l, {"raw", "write"})
      <3> HIDE DEF l
      <3> QED
        BY <2>1, Counts DEF PipelineInv
    <2>3. ASSUME NEW p \in Proc
          PROVE  Sealed(p)' = Sealed(p) /\ Plain(p)' <= (IF p = Home[t] THEN Plain(p) + 1 ELSE Plain(p))
                 /\ Plain(p)' \in Nat
      <3>1. Sealed(p)' = Sealed(p)
        BY DEF Sealed, Mine, WriteRaw
      <3>2. CASE p = Home[t]
        <4>1. Mine(p, plain)' = Mine(p, plain) \cup {Ev(t)}
          BY <3>2, <1>1, PipelineAssumption DEF Mine, WriteRaw, At, Ev, Event, PipelineInv,
             TypeOK, FlowInv
        <4>2. /\ Cardinality(Mine(p, plain) \cup {Ev(t)}) <= Cardinality(Mine(p, plain)) + 1
              /\ Cardinality(Mine(p, plain) \cup {Ev(t)}) \in Nat
          BY EventsFinite, FS_AddElement
        <4> QED
          BY <3>1, <3>2, <4>1, <4>2 DEF Plain
      <3>3. CASE p # Home[t]
        <4>1. Mine(p, plain)' = Mine(p, plain)
          BY <3>3 DEF Mine, WriteRaw, Ev
        <4>2. Cardinality(Mine(p, plain)) \in Nat
          BY EventsFinite
        <4> QED
          BY <3>1, <3>3, <4>1, <4>2 DEF Plain
      <3> QED
        BY <3>2, <3>3
    <2>4. ASSUME NEW p \in Proc
          PROVE  /\ Handled(p) \in Nat /\ Counting(p) \in Nat /\ Sealing(p) \in Nat
                 /\ Falling(p) \in Nat /\ Sealed(p) \in Nat /\ Plain(p) \in Nat
      BY CountTypes
    <2>5. mode' = mode /\ signer' = signer
      BY DEF WriteRaw
    <2>6. ASSUME NEW p \in Proc, p # Home[t] PROVE CountsRight(p)'
      <3>1. /\ Handled(p)' = Handled(p) /\ Counting(p)' = Counting(p)
            /\ Sealing(p)' = Sealing(p) /\ Falling(p)' = Falling(p)
        BY <2>2, <2>4, <2>6 DEF Delta
      <3>2. \A d \in Counter : metrics'[p][d] = metrics[p][d]
        BY <1>0, <2>6
      <3>3. Sealed(p)' = Sealed(p) /\ Plain(p)' <= Plain(p) /\ Plain(p)' \in Nat
        BY <2>3, <2>6
      <3>4. \A d \in Counter : metrics[p][d] \in Nat
        BY DEF PipelineInv, TypeOK
      <3>5. CountsRight(p)
        BY DEF PipelineInv, CountInv
      <3> QED
        BY <2>4, <2>5, <3>1, <3>2, <3>3, <3>4, <3>5 DEF CountsRight, Failures, Up, Counter
    <2>7. ASSUME NEW p \in Proc, p = Home[t] PROVE CountsRight(p)'
      <3>1. /\ Handled(p)' = Handled(p)
            /\ Counting(p)' = Counting(p)
            /\ Sealing(p)' = Sealing(p)
            /\ Falling(p)' = Falling(p) - 1
        BY <2>2, <2>4, <2>7 DEF Delta, Handling, At, WriteRaw
      <3>2. \A d \in Counter : metrics[p][d] \in Nat
        BY DEF PipelineInv, TypeOK
      <3>3. CountsRight(p)
        BY DEF PipelineInv, CountInv
      <3>4. mode[p] \in {"sign", "dual"} => signer[p]
        BY DEF PipelineInv, ServiceInv, ServiceOk
      <3> QED
        BY <1>0, <2>3, <2>4, <2>5, <2>7, <3>1, <3>2, <3>3, <3>4 DEF CountsRight, Failures, Up,
           Counter, WriteRaw
    <2> QED
      BY <2>6, <2>7 DEF CountInv
  <1> QED
    BY <1>1, <1>2, <1>3, <1>4, <1>5, <1>6 DEF PipelineInv

\* The plain line could not be written, emit returns.
LEMMA WriteFailsKeeps ==
    ASSUME PipelineInv, NEW t \in Thread, WriteFails(t)
    PROVE  PipelineInv'
  <1>0. metrics' = metrics
    BY DEF WriteFails
  <1>1. TypeOK'
    <2>1. mode' \in [Proc -> Mode \cup {"down", "killed"}] /\ signer' \in [Proc -> BOOLEAN]
      BY PipelineAssumption, <1>0 DEF PipelineInv, TypeOK, FlowInv, Up, At, Ev, Goto, logs,
         Label, Handling, Event, Counter, Mode, ServiceInv,
         WriteFails
    <2>2. metrics' \in [Proc -> [Counter -> Nat]]
      BY PipelineAssumption, <1>0 DEF PipelineInv, TypeOK, FlowInv, Up, At, Ev, Goto, logs,
         Label, Handling, Event, Counter, Mode, ServiceInv,
         WriteFails
    <2>3. rawLock' \in [Proc -> Thread \cup {Free}] /\ lock' \in Thread \cup {Batch, Free}
      BY PipelineAssumption, <1>0 DEF PipelineInv, TypeOK, FlowInv, Up, At, Ev, Goto, logs,
         Label, Handling, Event, Counter, Mode, ServiceInv,
         WriteFails
    <2>4. pending' \in BOOLEAN
      BY PipelineAssumption, <1>0 DEF PipelineInv, TypeOK, FlowInv, Up, At, Ev, Goto, logs,
         Label, Handling, Event, Counter, Mode, ServiceInv,
         WriteFails
    <2>5. pc' \in [Thread -> Label]
      BY PipelineAssumption, <1>0 DEF PipelineInv, TypeOK, FlowInv, Up, At, Ev, Goto, logs,
         Label, Handling, Event, Counter, Mode, ServiceInv,
         WriteFails
    <2>6. count' \in [Thread -> 0..MaxEvents]
      BY PipelineAssumption, <1>0 DEF PipelineInv, TypeOK, FlowInv, Up, At, Ev, Goto, logs,
         Label, Handling, Event, Counter, Mode, ServiceInv,
         WriteFails
    <2>7. chain' \subseteq Event \cup ({Batch} \X (1..MaxLines))
      BY PipelineAssumption, <1>0 DEF PipelineInv, TypeOK, FlowInv, Up, At, Ev, Goto, logs,
         Label, Handling, Event, Counter, Mode, ServiceInv,
         WriteFails
    <2>8. plain' \subseteq Event /\ lost' \subseteq Event /\ returned' \subseteq Event
      BY PipelineAssumption, <1>0 DEF PipelineInv, TypeOK, FlowInv, Up, At, Ev, Goto, logs,
         Label, Handling, Event, Counter, Mode, ServiceInv,
         WriteFails
    <2>9. line' \in 1..(MaxLines + 1)
      BY PipelineAssumption, <1>0 DEF PipelineInv, TypeOK, FlowInv, Up, At, Ev, Goto, logs,
         Label, Handling, Event, Counter, Mode, ServiceInv,
         WriteFails
    <2>10. \A u \in Thread : (lock' = u) <=> pc'[u] \in {"sign", "commit"}
      BY PipelineAssumption, <1>0 DEF PipelineInv, TypeOK, FlowInv, Up, At, Ev, Goto, logs,
         Label, Handling, Event, Counter, Mode, ServiceInv,
         WriteFails
    <2>11. \A u \in Thread : (rawLock'[Home[u]] = u) <=> pc'[u] = "write"
      <3> SUFFICES ASSUME NEW u \in Thread PROVE (rawLock'[Home[u]] = u) <=> pc'[u] = "write"
        OBVIOUS
      <3>1. CASE u = t
        BY <3>1, PipelineAssumption, ZenonT(60) DEF PipelineInv, TypeOK, At, Goto, WriteFails
      <3>2. CASE u # t /\ Home[u] = Home[t]
        BY <3>2, PipelineAssumption DEF PipelineInv, TypeOK, At, Goto, WriteFails
      <3>3. CASE u # t /\ Home[u] # Home[t]
        BY <3>3, PipelineAssumption DEF PipelineInv, TypeOK, At, Goto, WriteFails
      <3> QED
        BY <3>1, <3>2, <3>3
    <2> QED
      BY <2>1, <2>2, <2>3, <2>4, <2>5, <2>6, <2>7, <2>8, <2>9, <2>10, <2>11 DEF TypeOK
  <1>7. Up(Home[t]) /\ Home[t] \in Proc
    BY PipelineAssumption DEF PipelineInv, FlowInv, At, WriteFails
  <1>2. ServiceInv'
    <2> SUFFICES ASSUME NEW p \in Proc PROVE ServiceOk(p)'
      BY DEF ServiceInv
    <2>1. mode' = mode /\ signer' = signer /\ count' = count
      BY DEF WriteFails
    <2>2. CASE p = Home[t]
      BY <1>7, <2>1, <2>2 DEF PipelineInv, ServiceInv, ServiceOk, Up
    <2>3. CASE p # Home[t]
      <3>1. \A u \in Thread : Home[u] = p => pc'[u] = pc[u]
        BY <2>3 DEF PipelineInv, TypeOK, Goto, WriteFails
      <3>2. \A d \in Counter : metrics'[p][d] = metrics[p][d]
        BY <1>0, <2>3
      <3> QED
        BY <2>1, <3>1, <3>2 DEF PipelineInv, ServiceInv, ServiceOk
    <2> QED
      BY <2>2, <2>3
  <1>3. FlowInv'
    BY PipelineAssumption DEF PipelineInv, TypeOK, FlowInv, Up, At, Ev, Goto, logs, Handling,
       WriteFails
  <1>4. EventInv'
    BY <1>1, PipelineAssumption, <1>0 DEF PipelineInv, TypeOK, FlowInv, Up, At, Ev, Goto, logs,
       Label, Handling, EventInv, Event, Counter,
       WriteFails
  <1>5. NothingLost'
    BY <1>1, PipelineAssumption, <1>0 DEF PipelineInv, TypeOK, FlowInv, Up, At, Ev, Goto, logs,
       Label, Handling, NothingLost, Counter,
       WriteFails
  <1>6. CountInv'
    <2> DEFINE l == "idle"
    <2>1. l \in Label /\ Goto(t, l)
      BY DEF Label, PipelineInv, TypeOK, Goto, WriteFails
    <2>2. ASSUME NEW p \in Proc
          PROVE  /\ Handled(p)' = Handled(p) + Delta(p, t, l, Handling)
                 /\ Counting(p)' = Counting(p) + Delta(p, t, l, {"persisted"})
                 /\ Sealing(p)' = Sealing(p) + Delta(p, t, l, {"commit", "signed", "persisted"})
                 /\ Falling(p)' = Falling(p) + Delta(p, t, l, {"raw", "write"})
      <3> HIDE DEF l
      <3> QED
        BY <2>1, Counts DEF PipelineInv
    <2>3. ASSUME NEW p \in Proc PROVE Sealed(p)' = Sealed(p) /\ Plain(p)' = Plain(p)
      BY DEF Sealed, Plain, Mine, logs, WriteFails
    <2>4. ASSUME NEW p \in Proc
          PROVE  /\ Handled(p) \in Nat /\ Counting(p) \in Nat /\ Sealing(p) \in Nat
                 /\ Falling(p) \in Nat /\ Sealed(p) \in Nat /\ Plain(p) \in Nat
      BY CountTypes
    <2>5. mode' = mode /\ signer' = signer
      BY DEF WriteFails
    <2>6. ASSUME NEW p \in Proc, p # Home[t] PROVE CountsRight(p)'
      <3>1. /\ Handled(p)' = Handled(p) /\ Counting(p)' = Counting(p)
            /\ Sealing(p)' = Sealing(p) /\ Falling(p)' = Falling(p)
        BY <2>2, <2>4, <2>6 DEF Delta
      <3>2. \A d \in Counter : metrics'[p][d] = metrics[p][d]
        BY <1>0, <2>6
      <3>3. Sealed(p)' = Sealed(p) /\ Plain(p)' = Plain(p)
        BY <2>3, <2>6
      <3>4. \A d \in Counter : metrics[p][d] \in Nat
        BY DEF PipelineInv, TypeOK
      <3>5. CountsRight(p)
        BY DEF PipelineInv, CountInv
      <3> QED
        BY <2>4, <2>5, <3>1, <3>2, <3>3, <3>4, <3>5 DEF CountsRight, Failures, Up, Counter
    <2>7. ASSUME NEW p \in Proc, p = Home[t] PROVE CountsRight(p)'
      <3>1. /\ Handled(p)' = Handled(p)
            /\ Counting(p)' = Counting(p)
            /\ Sealing(p)' = Sealing(p)
            /\ Falling(p)' = Falling(p) - 1
        BY <2>2, <2>4, <2>7 DEF Delta, Handling, At, WriteFails
      <3>2. \A d \in Counter : metrics[p][d] \in Nat
        BY DEF PipelineInv, TypeOK
      <3>3. CountsRight(p)
        BY DEF PipelineInv, CountInv
      <3>4. mode[p] \in {"sign", "dual"} => signer[p]
        BY DEF PipelineInv, ServiceInv, ServiceOk
      <3> QED
        BY <1>0, <2>3, <2>4, <2>5, <2>7, <3>1, <3>2, <3>3, <3>4 DEF CountsRight, Failures, Up,
           Counter, WriteFails
    <2> QED
      BY <2>6, <2>7 DEF CountInv
  <1> QED
    BY <1>1, <1>2, <1>3, <1>4, <1>5, <1>6 DEF PipelineInv

----------------------------------------------------------------------------
(* The other steps *)

\* A service that has not been started counts nothing.
LEMMA DownCounts ==
    ASSUME PipelineInv, NEW p \in Proc, mode[p] = "down"
    PROVE  /\ Handled(p) = 0 /\ Counting(p) = 0 /\ Sealing(p) = 0
           /\ Falling(p) = 0 /\ Sealed(p) = 0 /\ Plain(p) = 0
  <1>1. \A t \in Thread : Home[t] = p => pc[t] = "idle" /\ count[t] = 0
    BY DEF PipelineInv, ServiceInv, ServiceOk
  <1>2. /\ In(p, Handling) = {} /\ In(p, {"persisted"}) = {}
        /\ In(p, {"commit", "signed", "persisted"}) = {} /\ In(p, {"raw", "write"}) = {}
    BY <1>1 DEF In, Handling
  <1>3. ASSUME NEW e \in (chain \cup plain) \cap Event, Home[e[1]] = p PROVE FALSE
    <2>1. e[1] \in Thread /\ e[2] \in 1..MaxEvents
      BY <1>3 DEF Event
    <2>2. e[2] <= count[e[1]] /\ count[e[1]] = 0
      BY <1>1, <1>3, <2>1 DEF PipelineInv, EventInv
    <2> QED
      BY <2>1, <2>2
  <1>4. Mine(p, chain) = {} /\ Mine(p, plain) = {}
    BY <1>3 DEF Mine
  <1> QED
    BY <1>2, <1>4, FS_EmptySet DEF Handled, Counting, Sealing, Falling, Sealed, Plain

\* A service without a signer starts.
LEMMA StartPlainKeeps ==
    ASSUME PipelineInv, NEW q \in Proc, NEW m \in Modes[q], StartPlain(q, m)
    PROVE  PipelineInv'
  <1>0. /\ metrics' \in [Proc -> [Counter -> Nat]]
        /\ \A p \in Proc : \A d \in Counter :
              p # q \/ d # "state_recoveries" => metrics'[p][d] = metrics[p][d]
    BY DEF StartPlain, PipelineInv, TypeOK
  <1>1. TypeOK'
    <2>1. mode' \in [Proc -> Mode \cup {"down", "killed"}] /\ signer' \in [Proc -> BOOLEAN]
      BY PipelineAssumption, <1>0 DEF PipelineInv, TypeOK, FlowInv, Up, At, Ev, Goto, logs,
         Label, Handling, Event, Counter, Mode, ServiceInv,
         StartPlain
    <2>2. metrics' \in [Proc -> [Counter -> Nat]]
      BY PipelineAssumption, <1>0 DEF PipelineInv, TypeOK, FlowInv, Up, At, Ev, Goto, logs,
         Label, Handling, Event, Counter, Mode, ServiceInv,
         StartPlain
    <2>3. rawLock' \in [Proc -> Thread \cup {Free}] /\ lock' \in Thread \cup {Batch, Free}
      BY PipelineAssumption, <1>0 DEF PipelineInv, TypeOK, FlowInv, Up, At, Ev, Goto, logs,
         Label, Handling, Event, Counter, Mode, ServiceInv,
         StartPlain
    <2>4. pending' \in BOOLEAN
      BY PipelineAssumption, <1>0 DEF PipelineInv, TypeOK, FlowInv, Up, At, Ev, Goto, logs,
         Label, Handling, Event, Counter, Mode, ServiceInv,
         StartPlain
    <2>5. pc' \in [Thread -> Label]
      BY PipelineAssumption, <1>0 DEF PipelineInv, TypeOK, FlowInv, Up, At, Ev, Goto, logs,
         Label, Handling, Event, Counter, Mode, ServiceInv,
         StartPlain
    <2>6. count' \in [Thread -> 0..MaxEvents]
      BY PipelineAssumption, <1>0 DEF PipelineInv, TypeOK, FlowInv, Up, At, Ev, Goto, logs,
         Label, Handling, Event, Counter, Mode, ServiceInv,
         StartPlain
    <2>7. chain' \subseteq Event \cup ({Batch} \X (1..MaxLines))
      BY PipelineAssumption, <1>0 DEF PipelineInv, TypeOK, FlowInv, Up, At, Ev, Goto, logs,
         Label, Handling, Event, Counter, Mode, ServiceInv,
         StartPlain
    <2>8. plain' \subseteq Event /\ lost' \subseteq Event /\ returned' \subseteq Event
      BY PipelineAssumption, <1>0 DEF PipelineInv, TypeOK, FlowInv, Up, At, Ev, Goto, logs,
         Label, Handling, Event, Counter, Mode, ServiceInv,
         StartPlain
    <2>9. line' \in 1..(MaxLines + 1)
      BY PipelineAssumption, <1>0 DEF PipelineInv, TypeOK, FlowInv, Up, At, Ev, Goto, logs,
         Label, Handling, Event, Counter, Mode, ServiceInv,
         StartPlain
    <2>10. \A u \in Thread : (lock' = u) <=> pc'[u] \in {"sign", "commit"}
      BY PipelineAssumption, <1>0 DEF PipelineInv, TypeOK, FlowInv, Up, At, Ev, Goto, logs,
         Label, Handling, Event, Counter, Mode, ServiceInv,
         StartPlain
    <2>11. \A u \in Thread : (rawLock'[Home[u]] = u) <=> pc'[u] = "write"
      BY PipelineAssumption, <1>0 DEF PipelineInv, TypeOK, FlowInv, Up, At, Ev, Goto, logs,
         Label, Handling, Event, Counter, Mode, ServiceInv,
         StartPlain
    <2> QED
      BY <2>1, <2>2, <2>3, <2>4, <2>5, <2>6, <2>7, <2>8, <2>9, <2>10, <2>11 DEF TypeOK
  <1>2. ServiceInv'
    BY <1>0 DEF PipelineInv, TypeOK, ServiceInv, ServiceOk, StartPlain
  <1>3. FlowInv'
    <2>1. mode[q] = "down" /\ \A t \in Thread : Home[t] = q => pc[t] = "idle"
      BY DEF PipelineInv, ServiceInv, ServiceOk, StartPlain
    <2>2. \A p \in Proc : p # q => mode'[p] = mode[p] /\ signer'[p] = signer[p]
      BY DEF PipelineInv, TypeOK, StartPlain
    <2>3. pc' = pc /\ count' = count /\ chain' = chain
      BY DEF logs, StartPlain
    <2> QED
      BY <2>1, <2>2, <2>3, PipelineAssumption DEF PipelineInv, FlowInv, Up, Ev, Handling
  <1>4. EventInv' /\ NothingLost'
    BY DEF PipelineInv, EventInv, NothingLost, logs, StartPlain
  <1>5. CountInv'
    <2>1. ASSUME NEW p \in Proc
          PROVE  /\ Handled(p)' = Handled(p) /\ Counting(p)' = Counting(p) /\ Sealing(p)' = Sealing(p)
                 /\ Falling(p)' = Falling(p) /\ Sealed(p)' = Sealed(p) /\ Plain(p)' = Plain(p)
      BY DEF Handled, Counting, Sealing, Falling, Sealed, Plain, In, Mine, logs, StartPlain
    <2>2. ASSUME NEW p \in Proc, p # q PROVE CountsRight(p)'
      <3>1. mode'[p] = mode[p] /\ signer'[p] = signer[p]
        BY <2>2 DEF PipelineInv, TypeOK, StartPlain
      <3>2. \A d \in Counter : metrics'[p][d] = metrics[p][d]
        BY <1>0, <2>2
      <3>3. CountsRight(p)
        BY DEF PipelineInv, CountInv
      <3> QED
        BY <2>1, <3>1, <3>2, <3>3 DEF CountsRight, Failures, Up, Counter
    <2>3. CountsRight(q)'
      <3>1. mode[q] = "down"
        BY DEF StartPlain
      <3>2. /\ Handled(q) = 0 /\ Counting(q) = 0 /\ Sealing(q) = 0
            /\ Falling(q) = 0 /\ Sealed(q) = 0 /\ Plain(q) = 0
        BY <3>1, DownCounts
      <3>3. \A d \in Counter : d # "state_recoveries" => metrics'[q][d] = 0
        BY <1>0, <3>1 DEF PipelineInv, ServiceInv, ServiceOk
      <3> QED
        BY <2>1, <3>2, <3>3 DEF CountsRight, Failures, Counter
    <2> QED
      BY <2>2, <2>3 DEF CountInv
  <1> QED
    BY <1>1, <1>2, <1>3, <1>4, <1>5 DEF PipelineInv

\* A service with a signer starts.
LEMMA StartSigningKeeps ==
    ASSUME PipelineInv, NEW q \in Proc, NEW m \in Modes[q], StartSigning(q, m)
    PROVE  PipelineInv'
  <1>0. /\ metrics' \in [Proc -> [Counter -> Nat]]
        /\ \A p \in Proc : \A d \in Counter :
              p # q \/ d # "state_recoveries" => metrics'[p][d] = metrics[p][d]
    <2>1. CASE pending
      <3>1. Increment(q, "state_recoveries") /\ "state_recoveries" \in Counter
        BY <2>1 DEF StartSigning, Counter
      <3> QED
        BY <3>1, Increments DEF PipelineInv
    <2>2. CASE ~pending
      BY <2>2 DEF StartSigning, PipelineInv, TypeOK
    <2> QED
      BY <2>1, <2>2
  <1>1. TypeOK'
    <2>1. mode' \in [Proc -> Mode \cup {"down", "killed"}] /\ signer' \in [Proc -> BOOLEAN]
      BY PipelineAssumption, <1>0 DEF PipelineInv, TypeOK, FlowInv, Up, At, Ev, Goto, logs,
         Label, Handling, Event, Counter, Mode, ServiceInv,
         StartSigning
    <2>2. metrics' \in [Proc -> [Counter -> Nat]]
      BY PipelineAssumption, <1>0 DEF PipelineInv, TypeOK, FlowInv, Up, At, Ev, Goto, logs,
         Label, Handling, Event, Counter, Mode, ServiceInv,
         StartSigning
    <2>3. rawLock' \in [Proc -> Thread \cup {Free}] /\ lock' \in Thread \cup {Batch, Free}
      BY PipelineAssumption, <1>0 DEF PipelineInv, TypeOK, FlowInv, Up, At, Ev, Goto, logs,
         Label, Handling, Event, Counter, Mode, ServiceInv,
         StartSigning
    <2>4. pending' \in BOOLEAN
      BY PipelineAssumption, <1>0 DEF PipelineInv, TypeOK, FlowInv, Up, At, Ev, Goto, logs,
         Label, Handling, Event, Counter, Mode, ServiceInv,
         StartSigning
    <2>5. pc' \in [Thread -> Label]
      BY PipelineAssumption, <1>0 DEF PipelineInv, TypeOK, FlowInv, Up, At, Ev, Goto, logs,
         Label, Handling, Event, Counter, Mode, ServiceInv,
         StartSigning
    <2>6. count' \in [Thread -> 0..MaxEvents]
      BY PipelineAssumption, <1>0 DEF PipelineInv, TypeOK, FlowInv, Up, At, Ev, Goto, logs,
         Label, Handling, Event, Counter, Mode, ServiceInv,
         StartSigning
    <2>7. chain' \subseteq Event \cup ({Batch} \X (1..MaxLines))
      BY PipelineAssumption, <1>0 DEF PipelineInv, TypeOK, FlowInv, Up, At, Ev, Goto, logs,
         Label, Handling, Event, Counter, Mode, ServiceInv,
         StartSigning
    <2>8. plain' \subseteq Event /\ lost' \subseteq Event /\ returned' \subseteq Event
      BY PipelineAssumption, <1>0 DEF PipelineInv, TypeOK, FlowInv, Up, At, Ev, Goto, logs,
         Label, Handling, Event, Counter, Mode, ServiceInv,
         StartSigning
    <2>9. line' \in 1..(MaxLines + 1)
      BY PipelineAssumption, <1>0 DEF PipelineInv, TypeOK, FlowInv, Up, At, Ev, Goto, logs,
         Label, Handling, Event, Counter, Mode, ServiceInv,
         StartSigning
    <2>10. \A u \in Thread : (lock' = u) <=> pc'[u] \in {"sign", "commit"}
      BY PipelineAssumption, <1>0 DEF PipelineInv, TypeOK, FlowInv, Up, At, Ev, Goto, logs,
         Label, Handling, Event, Counter, Mode, ServiceInv,
         StartSigning
    <2>11. \A u \in Thread : (rawLock'[Home[u]] = u) <=> pc'[u] = "write"
      BY PipelineAssumption, <1>0 DEF PipelineInv, TypeOK, FlowInv, Up, At, Ev, Goto, logs,
         Label, Handling, Event, Counter, Mode, ServiceInv,
         StartSigning
    <2> QED
      BY <2>1, <2>2, <2>3, <2>4, <2>5, <2>6, <2>7, <2>8, <2>9, <2>10, <2>11 DEF TypeOK
  <1>2. ServiceInv'
    BY <1>0 DEF PipelineInv, TypeOK, ServiceInv, ServiceOk, StartSigning
  <1>3. FlowInv'
    <2>1. mode[q] = "down" /\ \A t \in Thread : Home[t] = q => pc[t] = "idle"
      BY DEF PipelineInv, ServiceInv, ServiceOk, StartSigning
    <2>2. \A p \in Proc : p # q => mode'[p] = mode[p] /\ signer'[p] = signer[p]
      BY DEF PipelineInv, TypeOK, StartSigning
    <2>3. pc' = pc /\ count' = count /\ chain' = chain
      BY DEF logs, StartSigning
    <2> QED
      BY <2>1, <2>2, <2>3, PipelineAssumption DEF PipelineInv, FlowInv, Up, Ev, Handling
  <1>4. EventInv' /\ NothingLost'
    BY DEF PipelineInv, EventInv, NothingLost, logs, StartSigning
  <1>5. CountInv'
    <2>1. ASSUME NEW p \in Proc
          PROVE  /\ Handled(p)' = Handled(p) /\ Counting(p)' = Counting(p) /\ Sealing(p)' = Sealing(p)
                 /\ Falling(p)' = Falling(p) /\ Sealed(p)' = Sealed(p) /\ Plain(p)' = Plain(p)
      BY DEF Handled, Counting, Sealing, Falling, Sealed, Plain, In, Mine, logs, StartSigning
    <2>2. ASSUME NEW p \in Proc, p # q PROVE CountsRight(p)'
      <3>1. mode'[p] = mode[p] /\ signer'[p] = signer[p]
        BY <2>2 DEF PipelineInv, TypeOK, StartSigning
      <3>2. \A d \in Counter : metrics'[p][d] = metrics[p][d]
        BY <1>0, <2>2
      <3>3. CountsRight(p)
        BY DEF PipelineInv, CountInv
      <3> QED
        BY <2>1, <3>1, <3>2, <3>3 DEF CountsRight, Failures, Up, Counter
    <2>3. CountsRight(q)'
      <3>1. mode[q] = "down"
        BY DEF StartSigning
      <3>2. /\ Handled(q) = 0 /\ Counting(q) = 0 /\ Sealing(q) = 0
            /\ Falling(q) = 0 /\ Sealed(q) = 0 /\ Plain(q) = 0
        BY <3>1, DownCounts
      <3>3. \A d \in Counter : d # "state_recoveries" => metrics'[q][d] = 0
        BY <1>0, <3>1 DEF PipelineInv, ServiceInv, ServiceOk
      <3> QED
        BY <2>1, <3>2, <3>3 DEF CountsRight, Failures, Counter
    <2> QED
      BY <2>2, <2>3 DEF CountInv
  <1> QED
    BY <1>1, <1>2, <1>3, <1>4, <1>5 DEF PipelineInv

\* A service is killed.
LEMMA CrashKeeps ==
    ASSUME PipelineInv, NEW q \in Proc, Crash(q)
    PROVE  PipelineInv'
  <1>1. TypeOK'
    <2>1. mode' \in [Proc -> Mode \cup {"down", "killed"}] /\ signer' \in [Proc -> BOOLEAN]
      BY PipelineAssumption DEF PipelineInv, TypeOK, FlowInv, Up, At, Ev, Goto, logs, Label,
         Handling, Event, Counter, Mode, ServiceInv,
         Crash
    <2>2. metrics' \in [Proc -> [Counter -> Nat]]
      BY PipelineAssumption DEF PipelineInv, TypeOK, FlowInv, Up, At, Ev, Goto, logs, Label,
         Handling, Event, Counter, Mode, ServiceInv,
         Crash
    <2>3. rawLock' \in [Proc -> Thread \cup {Free}] /\ lock' \in Thread \cup {Batch, Free}
      BY PipelineAssumption DEF PipelineInv, TypeOK, FlowInv, Up, At, Ev, Goto, logs, Label,
         Handling, Event, Counter, Mode, ServiceInv,
         Crash
    <2>4. pending' \in BOOLEAN
      BY PipelineAssumption DEF PipelineInv, TypeOK, FlowInv, Up, At, Ev, Goto, logs, Label,
         Handling, Event, Counter, Mode, ServiceInv,
         Crash
    <2>5. pc' \in [Thread -> Label]
      BY PipelineAssumption DEF PipelineInv, TypeOK, FlowInv, Up, At, Ev, Goto, logs, Label,
         Handling, Event, Counter, Mode, ServiceInv,
         Crash
    <2>6. count' \in [Thread -> 0..MaxEvents]
      BY PipelineAssumption DEF PipelineInv, TypeOK, FlowInv, Up, At, Ev, Goto, logs, Label,
         Handling, Event, Counter, Mode, ServiceInv,
         Crash
    <2>7. chain' \subseteq Event \cup ({Batch} \X (1..MaxLines))
      BY PipelineAssumption DEF PipelineInv, TypeOK, FlowInv, Up, At, Ev, Goto, logs, Label,
         Handling, Event, Counter, Mode, ServiceInv,
         Crash
    <2>8. plain' \subseteq Event /\ lost' \subseteq Event /\ returned' \subseteq Event
      BY PipelineAssumption DEF PipelineInv, TypeOK, FlowInv, Up, At, Ev, Goto, logs, Label,
         Handling, Event, Counter, Mode, ServiceInv,
         Crash
    <2>9. line' \in 1..(MaxLines + 1)
      BY PipelineAssumption DEF PipelineInv, TypeOK, FlowInv, Up, At, Ev, Goto, logs, Label,
         Handling, Event, Counter, Mode, ServiceInv,
         Crash
    <2>10. \A u \in Thread : (lock' = u) <=> pc'[u] \in {"sign", "commit"}
      BY PipelineAssumption DEF PipelineInv, TypeOK, FlowInv, Up, At, Ev, Goto, logs, Label,
         Handling, Event, Counter, Mode, ServiceInv,
         Crash
    <2>11. \A u \in Thread : (rawLock'[Home[u]] = u) <=> pc'[u] = "write"
      BY PipelineAssumption DEF PipelineInv, TypeOK, FlowInv, Up, At, Ev, Goto, logs, Label,
         Handling, Event, Counter, Mode, ServiceInv,
         Crash
    <2> QED
      BY <2>1, <2>2, <2>3, <2>4, <2>5, <2>6, <2>7, <2>8, <2>9, <2>10, <2>11 DEF TypeOK
  <1>2. ServiceInv'
    BY DEF PipelineInv, TypeOK, ServiceInv, ServiceOk, Crash
  <1>3. FlowInv'
    BY PipelineAssumption DEF PipelineInv, TypeOK, FlowInv, Up, Ev, Handling, logs, Crash
  <1>4. EventInv' /\ NothingLost'
    BY DEF PipelineInv, EventInv, NothingLost, logs, Crash
  <1>5. CountInv'
    <2>1. ASSUME NEW p \in Proc, p # q PROVE CountsRight(p)'
      <3>1. \A t \in Thread : Home[t] = p => pc'[t] = pc[t]
        BY <2>1 DEF PipelineInv, TypeOK, Crash
      <3>2. /\ In(p, Handling)' = In(p, Handling) /\ In(p, {"persisted"})' = In(p, {"persisted"})
            /\ In(p, {"commit", "signed", "persisted"})' = In(p, {"commit", "signed", "persisted"})
            /\ In(p, {"raw", "write"})' = In(p, {"raw", "write"})
        BY <3>1 DEF In, Handling
      <3>3. Mine(p, chain)' = Mine(p, chain) /\ Mine(p, plain)' = Mine(p, plain)
        BY DEF Mine, logs, Crash
      <3>4. /\ Handled(p)' = Handled(p) /\ Counting(p)' = Counting(p) /\ Sealing(p)' = Sealing(p)
            /\ Falling(p)' = Falling(p) /\ Sealed(p)' = Sealed(p) /\ Plain(p)' = Plain(p)
        BY <3>2, <3>3 DEF Handled, Counting, Sealing, Falling, Sealed, Plain
      <3>5. mode'[p] = mode[p] /\ signer' = signer /\ metrics' = metrics
        BY <2>1 DEF PipelineInv, TypeOK, Crash
      <3>6. CountsRight(p)
        BY DEF PipelineInv, CountInv
      <3> QED
        BY <3>4, <3>5, <3>6 DEF CountsRight, Failures, Up
    <2>2. CountsRight(q)'
      BY DEF CountsRight, Up, PipelineInv, TypeOK, Crash
    <2> QED
      BY <2>1, <2>2 DEF CountInv
  <1> QED
    BY <1>1, <1>2, <1>3, <1>4, <1>5 DEF PipelineInv

\* The batch takes the lock and gives it back.
LEMMA BatchKeeps ==
    ASSUME PipelineInv, BatchOpen \/ BatchEnds
    PROVE  PipelineInv'
  <1>1. TypeOK'
    <2>1. mode' \in [Proc -> Mode \cup {"down", "killed"}] /\ signer' \in [Proc -> BOOLEAN]
      BY PipelineAssumption DEF PipelineInv, TypeOK, FlowInv, Up, At, Ev, Goto, logs, Label,
         Handling, Event, Counter, Mode, ServiceInv,
         BatchOpen, BatchEnds
    <2>2. metrics' \in [Proc -> [Counter -> Nat]]
      BY PipelineAssumption DEF PipelineInv, TypeOK, FlowInv, Up, At, Ev, Goto, logs, Label,
         Handling, Event, Counter, Mode, ServiceInv,
         BatchOpen, BatchEnds
    <2>3. rawLock' \in [Proc -> Thread \cup {Free}] /\ lock' \in Thread \cup {Batch, Free}
      BY PipelineAssumption DEF PipelineInv, TypeOK, FlowInv, Up, At, Ev, Goto, logs, Label,
         Handling, Event, Counter, Mode, ServiceInv,
         BatchOpen, BatchEnds
    <2>4. pending' \in BOOLEAN
      BY PipelineAssumption DEF PipelineInv, TypeOK, FlowInv, Up, At, Ev, Goto, logs, Label,
         Handling, Event, Counter, Mode, ServiceInv,
         BatchOpen, BatchEnds
    <2>5. pc' \in [Thread -> Label]
      BY PipelineAssumption DEF PipelineInv, TypeOK, FlowInv, Up, At, Ev, Goto, logs, Label,
         Handling, Event, Counter, Mode, ServiceInv,
         BatchOpen, BatchEnds
    <2>6. count' \in [Thread -> 0..MaxEvents]
      BY PipelineAssumption DEF PipelineInv, TypeOK, FlowInv, Up, At, Ev, Goto, logs, Label,
         Handling, Event, Counter, Mode, ServiceInv,
         BatchOpen, BatchEnds
    <2>7. chain' \subseteq Event \cup ({Batch} \X (1..MaxLines))
      BY PipelineAssumption DEF PipelineInv, TypeOK, FlowInv, Up, At, Ev, Goto, logs, Label,
         Handling, Event, Counter, Mode, ServiceInv,
         BatchOpen, BatchEnds
    <2>8. plain' \subseteq Event /\ lost' \subseteq Event /\ returned' \subseteq Event
      BY PipelineAssumption DEF PipelineInv, TypeOK, FlowInv, Up, At, Ev, Goto, logs, Label,
         Handling, Event, Counter, Mode, ServiceInv,
         BatchOpen, BatchEnds
    <2>9. line' \in 1..(MaxLines + 1)
      BY PipelineAssumption DEF PipelineInv, TypeOK, FlowInv, Up, At, Ev, Goto, logs, Label,
         Handling, Event, Counter, Mode, ServiceInv,
         BatchOpen, BatchEnds
    <2>10. \A u \in Thread : (lock' = u) <=> pc'[u] \in {"sign", "commit"}
      BY PipelineAssumption DEF PipelineInv, TypeOK, FlowInv, Up, At, Ev, Goto, logs, Label,
         Handling, Event, Counter, Mode, ServiceInv,
         BatchOpen, BatchEnds
    <2>11. \A u \in Thread : (rawLock'[Home[u]] = u) <=> pc'[u] = "write"
      BY PipelineAssumption DEF PipelineInv, TypeOK, FlowInv, Up, At, Ev, Goto, logs, Label,
         Handling, Event, Counter, Mode, ServiceInv,
         BatchOpen, BatchEnds
    <2> QED
      BY <2>1, <2>2, <2>3, <2>4, <2>5, <2>6, <2>7, <2>8, <2>9, <2>10, <2>11 DEF TypeOK
  <1>2. ServiceInv'
    BY DEF PipelineInv, ServiceInv, ServiceOk, BatchOpen, BatchEnds
  <1>3. chain' \cap Event = chain \cap Event /\ chain \subseteq chain'
    BY PipelineAssumption DEF Event, logs, BatchOpen, BatchEnds
  <1>4. FlowInv'
    <2>1. \A t \in Thread : pc[t] \notin {"idle", "dead"} => Ev(t) \in Event
      BY DEF PipelineInv, TypeOK, FlowInv, Ev, Event
    <2> QED
      BY <1>3, <2>1 DEF PipelineInv, FlowInv, Up, Ev, Handling, BatchOpen, BatchEnds
  <1>5. EventInv' /\ NothingLost'
    BY <1>3 DEF PipelineInv, EventInv, NothingLost, logs, BatchOpen, BatchEnds
  <1>6. CountInv'
    <2>1. ASSUME NEW p \in Proc
          PROVE  /\ Handled(p)' = Handled(p) /\ Counting(p)' = Counting(p) /\ Sealing(p)' = Sealing(p)
                 /\ Falling(p)' = Falling(p) /\ Sealed(p)' = Sealed(p) /\ Plain(p)' = Plain(p)
      <3>1. Mine(p, chain)' = Mine(p, chain)
        BY <1>3 DEF Mine
      <3> QED
        BY <3>1 DEF Handled, Counting, Sealing, Falling, Sealed, Plain, In, Mine, logs,
           BatchOpen, BatchEnds
    <2>2. ASSUME NEW p \in Proc PROVE CountsRight(p)'
      <3>1. mode' = mode /\ signer' = signer /\ metrics' = metrics
        BY DEF BatchOpen, BatchEnds
      <3>2. CountsRight(p)
        BY DEF PipelineInv, CountInv
      <3> QED
        BY <2>1, <3>1, <3>2 DEF CountsRight, Failures, Up
    <2> QED
      BY <2>2 DEF CountInv
  <1> QED
    BY <1>1, <1>2, <1>4, <1>5, <1>6 DEF PipelineInv

\* A line of the batch.
LEMMA BatchLineKeeps ==
    ASSUME PipelineInv, NEW sealed \in BOOLEAN, BatchLine(sealed)
    PROVE  PipelineInv'
  <1>1. TypeOK'
    <2>1. mode' \in [Proc -> Mode \cup {"down", "killed"}] /\ signer' \in [Proc -> BOOLEAN]
      BY PipelineAssumption DEF PipelineInv, TypeOK, FlowInv, Up, At, Ev, Goto, logs, Label,
         Handling, Event, Counter, Mode, ServiceInv,
         BatchLine
    <2>2. metrics' \in [Proc -> [Counter -> Nat]]
      BY PipelineAssumption DEF PipelineInv, TypeOK, FlowInv, Up, At, Ev, Goto, logs, Label,
         Handling, Event, Counter, Mode, ServiceInv,
         BatchLine
    <2>3. rawLock' \in [Proc -> Thread \cup {Free}] /\ lock' \in Thread \cup {Batch, Free}
      BY PipelineAssumption DEF PipelineInv, TypeOK, FlowInv, Up, At, Ev, Goto, logs, Label,
         Handling, Event, Counter, Mode, ServiceInv,
         BatchLine
    <2>4. pending' \in BOOLEAN
      BY PipelineAssumption DEF PipelineInv, TypeOK, FlowInv, Up, At, Ev, Goto, logs, Label,
         Handling, Event, Counter, Mode, ServiceInv,
         BatchLine
    <2>5. pc' \in [Thread -> Label]
      BY PipelineAssumption DEF PipelineInv, TypeOK, FlowInv, Up, At, Ev, Goto, logs, Label,
         Handling, Event, Counter, Mode, ServiceInv,
         BatchLine
    <2>6. count' \in [Thread -> 0..MaxEvents]
      BY PipelineAssumption DEF PipelineInv, TypeOK, FlowInv, Up, At, Ev, Goto, logs, Label,
         Handling, Event, Counter, Mode, ServiceInv,
         BatchLine
    <2>7. chain' \subseteq Event \cup ({Batch} \X (1..MaxLines))
      BY PipelineAssumption DEF PipelineInv, TypeOK, FlowInv, Up, At, Ev, Goto, logs, Label,
         Handling, Event, Counter, Mode, ServiceInv,
         BatchLine
    <2>8. plain' \subseteq Event /\ lost' \subseteq Event /\ returned' \subseteq Event
      BY PipelineAssumption DEF PipelineInv, TypeOK, FlowInv, Up, At, Ev, Goto, logs, Label,
         Handling, Event, Counter, Mode, ServiceInv,
         BatchLine
    <2>9. line' \in 1..(MaxLines + 1)
      BY PipelineAssumption DEF PipelineInv, TypeOK, FlowInv, Up, At, Ev, Goto, logs, Label,
         Handling, Event, Counter, Mode, ServiceInv,
         BatchLine
    <2>10. \A u \in Thread : (lock' = u) <=> pc'[u] \in {"sign", "commit"}
      BY PipelineAssumption DEF PipelineInv, TypeOK, FlowInv, Up, At, Ev, Goto, logs, Label,
         Handling, Event, Counter, Mode, ServiceInv,
         BatchLine
    <2>11. \A u \in Thread : (rawLock'[Home[u]] = u) <=> pc'[u] = "write"
      BY PipelineAssumption DEF PipelineInv, TypeOK, FlowInv, Up, At, Ev, Goto, logs, Label,
         Handling, Event, Counter, Mode, ServiceInv,
         BatchLine
    <2> QED
      BY <2>1, <2>2, <2>3, <2>4, <2>5, <2>6, <2>7, <2>8, <2>9, <2>10, <2>11 DEF TypeOK
  <1>2. ServiceInv'
    BY DEF PipelineInv, ServiceInv, ServiceOk, BatchLine
  <1>3. chain' \cap Event = chain \cap Event /\ chain \subseteq chain'
    BY PipelineAssumption DEF Event, logs, BatchLine
  <1>4. FlowInv'
    <2>1. \A t \in Thread : pc[t] \notin {"idle", "dead"} => Ev(t) \in Event
      BY DEF PipelineInv, TypeOK, FlowInv, Ev, Event
    <2> QED
      BY <1>3, <2>1 DEF PipelineInv, FlowInv, Up, Ev, Handling, BatchLine
  <1>5. EventInv' /\ NothingLost'
    BY <1>3 DEF PipelineInv, EventInv, NothingLost, logs, BatchLine
  <1>6. CountInv'
    <2>1. ASSUME NEW p \in Proc
          PROVE  /\ Handled(p)' = Handled(p) /\ Counting(p)' = Counting(p) /\ Sealing(p)' = Sealing(p)
                 /\ Falling(p)' = Falling(p) /\ Sealed(p)' = Sealed(p) /\ Plain(p)' = Plain(p)
      <3>1. Mine(p, chain)' = Mine(p, chain)
        BY <1>3 DEF Mine
      <3> QED
        BY <3>1 DEF Handled, Counting, Sealing, Falling, Sealed, Plain, In, Mine, logs,
           BatchLine
    <2>2. ASSUME NEW p \in Proc PROVE CountsRight(p)'
      <3>1. mode' = mode /\ signer' = signer /\ metrics' = metrics
        BY DEF BatchLine
      <3>2. CountsRight(p)
        BY DEF PipelineInv, CountInv
      <3> QED
        BY <2>1, <3>1, <3>2 DEF CountsRight, Failures, Up
    <2> QED
      BY <2>2 DEF CountInv
  <1> QED
    BY <1>1, <1>2, <1>4, <1>5, <1>6 DEF PipelineInv

\* The batch ends with a record that is not committed.
LEMMA BatchAbortsKeeps ==
    ASSUME PipelineInv, BatchAborts
    PROVE  PipelineInv'
  <1>1. TypeOK'
    <2>1. mode' \in [Proc -> Mode \cup {"down", "killed"}] /\ signer' \in [Proc -> BOOLEAN]
      BY PipelineAssumption DEF PipelineInv, TypeOK, FlowInv, Up, At, Ev, Goto, logs, Label,
         Handling, Event, Counter, Mode, ServiceInv,
         BatchAborts
    <2>2. metrics' \in [Proc -> [Counter -> Nat]]
      BY PipelineAssumption DEF PipelineInv, TypeOK, FlowInv, Up, At, Ev, Goto, logs, Label,
         Handling, Event, Counter, Mode, ServiceInv,
         BatchAborts
    <2>3. rawLock' \in [Proc -> Thread \cup {Free}] /\ lock' \in Thread \cup {Batch, Free}
      BY PipelineAssumption DEF PipelineInv, TypeOK, FlowInv, Up, At, Ev, Goto, logs, Label,
         Handling, Event, Counter, Mode, ServiceInv,
         BatchAborts
    <2>4. pending' \in BOOLEAN
      BY PipelineAssumption DEF PipelineInv, TypeOK, FlowInv, Up, At, Ev, Goto, logs, Label,
         Handling, Event, Counter, Mode, ServiceInv,
         BatchAborts
    <2>5. pc' \in [Thread -> Label]
      BY PipelineAssumption DEF PipelineInv, TypeOK, FlowInv, Up, At, Ev, Goto, logs, Label,
         Handling, Event, Counter, Mode, ServiceInv,
         BatchAborts
    <2>6. count' \in [Thread -> 0..MaxEvents]
      BY PipelineAssumption DEF PipelineInv, TypeOK, FlowInv, Up, At, Ev, Goto, logs, Label,
         Handling, Event, Counter, Mode, ServiceInv,
         BatchAborts
    <2>7. chain' \subseteq Event \cup ({Batch} \X (1..MaxLines))
      BY PipelineAssumption DEF PipelineInv, TypeOK, FlowInv, Up, At, Ev, Goto, logs, Label,
         Handling, Event, Counter, Mode, ServiceInv,
         BatchAborts
    <2>8. plain' \subseteq Event /\ lost' \subseteq Event /\ returned' \subseteq Event
      BY PipelineAssumption DEF PipelineInv, TypeOK, FlowInv, Up, At, Ev, Goto, logs, Label,
         Handling, Event, Counter, Mode, ServiceInv,
         BatchAborts
    <2>9. line' \in 1..(MaxLines + 1)
      BY PipelineAssumption DEF PipelineInv, TypeOK, FlowInv, Up, At, Ev, Goto, logs, Label,
         Handling, Event, Counter, Mode, ServiceInv,
         BatchAborts
    <2>10. \A u \in Thread : (lock' = u) <=> pc'[u] \in {"sign", "commit"}
      BY PipelineAssumption DEF PipelineInv, TypeOK, FlowInv, Up, At, Ev, Goto, logs, Label,
         Handling, Event, Counter, Mode, ServiceInv,
         BatchAborts
    <2>11. \A u \in Thread : (rawLock'[Home[u]] = u) <=> pc'[u] = "write"
      BY PipelineAssumption DEF PipelineInv, TypeOK, FlowInv, Up, At, Ev, Goto, logs, Label,
         Handling, Event, Counter, Mode, ServiceInv,
         BatchAborts
    <2> QED
      BY <2>1, <2>2, <2>3, <2>4, <2>5, <2>6, <2>7, <2>8, <2>9, <2>10, <2>11 DEF TypeOK
  <1>2. ServiceInv'
    BY DEF PipelineInv, ServiceInv, ServiceOk, BatchAborts
  <1>3. chain' \cap Event = chain \cap Event /\ chain \subseteq chain'
    BY PipelineAssumption DEF Event, logs, BatchAborts
  <1>4. FlowInv'
    <2>1. \A t \in Thread : pc[t] \notin {"idle", "dead"} => Ev(t) \in Event
      BY DEF PipelineInv, TypeOK, FlowInv, Ev, Event
    <2> QED
      BY <1>3, <2>1 DEF PipelineInv, FlowInv, Up, Ev, Handling, BatchAborts
  <1>5. EventInv' /\ NothingLost'
    BY <1>3 DEF PipelineInv, EventInv, NothingLost, logs, BatchAborts
  <1>6. CountInv'
    <2>1. ASSUME NEW p \in Proc
          PROVE  /\ Handled(p)' = Handled(p) /\ Counting(p)' = Counting(p) /\ Sealing(p)' = Sealing(p)
                 /\ Falling(p)' = Falling(p) /\ Sealed(p)' = Sealed(p) /\ Plain(p)' = Plain(p)
      <3>1. Mine(p, chain)' = Mine(p, chain)
        BY <1>3 DEF Mine
      <3> QED
        BY <3>1 DEF Handled, Counting, Sealing, Falling, Sealed, Plain, In, Mine, logs,
           BatchAborts
    <2>2. ASSUME NEW p \in Proc PROVE CountsRight(p)'
      <3>1. mode' = mode /\ signer' = signer /\ metrics' = metrics
        BY DEF BatchAborts
      <3>2. CountsRight(p)
        BY DEF PipelineInv, CountInv
      <3> QED
        BY <2>1, <3>1, <3>2 DEF CountsRight, Failures, Up
    <2> QED
      BY <2>2 DEF CountInv
  <1> QED
    BY <1>1, <1>2, <1>4, <1>5, <1>6 DEF PipelineInv

----------------------------------------------------------------------------
\* The invariant holds initially.
LEMMA InitHolds == Init => PipelineInv
  <1> SUFFICES ASSUME Init PROVE PipelineInv
    OBVIOUS
  <1>1. TypeOK
    <2>1. mode \in [Proc -> Mode \cup {"down", "killed"}] /\ signer \in [Proc -> BOOLEAN]
      BY DEF Init
    <2>2. metrics \in [Proc -> [Counter -> Nat]]
      BY DEF Init
    <2>3. rawLock \in [Proc -> Thread \cup {Free}] /\ lock \in Thread \cup {Batch, Free} /\ pending \in BOOLEAN
      BY DEF Init
    <2>4. pc \in [Thread -> Label] /\ count \in [Thread -> 0..MaxEvents] /\ line \in 1..(MaxLines + 1)
      BY PipelineAssumption DEF Init, Label
    <2>5. /\ chain \subseteq Event \cup ({Batch} \X (1..MaxLines))
          /\ plain \subseteq Event /\ lost \subseteq Event /\ returned \subseteq Event
      BY DEF Init
    <2>6. /\ \A t \in Thread : (lock = t) <=> pc[t] \in {"sign", "commit"}
          /\ \A t \in Thread : (rawLock[Home[t]] = t) <=> pc[t] = "write"
      BY PipelineAssumption DEF Init
    <2> QED
      BY <2>1, <2>2, <2>3, <2>4, <2>5, <2>6 DEF TypeOK
  <1>2. ServiceInv /\ FlowInv /\ EventInv /\ NothingLost
    BY DEF Init, ServiceInv, ServiceOk, FlowInv, EventInv, NothingLost, Up, Handling
  <1>3. CountInv
    BY DEF Init, CountInv, CountsRight, Up
  <1> QED
    BY <1>1, <1>2, <1>3 DEF PipelineInv

\* Every step keeps the invariant.
LEMMA StepHolds == PipelineInv /\ [Next]_vars => PipelineInv'
  <1> SUFFICES ASSUME PipelineInv, [Next]_vars PROVE PipelineInv'
    OBVIOUS
  <1>1. CASE UNCHANGED vars
    <2>1. TypeOK' /\ ServiceInv' /\ FlowInv' /\ EventInv' /\ NothingLost'
      BY <1>1 DEF vars, logs, PipelineInv, TypeOK, ServiceInv, ServiceOk, FlowInv, EventInv,
         NothingLost, Up, Ev
    <2>2. CountInv'
      BY <1>1, ZenonT(60) DEF vars, logs, PipelineInv, CountInv, CountsRight, Failures, Up,
                  Handled, Counting, Sealing, Falling, Sealed, Plain, In, Mine
    <2> QED
      BY <2>1, <2>2 DEF PipelineInv
  <1>2. ASSUME NEW p \in Proc, NEW m \in Modes[p], StartPlain(p, m) \/ StartSigning(p, m) PROVE PipelineInv'
    BY <1>2, StartPlainKeeps, StartSigningKeeps
  <1>3. ASSUME NEW p \in Proc, Crash(p) PROVE PipelineInv'
    BY <1>3, CrashKeeps
  <1>4. ASSUME NEW t \in Thread, Emit(t) \/ WriteLine(t) PROVE PipelineInv'
    BY <1>4, EmitKeeps, TakeRawLockKeeps, WriteRawKeeps, WriteFailsKeeps DEF WriteLine
  <1>5. ASSUME NEW t \in Thread, Handle(t) PROVE PipelineInv'
    BY <1>5, BoundKeeps, BoundFailsKeeps, OpenKeeps, OpenFailsKeeps, BackendFailsKeeps,
       BackendCountedKeeps, TransactionFailsKeeps, AppendKeeps, CommitKeeps, CommitFailsKeeps,
       CountSignedKeeps, CountPersistedKeeps
    DEF Handle
  <1>6. CASE BatchOpen \/ BatchEnds \/ BatchAborts \/ \E sealed \in BOOLEAN : BatchLine(sealed)
    BY <1>6, BatchKeeps, BatchAbortsKeeps, BatchLineKeeps
  <1> QED
    BY <1>1, <1>2, <1>3, <1>4, <1>5, <1>6 DEF Next

\* The invariant holds in every reachable state.
LEMMA PipelineInvariant == Spec => []PipelineInv
  BY InitHolds, StepHolds, PTL DEF Spec

\* The pipeline keeps its types, and its locks are held where the code holds them
\* (emit, sign_event).
THEOREM TypeCorrect == Spec => []TypeOK
  <1>1. PipelineInv => TypeOK
    BY DEF PipelineInv
  <1> QED
    BY <1>1, PipelineInvariant, PTL

\* An event whose emit has returned is sealed, in the plain log, or was reported as
\* unwritable (emit, handle).
THEOREM NoEventLost == Spec => []NothingLost
  <1>1. PipelineInv => NothingLost
    BY DEF PipelineInv
  <1> QED
    BY <1>1, PipelineInvariant, PTL

\* Every event the sink received is accounted for by exactly one counter or is still
\* inside handle (EvidenceMetrics).
THEOREM CountersRight == Spec => []CountersAddUp
  <1>1. PipelineInv => CountersAddUp
    BY DEF PipelineInv, CountInv, CountsRight, Handled, Counting, CountersAddUp
  <1> QED
    BY <1>1, PipelineInvariant, PTL

\* In a service that signs every plain line stands for a counted failure (handle).
THEOREM PlainCounted == Spec => []PlainIsCounted
  <1>1. PipelineInv => PlainIsCounted
    <2> SUFFICES ASSUME PipelineInv PROVE PlainIsCounted
      OBVIOUS
    <2>1. ASSUME NEW p \in Proc
          PROVE  /\ CountsRight(p)
                 /\ Sealing(p) \in Nat /\ Falling(p) \in Nat /\ Sealed(p) \in Nat /\ Plain(p) \in Nat
                 /\ \A d \in Counter : metrics[p][d] \in Nat
      BY CountTypes DEF PipelineInv, CountInv, TypeOK
    <2> QED
      BY <2>1 DEF CountsRight, Failures, Counter, PlainIsCounted, Plain
  <1> QED
    BY <1>1, PipelineInvariant, PTL

\* The counter of persisted events never exceeds the records in the log, and what it
\* does not count of them is on its way or counted as a failure (handle).
THEOREM PersistedSealed == Spec => []PersistedIsSealed
  <1>1. PipelineInv => PersistedIsSealed
    <2> SUFFICES ASSUME PipelineInv PROVE PersistedIsSealed
      OBVIOUS
    <2>1. ASSUME NEW p \in Proc
          PROVE  /\ CountsRight(p)
                 /\ Sealing(p) \in Nat /\ Falling(p) \in Nat /\ Sealed(p) \in Nat /\ Plain(p) \in Nat
                 /\ \A d \in Counter : metrics[p][d] \in Nat
      BY CountTypes DEF PipelineInv, CountInv, TypeOK
    <2> QED
      BY <2>1 DEF CountsRight, Failures, Counter, PersistedIsSealed, Sealed, Sealing
  <1> QED
    BY <1>1, PipelineInvariant, PTL
=============================================================================
