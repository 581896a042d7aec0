-------------------------- MODULE CollectorProofs --------------------------
(***************************************************************************)
(* Proofs about Collector for any nodes, contents, records, tracking limit *)
(* and length of stream.                                                   *)
(***************************************************************************)
EXTENDS Collector, FiniteSetTheorems, TLAPS

----------------------------------------------------------------------------
(* The checks of one record *)

\* A record has no error of its own exactly when it is intact.
LEMMA VerifyEventIs ==
    ASSUME NEW e \in SignedEvent
    PROVE  VerifyEvent(e) = {} <=> Intact(e)
  BY DEF VerifyEvent, CheckEventHash, CheckKey, CheckSignature, Intact, ComputeEventHash,
         SignedEvent, KeyStatus

\* A record has no chain error exactly when it is the next of its node and
\* names the hash the cursor expects.
LEMMA CheckChainIs ==
    ASSUME NEW e \in SignedEvent, NEW p \in ChainPosition
    PROVE  CheckChain(p, e) = {} <=>
              /\ SeqOf[e.content] = p.seq + 1
              /\ IF p.seq = 0 THEN PrevOf[e.content] = Genesis[NodeOf[e.content]]
                 ELSE p.hash = NoHash \/ PrevOf[e.content] = p.hash
  <1> DEFINE seq == SeqOf[e.content]
             expected == IF seq = 1 THEN Genesis[NodeOf[e.content]] ELSE p.hash
  <1>1. /\ seq \in Nat /\ seq # 0 /\ p.seq \in Nat /\ e.content \in Content
        /\ NodeOf[e.content] \in Node
    BY ContentAssumption DEF SignedEvent, ChainPosition
  <1>2. Genesis[NodeOf[e.content]] # NoHash
    BY <1>1, ContentAssumption DEF Hash
  <1>3. CheckChain(p, e) = {} <=>
           /\ ~(seq < p.seq + 1 /\ seq <= p.seq)
           /\ ~(seq > p.seq + 1)
           /\ ~(seq = 1 /\ p.seq > 0)
           /\ ~(expected # NoHash /\ PrevOf[e.content] # expected)
    BY DEF CheckChain, NextSequence
  <1> HIDE DEF seq
  <1>4. (~(seq < p.seq + 1 /\ seq <= p.seq) /\ ~(seq > p.seq + 1)) <=> seq = p.seq + 1
    BY <1>1
  <1>5. seq = p.seq + 1 => /\ (seq = 1 <=> p.seq = 0)
                           /\ ~(seq = 1 /\ p.seq > 0)
    BY <1>1
  <1> QED
    BY <1>1, <1>2, <1>3, <1>4, <1>5 DEF seq

\* A record has no error exactly when none of the three checks has one.
LEMMA ErrorsAre ==
    ASSUME NEW n \in Node, NEW e \in SignedEvent, position[n] \in ChainPosition
    PROVE  Errors(n, e) = {} <=>
              /\ Intact(e)
              /\ SeqOf[e.content] = position[n].seq + 1
              /\ IF position[n].seq = 0 THEN PrevOf[e.content] = Genesis[NodeOf[e.content]]
                 ELSE position[n].hash = NoHash \/ PrevOf[e.content] = position[n].hash
              /\ NoteAlerts(n, e) = {}
  <1>1. Errors(n, e) = {} <=> /\ VerifyEvent(e) = {}
                              /\ CheckChain(position[n], e) = {}
                              /\ NoteAlerts(n, e) = {}
    BY DEF Errors
  <1>2. VerifyEvent(e) = {} <=> Intact(e)
    BY VerifyEventIs
  <1>3. CheckChain(position[n], e) = {} <=>
              /\ SeqOf[e.content] = position[n].seq + 1
              /\ IF position[n].seq = 0 THEN PrevOf[e.content] = Genesis[NodeOf[e.content]]
                 ELSE position[n].hash = NoHash \/ PrevOf[e.content] = position[n].hash
    BY CheckChainIs
  <1> QED
    BY <1>1, <1>2, <1>3

\* All errors are alerts.
LEMMA ErrorsAreAlerts ==
    ASSUME NEW n, NEW e
    PROVE  Errors(n, e) \subseteq Alert
  BY DEF Errors, VerifyEvent, CheckEventHash, CheckKey, CheckSignature, CheckChain, NoteAlerts,
     Alert

----------------------------------------------------------------------------
(* Types *)

\* Every step keeps the types.
LEMMA TypeNext == TypeOK /\ [Next]_vars => TypeOK'
  <1> SUFFICES ASSUME TypeOK, [Next]_vars
               PROVE  TypeOK'
    OBVIOUS
  <1>1. CASE UNCHANGED vars
    BY <1>1 DEF vars, TypeOK
  <1>2. ASSUME NEW n \in Node, NEW e \in Records, ReadRecord(n, e)
        PROVE  TypeOK'
    <2>0. e \in SignedEvent /\ e.content \in Content /\ e.event_hash \in Hash
          /\ e.content \in Hash /\ SeqOf[e.content] \in Nat
      BY CollectorAssumption, ContentAssumption DEF SignedEvent, Hash
    <2>1. position' \in [Node -> ChainPosition]
      <3>1. Advance(position[n], e) \in ChainPosition
        BY <2>0 DEF Advance, ComputeEventHash, ChainPosition
      <3> QED
        BY <1>2, <3>1 DEF ReadRecord, TypeOK
    <2>2. seenSeq' \in [Node -> SUBSET (Nat \X Hash)]
      <3>1. <<SeqOf[e.content], e.event_hash>> \in Nat \X Hash
        BY <2>0
      <3>2. {s \in seenSeq[n] : s[1] # SeqOf[e.content]} \cup {<<SeqOf[e.content], e.event_hash>>}
              \in SUBSET (Nat \X Hash)
        BY <3>1 DEF TypeOK
      <3> QED
        BY <1>2, <3>2 DEF ReadRecord, Note, TypeOK
    <2>3. seenHash' \in [Node -> SUBSET Hash] /\ exhausted' \in [Node -> BOOLEAN]
      <3>1. /\ \/ seenHash' = [seenHash EXCEPT ![n] = @ \cup {e.event_hash}]
               \/ seenHash' = seenHash
            /\ \/ exhausted' = exhausted
               \/ exhausted' = [exhausted EXCEPT ![n] = TRUE]
        BY <1>2 DEF ReadRecord, Note
      <3>2. seenHash' \in [Node -> SUBSET Hash]
        BY <2>0, <3>1 DEF TypeOK
      <3>3. [exhausted EXCEPT ![n] = TRUE] \in [Node -> BOOLEAN]
        BY Zenon DEF TypeOK
      <3> QED
        BY <3>1, <3>2, <3>3 DEF TypeOK
    <2>4. report' \in Report
      <3>1. Counted(report, TRUE) \in Report /\ Counted(report, FALSE) \in Report
        BY DEF Counted, Report, TypeOK
      <3> QED
        BY <1>2, <3>1 DEF ReadRecord
    <2>5. alerts' \in [Node -> SUBSET Alert]
      BY <1>2, ErrorsAreAlerts DEF ReadRecord, TypeOK
    <2>6. hist' \in [Node -> Seq(SignedEvent)]
      BY <1>2, <2>0 DEF ReadRecord, TypeOK
    <2>7. verified' \subseteq Content /\ status' = status
      BY <1>2, <2>0 DEF ReadRecord, TypeOK
    <2> QED
      BY <2>1, <2>2, <2>3, <2>4, <2>5, <2>6, <2>7 DEF TypeOK
  <1>3. CASE ReadUnreadable
    <2>1. report' \in Report
      <3>1. /\ report.total + 1 \in Nat /\ report.verified \in Nat
            /\ report.failed + 1 \in Nat /\ report.malformed + 1 \in Nat
        BY DEF TypeOK, Report
      <3>2. report' = [total |-> report.total + 1, verified |-> report.verified,
                       failed |-> report.failed + 1, malformed |-> report.malformed + 1,
                       valid |-> FALSE]
        BY <1>3 DEF ReadUnreadable, TypeOK, Report
      <3> QED
        BY <3>1, <3>2 DEF Report
    <2> QED
      BY <1>3, <2>1 DEF ReadUnreadable, trackers, TypeOK
  <1>4. ASSUME NEW e \in Records, BackendFails(e)
        PROVE  TypeOK'
    BY <1>4 DEF BackendFails, trackers, TypeOK
  <1>5. CASE Return
    BY <1>5 DEF Return, trackers, TypeOK
  <1> QED
    BY <1>1, <1>2, <1>3, <1>4, <1>5 DEF Next

\* The first state has the types.
LEMMA TypeInit == Init => TypeOK
  BY DEF Init, TypeOK, Start, ChainPosition, Report

\* Whatever lines a stream holds, trackers and report stay well formed.
THEOREM TypeCorrect == Spec => []TypeOK
  BY TypeInit, TypeNext, PTL DEF Spec

----------------------------------------------------------------------------
(* What one record does *)

\* The parts of ReadRecord that the invariants below speak of.
LEMMA ReadRecordIs ==
    ASSUME TypeOK, NEW n \in Node, NEW e \in Records, ReadRecord(n, e)
    PROVE  /\ e \in SignedEvent /\ e.content \in Content /\ NodeOf[e.content] = n
           /\ SeqOf[e.content] \in Nat \ {0} /\ PrevOf[e.content] \in Hash
           /\ \A m \in Node : m # n => /\ position'[m] = position[m] /\ hist'[m] = hist[m]
                                       /\ alerts'[m] = alerts[m] /\ seenHash'[m] = seenHash[m]
                                       /\ seenSeq'[m] = seenSeq[m] /\ exhausted'[m] = exhausted[m]
           /\ hist'[n] = Append(hist[n], e)
           /\ alerts'[n] = alerts[n] \cup Errors(n, e)
           /\ SeqOf[e.content] = position[n].seq + 1 =>
                 position'[n] = [seq |-> position[n].seq + 1, hash |-> e.content]
           /\ SeqOf[e.content] # position[n].seq + 1 => position'[n] = position[n]
  <1>1. /\ e \in SignedEvent /\ e.content \in Content /\ NodeOf[e.content] = n
        /\ SeqOf[e.content] \in Nat \ {0} /\ PrevOf[e.content] \in Hash
    BY CollectorAssumption, ContentAssumption DEF SignedEvent, ReadRecord
  <1>2. \A m \in Node : m # n => /\ position'[m] = position[m] /\ hist'[m] = hist[m]
                                 /\ alerts'[m] = alerts[m]
    BY DEF ReadRecord, TypeOK
  <1>3. \A m \in Node : m # n => /\ seenHash'[m] = seenHash[m] /\ seenSeq'[m] = seenSeq[m]
                                 /\ exhausted'[m] = exhausted[m]
    BY DEF ReadRecord, Note, TypeOK
  <1>4. hist'[n] = Append(hist[n], e) /\ alerts'[n] = alerts[n] \cup Errors(n, e)
    BY DEF ReadRecord, TypeOK
  <1>5. position'[n] = IF SeqOf[e.content] = position[n].seq + 1
                       THEN [seq |-> SeqOf[e.content], hash |-> e.content] ELSE position[n]
    BY DEF ReadRecord, TypeOK, Moves, NextSequence, Advance, ComputeEventHash
  <1> QED
    BY <1>1, <1>2, <1>3, <1>4, <1>5

\* Every other step leaves trackers, histories and the verified contents alone.
LEMMA OtherSteps ==
    ASSUME [Next]_vars, ~ \E n \in Node, e \in Records : ReadRecord(n, e)
    PROVE  /\ UNCHANGED <<position, seenSeq, seenHash, exhausted, alerts, hist, verified>>
           /\ \/ report' = report
              \/ report' = [report EXCEPT !.total = @ + 1, !.failed = @ + 1, !.malformed = @ + 1,
                                          !.valid = FALSE]
  BY DEF Next, vars, trackers, ReadUnreadable, BackendFails, Return

----------------------------------------------------------------------------
(* Sequence gaps *)

InOrder(s) == \A i \in 1..Len(s) : SeqOf[s[i].content] = i

GapInv ==
    \A n \in Node : InOrder(hist[n]) => /\ position[n].seq = Len(hist[n])
                                        /\ "pqc_sequence_gap" \notin alerts[n]

\* Every step keeps GapInv: the cursor counts the records that come in order.
LEMMA GapNext == TypeOK /\ GapInv /\ [Next]_vars => GapInv'
  <1> SUFFICES ASSUME TypeOK, GapInv, [Next]_vars
               PROVE  GapInv'
    OBVIOUS
  <1>1. CASE ~ \E n \in Node, e \in Records : ReadRecord(n, e)
    BY <1>1, OtherSteps DEF GapInv
  <1>2. ASSUME NEW n \in Node, NEW e \in Records, ReadRecord(n, e)
        PROVE  GapInv'
    <2>0. /\ e \in SignedEvent /\ SeqOf[e.content] \in Nat \ {0}
          /\ \A m \in Node : m # n => /\ position'[m] = position[m] /\ hist'[m] = hist[m]
                                      /\ alerts'[m] = alerts[m]
          /\ hist'[n] = Append(hist[n], e)
          /\ alerts'[n] = alerts[n] \cup Errors(n, e)
          /\ SeqOf[e.content] = position[n].seq + 1 =>
                position'[n] = [seq |-> position[n].seq + 1, hash |-> e.content]
      BY <1>2, ReadRecordIs
    <2>1. ASSUME NEW m \in Node, m # n, InOrder(hist'[m])
          PROVE  position'[m].seq = Len(hist'[m]) /\ "pqc_sequence_gap" \notin alerts'[m]
      BY <2>0, <2>1 DEF GapInv
    <2>2. ASSUME InOrder(hist'[n])
          PROVE  position'[n].seq = Len(hist'[n]) /\ "pqc_sequence_gap" \notin alerts'[n]
      <3>1. /\ hist[n] \in Seq(SignedEvent) /\ e \in SignedEvent
            /\ hist'[n] = Append(hist[n], e) /\ SeqOf[e.content] \in Nat
            /\ position[n].seq \in Nat
        BY <2>0 DEF TypeOK, ChainPosition
      <3>2. InOrder(hist[n]) /\ SeqOf[e.content] = Len(hist[n]) + 1
        BY <2>2, <3>1 DEF InOrder
      <3>3. position[n].seq = Len(hist[n]) /\ "pqc_sequence_gap" \notin alerts[n]
        BY <3>2 DEF GapInv
      <3>4. position'[n].seq = Len(hist'[n])
        <4>1. position'[n] = [seq |-> position[n].seq + 1, hash |-> e.content]
          BY <2>0, <3>2, <3>3
        <4>2. Len(hist'[n]) = Len(hist[n]) + 1
          BY <3>1
        <4> QED
          BY <3>3, <4>1, <4>2
      <3>5. "pqc_sequence_gap" \notin Errors(n, e)
        <4>1. ~(SeqOf[e.content] > NextSequence(position[n]))
          BY <3>1, <3>2, <3>3 DEF NextSequence
        <4> QED
          BY <4>1 DEF Errors, VerifyEvent, CheckEventHash, CheckKey, CheckSignature, CheckChain,
                      NoteAlerts
      <3> QED
        BY <2>0, <3>3, <3>4, <3>5
    <2> QED
      BY <2>1, <2>2 DEF GapInv
  <1> QED
    BY <1>1, <1>2

\* Altering, forking or re-signing records that keep their sequence numbers
\* never makes verify_stream claim that records are missing.
THEOREM NoFalseGap == Spec => []NoGapWithoutGap
  <1>1. Init => GapInv
    BY DEF Init, GapInv, Start
  <1>2. GapInv => NoGapWithoutGap
    BY DEF GapInv, InOrder, NoGapWithoutGap
  <1> QED
    BY <1>1, <1>2, TypeInit, TypeNext, GapNext, PTL DEF Spec

----------------------------------------------------------------------------
(* Verified records *)

\* The cursor of a node rests on a record of the stream.
CursorInv ==
    \A n \in Node :
        \/ position[n] = Start
        \/ /\ position[n].hash \in Content
           /\ SeqOf[position[n].hash] = position[n].seq
           /\ \E i \in 1..Len(hist[n]) : hist[n][i].content = position[n].hash

\* Verified contents lie behind the cursor and are counted once.
OnceInv ==
    /\ IsFiniteSet(verified)
    /\ report.verified = Cardinality(verified)
    /\ \A c \in verified : SeqOf[c] <= position[NodeOf[c]].seq

VerifiedInv == CursorInv /\ OnceInv /\ VerifiedContinues

\* Histories only grow.
LEMMA HistGrows ==
    ASSUME TypeOK, [Next]_vars, NEW n \in Node, NEW i \in 1..Len(hist[n])
    PROVE  i \in 1..Len(hist'[n]) /\ hist'[n][i] = hist[n][i]
  <1>1. CASE ~ \E m \in Node, e \in Records : ReadRecord(m, e)
    BY <1>1, OtherSteps
  <1>2. ASSUME NEW m \in Node, NEW e \in Records, ReadRecord(m, e)
        PROVE  i \in 1..Len(hist'[n]) /\ hist'[n][i] = hist[n][i]
    <2>0. /\ e \in SignedEvent /\ hist'[m] = Append(hist[m], e)
          /\ \A k \in Node : k # m => hist'[k] = hist[k]
      BY <1>2, CollectorAssumption DEF ReadRecord, TypeOK
    <2>1. hist[n] \in Seq(SignedEvent) /\ e \in SignedEvent
          /\ (hist'[n] = hist[n] \/ hist'[n] = Append(hist[n], e))
      BY <2>0 DEF TypeOK
    <2> QED
      BY <2>1
  <1> QED
    BY <1>1, <1>2

\* Every step keeps VerifiedInv.
LEMMA VerifiedNext == TypeOK /\ VerifiedInv /\ [Next]_vars => VerifiedInv'
  <1> SUFFICES ASSUME TypeOK, VerifiedInv, [Next]_vars
               PROVE  VerifiedInv'
    OBVIOUS
  <1>1. CASE ~ \E n \in Node, e \in Records : ReadRecord(n, e)
    <2>1. report'.verified = report.verified
      BY <1>1, OtherSteps DEF TypeOK, Report
    <2> QED
      BY <1>1, <2>1, OtherSteps DEF VerifiedInv, CursorInv, OnceInv, VerifiedContinues
  <1>2. ASSUME NEW n \in Node, NEW e \in Records, ReadRecord(n, e)
        PROVE  VerifiedInv'
    <2>0. /\ e \in SignedEvent /\ e.content \in Content /\ NodeOf[e.content] = n
          /\ SeqOf[e.content] \in Nat \ {0}
          /\ \A m \in Node : m # n => position'[m] = position[m] /\ hist'[m] = hist[m]
          /\ hist'[n] = Append(hist[n], e)
          /\ SeqOf[e.content] = position[n].seq + 1 =>
                position'[n] = [seq |-> position[n].seq + 1, hash |-> e.content]
          /\ SeqOf[e.content] # position[n].seq + 1 => position'[n] = position[n]
      BY <1>2, ReadRecordIs
    <2>t. /\ hist[n] \in Seq(SignedEvent) /\ verified \subseteq Content
          /\ \A m \in Node : position[m] \in ChainPosition /\ position[m].seq \in Nat
      BY DEF TypeOK, ChainPosition
    <2>1. CursorInv'
      <3>1. ASSUME NEW m \in Node, m # n
            PROVE  \/ position'[m] = Start
                   \/ /\ position'[m].hash \in Content
                      /\ SeqOf[position'[m].hash] = position'[m].seq
                      /\ \E i \in 1..Len(hist'[m]) : hist'[m][i].content = position'[m].hash
        BY <2>0, <3>1 DEF VerifiedInv, CursorInv
      <3>2. CASE SeqOf[e.content] = position[n].seq + 1
        <4>1. position'[n].hash = e.content /\ position'[n].seq = SeqOf[e.content]
          BY <2>0, <3>2
        <4>2. /\ Len(hist[n]) + 1 \in 1..Len(hist'[n])
              /\ hist'[n][Len(hist[n]) + 1].content = e.content
          BY <2>0, <2>t
        <4> QED
          BY <2>0, <3>1, <4>1, <4>2 DEF CursorInv
      <3>3. CASE SeqOf[e.content] # position[n].seq + 1
        <4>1. position'[n] = position[n]
          BY <2>0, <3>3
        <4>2. \A i \in 1..Len(hist[n]) : i \in 1..Len(hist'[n]) /\ hist'[n][i] = hist[n][i]
          BY HistGrows
        <4> QED
          BY <3>1, <4>1, <4>2 DEF VerifiedInv, CursorInv
      <3> QED
        BY <3>2, <3>3
    <2>2. \A c \in verified : SeqOf[c] <= position'[NodeOf[c]].seq
      <3>1. ASSUME NEW c \in verified
            PROVE  SeqOf[c] <= position'[NodeOf[c]].seq
        <4>1. /\ NodeOf[c] \in Node /\ SeqOf[c] \in Nat
              /\ SeqOf[c] <= position[NodeOf[c]].seq
          BY <2>t, ContentAssumption DEF VerifiedInv, OnceInv
        <4>2. position[NodeOf[c]].seq <= position'[NodeOf[c]].seq
          BY <2>0, <2>t, <4>1
        <4>3. position'[NodeOf[c]].seq \in Nat
          BY <2>0, <2>t, <4>1
        <4> QED
          BY <2>t, <4>1, <4>2, <4>3
      <3> QED
        BY <3>1
    <2>3. ASSUME NEW c \in verified
          PROVE  \/ SeqOf[c] = 1 /\ PrevOf[c] = Genesis[NodeOf[c]]
                 \/ \E i \in 1..Len(hist'[NodeOf[c]]) :
                       /\ hist'[NodeOf[c]][i].content = PrevOf[c]
                       /\ SeqOf[PrevOf[c]] = SeqOf[c] - 1
      <3>1. NodeOf[c] \in Node
        BY <2>t, ContentAssumption
      <3>2. \A i \in 1..Len(hist[NodeOf[c]]) : /\ i \in 1..Len(hist'[NodeOf[c]])
                                               /\ hist'[NodeOf[c]][i] = hist[NodeOf[c]][i]
        BY <3>1, HistGrows
      <3> QED
        BY <3>2 DEF VerifiedInv, VerifiedContinues
    <2>4. CASE Errors(n, e) # {}
      <3>1. verified' = verified /\ report'.verified = report.verified
        BY <1>2, <2>4 DEF ReadRecord, Counted, TypeOK, Report
      <3>2. OnceInv'
        BY <2>2, <3>1 DEF VerifiedInv, OnceInv
      <3>3. VerifiedContinues'
        BY <2>3, <3>1 DEF VerifiedContinues
      <3> QED
        BY <2>1, <3>2, <3>3 DEF VerifiedInv
    <2>5. CASE Errors(n, e) = {}
      <3>1. /\ SeqOf[e.content] = position[n].seq + 1
            /\ IF position[n].seq = 0 THEN PrevOf[e.content] = Genesis[n]
               ELSE position[n].hash = NoHash \/ PrevOf[e.content] = position[n].hash
        BY <2>0, <2>t, <2>5, ErrorsAre
      <3>2. /\ verified' = verified \cup {e.content}
            /\ report'.verified = report.verified + 1
        BY <1>2, <2>5 DEF ReadRecord, Counted
      <3>3. e.content \notin verified
        BY <2>0, <2>t, <3>1 DEF VerifiedInv, OnceInv
      <3>4. IsFiniteSet(verified') /\ Cardinality(verified') = Cardinality(verified) + 1
        BY <3>2, <3>3, FS_AddElement DEF VerifiedInv, OnceInv
      <3>5. SeqOf[e.content] <= position'[n].seq
        BY <2>0, <2>t, <3>1
      <3>6. OnceInv'
        BY <2>0, <2>2, <3>2, <3>4, <3>5 DEF VerifiedInv, OnceInv
      <3>7. \/ SeqOf[e.content] = 1 /\ PrevOf[e.content] = Genesis[n]
            \/ \E i \in 1..Len(hist'[n]) :
                  /\ hist'[n][i].content = PrevOf[e.content]
                  /\ SeqOf[PrevOf[e.content]] = SeqOf[e.content] - 1
        <4>1. CASE position[n].seq = 0
          BY <3>1, <4>1
        <4>2. CASE position[n].seq # 0
          <5>1. /\ position[n].hash \in Content
                /\ SeqOf[position[n].hash] = position[n].seq
                /\ \E i \in 1..Len(hist[n]) : hist[n][i].content = position[n].hash
            BY <4>2 DEF VerifiedInv, CursorInv, Start
          <5>2. position[n].hash # NoHash
            BY <5>1, ContentAssumption DEF Hash
          <5>3. PrevOf[e.content] = position[n].hash
            BY <3>1, <4>2, <5>2
          <5>4. \A i \in 1..Len(hist[n]) : i \in 1..Len(hist'[n]) /\ hist'[n][i] = hist[n][i]
            BY HistGrows
          <5>5. SeqOf[PrevOf[e.content]] = SeqOf[e.content] - 1
            BY <2>t, <3>1, <5>1, <5>3
          <5> QED
            BY <5>1, <5>3, <5>4, <5>5
        <4> QED
          BY <4>1, <4>2
      <3>8. VerifiedContinues'
        BY <2>0, <2>3, <3>2, <3>7 DEF VerifiedContinues
      <3> QED
        BY <2>1, <3>6, <3>8 DEF VerifiedInv
    <2> QED
      BY <2>4, <2>5
  <1> QED
    BY <1>1, <1>2

\* At the start nothing is verified and every cursor is at its start.
LEMMA VerifiedInit == Init => VerifiedInv
  BY FS_EmptySet DEF Init, VerifiedInv, CursorInv, OnceInv, VerifiedContinues

\* No record is ever counted as verified twice, however often and wherever it
\* is repeated, and however small the tracking limit is.
THEOREM NoDoubleVerification == Spec => []VerifiedOnce
  <1>1. VerifiedInv => VerifiedOnce
    BY DEF VerifiedInv, OnceInv, VerifiedOnce
  <1> QED
    BY <1>1, TypeInit, TypeNext, VerifiedInit, VerifiedNext, PTL DEF Spec

\* Every verified record names the recomputed hash of a record that came before
\* it in the stream, or its node's genesis.
THEOREM NoSteering == Spec => []VerifiedContinues
  <1>1. VerifiedInv => VerifiedContinues
    BY DEF VerifiedInv
  <1> QED
    BY <1>1, TypeInit, TypeNext, VerifiedInit, VerifiedNext, PTL DEF Spec

----------------------------------------------------------------------------
(* The report *)

\* Tracker and cursor of a node whose records are genuine so far.
Tracked(n) ==
    /\ position[n].seq = Len(hist[n])
    /\ Len(hist[n]) # 0 => position[n].hash = hist[n][Len(hist[n])].content
    /\ seenSeq[n] = {<<i, hist[n][i].content>> : i \in 1..Len(hist[n])}
    /\ seenHash[n] = {hist[n][i].content : i \in 1..Len(hist[n])}
    /\ IsFiniteSet(seenHash[n]) /\ Cardinality(seenHash[n]) = Len(hist[n])
    /\ ~exhausted[n]

TrackInv == \A n \in Node : Genuine(n, hist[n]) => Tracked(n)

\* What a record must be to continue a genuine chain s of node n.
Continues(n, s, e) ==
    /\ Len(s) < MaxTracked
    /\ Intact(e)
    /\ SeqOf[e.content] = Len(s) + 1
    /\ PrevOf[e.content] = IF Len(s) = 0 THEN Genesis[n] ELSE s[Len(s)].content

\* A chain is genuine exactly when its records but the last are, and the last
\* continues them.
LEMMA GenuineAppend ==
    ASSUME NEW n \in Node, NEW s \in Seq(SignedEvent), NEW e \in SignedEvent
    PROVE  Genuine(n, Append(s, e)) <=> Genuine(n, s) /\ Continues(n, s, e)
  <1> DEFINE t == Append(s, e)
             Link(r, i) == /\ Intact(r[i])
                           /\ SeqOf[r[i].content] = i
                           /\ PrevOf[r[i].content] = IF i = 1 THEN Genesis[n] ELSE r[i - 1].content
  <1>1. /\ Len(s) \in Nat /\ Len(t) = Len(s) + 1 /\ t[Len(s) + 1] = e
        /\ \A i \in 1..Len(s) : t[i] = s[i]
    OBVIOUS
  <1>2. \A i \in 1..Len(s) : Link(t, i) <=> Link(s, i)
    <2>1. ASSUME NEW i \in 1..Len(s)
          PROVE  t[i] = s[i] /\ (i # 1 => t[i - 1] = s[i - 1])
      BY <1>1
    <2> QED
      BY <2>1
  <1>3. Link(t, Len(s) + 1) <=>
           /\ Intact(e)
           /\ SeqOf[e.content] = Len(s) + 1
           /\ PrevOf[e.content] = IF Len(s) = 0 THEN Genesis[n] ELSE s[Len(s)].content
    <2>1. /\ Len(s) + 1 = 1 <=> Len(s) = 0
          /\ Len(s) # 0 => t[(Len(s) + 1) - 1] = s[Len(s)]
      BY <1>1
    <2> QED
      BY <1>1, <2>1
  <1>4. Genuine(n, s) <=> Len(s) <= MaxTracked /\ \A i \in 1..Len(s) : Link(s, i)
    BY DEF Genuine
  <1>5. Genuine(n, t) <=> Len(t) <= MaxTracked /\ \A i \in 1..Len(t) : Link(t, i)
    BY DEF Genuine
  <1> HIDE DEF t, Link
  <1>6. (\A i \in 1..Len(t) : Link(t, i)) <=>
           (\A i \in 1..Len(s) : Link(t, i)) /\ Link(t, Len(s) + 1)
    BY <1>1
  <1>7. MaxTracked \in Nat
    BY CollectorAssumption
  <1>8. Genuine(n, t) <=> /\ Len(s) < MaxTracked
                          /\ \A i \in 1..Len(s) : Link(s, i)
                          /\ Link(t, Len(s) + 1)
    BY <1>1, <1>2, <1>5, <1>6, <1>7
  <1>9. Len(s) < MaxTracked => Len(s) <= MaxTracked
    BY <1>1, <1>7
  <1> QED
    BY <1>3, <1>4, <1>8, <1>9 DEF Continues, t

\* Behind a genuine chain, verify_stream finds no error in a record exactly when
\* the record continues the chain and can still be tracked.
LEMMA ErrorsContinue ==
    ASSUME TypeOK, NEW n \in Node, NEW e \in SignedEvent, NodeOf[e.content] = n,
           Genuine(n, hist[n]), Tracked(n)
    PROVE  Errors(n, e) = {} <=> Continues(n, hist[n], e)
  <1>1. /\ position[n] \in ChainPosition /\ hist[n] \in Seq(SignedEvent)
        /\ Len(hist[n]) \in Nat /\ MaxTracked \in Nat
    BY CollectorAssumption DEF TypeOK
  <1>2. Errors(n, e) = {} <=>
           /\ Intact(e)
           /\ SeqOf[e.content] = position[n].seq + 1
           /\ IF position[n].seq = 0 THEN PrevOf[e.content] = Genesis[NodeOf[e.content]]
              ELSE position[n].hash = NoHash \/ PrevOf[e.content] = position[n].hash
           /\ NoteAlerts(n, e) = {}
    BY <1>1, ErrorsAre
  <1>3. /\ \A i \in 1..Len(hist[n]) : /\ hist[n][i].content \in Content
                                      /\ SeqOf[hist[n][i].content] = i
        /\ position[n].seq = Len(hist[n])
        /\ Len(hist[n]) # 0 => position[n].hash = hist[n][Len(hist[n])].content
    <2>1. ASSUME NEW i \in 1..Len(hist[n])
          PROVE  hist[n][i].content \in Content /\ SeqOf[hist[n][i].content] = i
      <3>1. hist[n][i] \in SignedEvent
        BY <1>1
      <3>2. hist[n][i].content \in Content
        BY <3>1 DEF SignedEvent
      <3> QED
        BY <3>2 DEF Genuine
    <2> QED
      BY <2>1 DEF Tracked
  <1>4. Len(hist[n]) # 0 => position[n].hash # NoHash
    <2>1. Len(hist[n]) # 0 => Len(hist[n]) \in 1..Len(hist[n])
      BY <1>1
    <2> QED
      BY <1>3, <2>1, ContentAssumption DEF Hash
  <1>5. ASSUME Intact(e), SeqOf[e.content] = Len(hist[n]) + 1
        PROVE  NoteAlerts(n, e) = {} <=> Len(hist[n]) < MaxTracked
    <2>1. e.event_hash = e.content
      BY <1>5 DEF Intact
    <2>2. e.content \notin seenHash[n]
      <3>1. \A i \in 1..Len(hist[n]) : hist[n][i].content # e.content
        BY <1>1, <1>3, <1>5
      <3> QED
        BY <3>1 DEF Tracked
    <2>3. SeenAt(n, SeqOf[e.content]) = {}
      <3>1. ASSUME NEW h \in Hash, <<SeqOf[e.content], h>> \in seenSeq[n]
            PROVE  FALSE
        <4>1. PICK i \in 1..Len(hist[n]) : <<SeqOf[e.content], h>> = <<i, hist[n][i].content>>
          BY <3>1 DEF Tracked
        <4>2. SeqOf[e.content] = i
          BY <4>1
        <4> QED
          BY <1>1, <1>5, <4>2
      <3> QED
        BY <3>1 DEF SeenAt
    <2>4. NoteAlerts(n, e) = {a \in {"pqc_malformed_evidence"} : Len(hist[n]) >= MaxTracked}
      BY <2>1, <2>2, <2>3 DEF NoteAlerts, Tracked
    <2> QED
      BY <1>1, <2>4
  <1> QED
    BY <1>2, <1>3, <1>4, <1>5 DEF Continues

\* A record that continues a genuine chain is tracked like the others.
LEMMA TrackNext == TypeOK /\ TrackInv /\ [Next]_vars => TrackInv'
  <1> SUFFICES ASSUME TypeOK, TrackInv, [Next]_vars
               PROVE  TrackInv'
    OBVIOUS
  <1>1. CASE ~ \E n \in Node, e \in Records : ReadRecord(n, e)
    BY <1>1, OtherSteps DEF TrackInv, Tracked
  <1>2. ASSUME NEW n \in Node, NEW e \in Records, ReadRecord(n, e)
        PROVE  TrackInv'
    <2>0. /\ e \in SignedEvent /\ e.content \in Content
          /\ \A m \in Node : m # n => /\ position'[m] = position[m] /\ hist'[m] = hist[m]
                                      /\ seenHash'[m] = seenHash[m] /\ seenSeq'[m] = seenSeq[m]
                                      /\ exhausted'[m] = exhausted[m]
          /\ hist'[n] = Append(hist[n], e)
          /\ SeqOf[e.content] = position[n].seq + 1 =>
                position'[n] = [seq |-> position[n].seq + 1, hash |-> e.content]
      BY <1>2, ReadRecordIs
    <2>1. ASSUME NEW m \in Node, m # n, Genuine(m, hist'[m])
          PROVE  Tracked(m)'
      BY <2>0, <2>1 DEF TrackInv, Tracked
    <2>2. ASSUME Genuine(n, hist'[n])
          PROVE  Tracked(n)'
      <3>1. /\ hist[n] \in Seq(SignedEvent) /\ Len(hist[n]) \in Nat /\ MaxTracked \in Nat
        BY CollectorAssumption DEF TypeOK
      <3>2. Genuine(n, hist[n]) /\ Continues(n, hist[n], e)
        BY <2>0, <2>2, <3>1, GenuineAppend
      <3>3. Tracked(n)
        BY <3>2 DEF TrackInv
      <3>4. /\ Len(hist'[n]) = Len(hist[n]) + 1 /\ hist'[n][Len(hist[n]) + 1] = e
            /\ \A i \in 1..Len(hist[n]) : hist'[n][i] = hist[n][i]
        BY <2>0, <3>1
      <3>5. /\ position'[n].seq = Len(hist'[n])
            /\ position'[n].hash = hist'[n][Len(hist'[n])].content
        BY <2>0, <3>2, <3>3, <3>4 DEF Continues, Tracked
      <3>6. /\ seenSeq'[n] = {s \in seenSeq[n] : s[1] # SeqOf[e.content]}
                             \cup {<<SeqOf[e.content], e.content>>}
            /\ seenHash'[n] = seenHash[n] \cup {e.content}
            /\ exhausted'[n] = exhausted[n]
        <4>1. e.event_hash = e.content /\ Cardinality(seenHash[n]) < MaxTracked
          BY <3>2, <3>3 DEF Continues, Tracked, Intact
        <4>2. /\ seenSeq' = [seenSeq EXCEPT ![n] = {s \in @ : s[1] # SeqOf[e.content]}
                                                  \cup {<<SeqOf[e.content], e.event_hash>>}]
              /\ seenHash' = [seenHash EXCEPT ![n] = @ \cup {e.event_hash}]
              /\ UNCHANGED exhausted
          BY <1>2, <4>1 DEF ReadRecord, Note
        <4> QED
          BY <4>1, <4>2 DEF TypeOK
      <3>7. seenHash'[n] = {hist'[n][i].content : i \in 1..Len(hist'[n])}
        <4>1. seenHash[n] = {hist[n][i].content : i \in 1..Len(hist[n])}
          BY <3>3 DEF Tracked
        <4>2. 1..Len(hist'[n]) = 1..Len(hist[n]) \cup {Len(hist[n]) + 1}
          BY <3>1, <3>4
        <4>3. \A c : c \in {hist'[n][i].content : i \in 1..Len(hist'[n])} <=>
                       c \in seenHash[n] \/ c = e.content
          BY <3>4, <4>1, <4>2
        <4> QED
          BY <3>6, <4>3
      <3>8. seenSeq'[n] = {<<i, hist'[n][i].content>> : i \in 1..Len(hist'[n])}
        <4>1. {s \in seenSeq[n] : s[1] # SeqOf[e.content]} = seenSeq[n]
          BY <3>1, <3>2, <3>3 DEF Tracked, Continues
        <4>2. seenSeq[n] = {<<i, hist[n][i].content>> : i \in 1..Len(hist[n])}
          BY <3>3 DEF Tracked
        <4>3. 1..Len(hist'[n]) = 1..Len(hist[n]) \cup {Len(hist[n]) + 1}
          BY <3>1, <3>4
        <4>4. SeqOf[e.content] = Len(hist[n]) + 1
          BY <3>2 DEF Continues
        <4> QED
          BY <3>4, <3>6, <4>1, <4>2, <4>3, <4>4, SMTT(40)
      <3>9. e.content \notin seenHash[n]
        <4>1. \A i \in 1..Len(hist[n]) : SeqOf[hist[n][i].content] = i
          BY <3>2 DEF Genuine
        <4> QED
          BY <3>1, <3>2, <3>3, <4>1 DEF Tracked, Continues
      <3>10. IsFiniteSet(seenHash'[n]) /\ Cardinality(seenHash'[n]) = Len(hist'[n])
        <4>1. IsFiniteSet(seenHash[n]) /\ Cardinality(seenHash[n]) = Len(hist[n])
          BY <3>3 DEF Tracked
        <4>2. /\ IsFiniteSet(seenHash[n] \cup {e.content})
              /\ Cardinality(seenHash[n] \cup {e.content}) = Cardinality(seenHash[n]) + 1
          BY <3>9, <4>1, FS_AddElement
        <4> QED
          BY <3>4, <3>6, <4>1, <4>2
      <3> QED
        BY <3>3, <3>5, <3>6, <3>7, <3>8, <3>10 DEF Tracked
    <2> QED
      BY <2>1, <2>2 DEF TrackInv
  <1> QED
    BY <1>1, <1>2

\* Every step keeps the report right.
LEMMA ReportNext == TypeOK /\ TrackInv /\ ReportIsRight /\ [Next]_vars => ReportIsRight'
  <1> SUFFICES ASSUME TypeOK, TrackInv, ReportIsRight, [Next]_vars
               PROVE  ReportIsRight'
    OBVIOUS
  <1>1. CASE ~ \E n \in Node, e \in Records : ReadRecord(n, e)
    <2>1. hist' = hist
      BY <1>1, OtherSteps
    <2>2. CASE report' = report
      BY <2>1, <2>2 DEF ReportIsRight
    <2>3. CASE report' = [report EXCEPT !.total = @ + 1, !.failed = @ + 1, !.malformed = @ + 1,
                                        !.valid = FALSE]
      <3>1. report'.valid = FALSE /\ report'.malformed = report.malformed + 1
            /\ report.malformed \in Nat
        BY <2>3 DEF TypeOK, Report
      <3>2. report'.malformed # 0
        BY <3>1
      <3> QED
        BY <3>1, <3>2 DEF ReportIsRight
    <2> QED
      BY <1>1, <2>2, <2>3, OtherSteps
  <1>2. ASSUME NEW n \in Node, NEW e \in Records, ReadRecord(n, e)
        PROVE  ReportIsRight'
    <2>0. /\ e \in SignedEvent /\ NodeOf[e.content] = n
          /\ \A m \in Node : m # n => hist'[m] = hist[m]
          /\ hist'[n] = Append(hist[n], e)
      BY <1>2, ReadRecordIs, ZenonT(60)
    <2>t. hist[n] \in Seq(SignedEvent)
      BY DEF TypeOK
    <2>1. /\ report'.valid <=> report.valid /\ Errors(n, e) = {}
          /\ report'.malformed = report.malformed
      BY <1>2 DEF ReadRecord, Counted
    <2>2. Genuine(n, hist'[n]) <=> Genuine(n, hist[n]) /\ Continues(n, hist[n], e)
      BY <2>0, <2>t, GenuineAppend
    <2>3. Genuine(n, hist[n]) => (Errors(n, e) = {} <=> Continues(n, hist[n], e))
      BY <2>0, ErrorsContinue DEF TrackInv
    <2>4. (\A m \in Node : Genuine(m, hist'[m])) <=>
             (\A m \in Node : Genuine(m, hist[m])) /\ Continues(n, hist[n], e)
      BY <2>0, <2>2
    <2> QED
      BY <2>1, <2>3, <2>4 DEF ReportIsRight
  <1> QED
    BY <1>1, <1>2

\* For every stream, a report is valid exactly when every line parsed and each
\* node's records are a genuine, complete chain in order.
THEOREM ReportHolds == Spec => []ReportIsRight
  <1>1. Init => TrackInv
    BY FS_EmptySet DEF Init, TrackInv, Tracked, Start
  <1>2. Init => ReportIsRight
    BY CollectorAssumption DEF Init, ReportIsRight, Genuine
  <1> QED
    BY <1>1, <1>2, TypeInit, TypeNext, TrackNext, ReportNext, PTL DEF Spec
=============================================================================
