---------------------------- MODULE ArchiveProofs ----------------------------
(***************************************************************************)
(* Theorems about Archive, for any logs, any number of create_archive      *)
(* calls and of readers, any limits and any damage.                        *)
(***************************************************************************)
EXTENDS Archive, SequenceTheorems, WellFoundedInduction, TLAPS

----------------------------------------------------------------------------
(* Induction: a set of natural numbers has a least element. *)

Below == {ss \in Nat \X Nat : ss[1] < ss[2]}

\* A set of numbers that is not empty has a least one: the induction principle of this
\* module.
LEMMA LeastNat ==
    ASSUME NEW T, T \subseteq Nat, T # {}
    PROVE  \E x \in T : \A y \in T : x <= y
  <1>1. IsWellFoundedOn(Below, Nat)
    BY NatLessThanWellFounded, Zenon DEF OpToRel, Below
  <1>2. PICK x \in T : \A y \in T : <<y, x>> \notin Below
    BY <1>1, WFMin, Zenon
  <1>3. ASSUME NEW y \in T PROVE x <= y
    <2>1. x \in Nat /\ y \in Nat
      BY <1>2, <1>3
    <2>2. SUFFICES ASSUME y < x PROVE FALSE
      BY <2>1
    <2>3. <<y, x>> \in Nat \X Nat /\ <<y, x>>[1] < <<y, x>>[2]
      BY <2>1, <2>2
    <2> QED
      BY <1>2, <1>3, <2>3, Zenon DEF Below
  <1> QED
    BY <1>2, <1>3

\* Induction from 0 up to n, and from n down to 0.
LEMMA Upward ==
    ASSUME NEW n \in Nat, NEW S, 0 \in S,
           \A i \in 1..n : i - 1 \in S => i \in S
    PROVE  \A i \in 0..n : i \in S
  <1> DEFINE T == {i \in Nat : i <= n /\ i \notin S}
  <1>1. ASSUME T # {} PROVE FALSE
    <2>1. PICK x \in T : \A y \in T : x <= y
      BY <1>1, LeastNat
    <2>2. x \in 1..n /\ x \notin S /\ x - 1 \in Nat
      BY <2>1
    <2>3. x - 1 \notin S
      BY <2>2
    <2>4. x - 1 \in T /\ ~(x <= x - 1)
      BY <2>2, <2>3
    <2> QED
      BY <2>1, <2>4
  <1> QED
    BY <1>1

\* Induction from n down to 0.
LEMMA Downward ==
    ASSUME NEW n \in Nat, NEW S, n \in S,
           \A i \in 1..n : i \in S => i - 1 \in S
    PROVE  \A i \in 0..n : i \in S
  <1> DEFINE T == {i \in Nat : i <= n /\ n - i \notin S}
  <1>1. ASSUME T # {} PROVE FALSE
    <2>1. PICK x \in T : \A y \in T : x <= y
      BY <1>1, LeastNat
    <2>2. n - 0 = n
      OBVIOUS
    <2>3. x \in 1..n /\ n - x \notin S /\ x - 1 \in Nat
      BY <2>1, <2>2
    <2>4. n - (x - 1) \in 1..n /\ (n - (x - 1)) - 1 = n - x
      BY <2>3
    <2>5. n - (x - 1) \notin S
      BY <2>3, <2>4
    <2>6. x - 1 \in T /\ ~(x <= x - 1)
      BY <2>3, <2>5
    <2> QED
      BY <2>1, <2>6
  <1>2. ASSUME NEW i \in 0..n PROVE i \in S
    <2>1. n - i \in Nat /\ n - i <= n /\ n - (n - i) = i
      OBVIOUS
    <2>2. n - i \notin T
      BY <1>1
    <2> QED
      BY <2>1, <2>2
  <1> QED
    BY <1>2

\* The maximum and the minimum of a bounded set.
LEMMA MaxIs ==
    ASSUME NEW S, S \subseteq Nat, S # {}, NEW b \in Nat, \A x \in S : x <= b
    PROVE  Max(S) \in S /\ \A y \in S : y <= Max(S)
  <1> DEFINE T == {u \in Nat : \A x \in S : x <= u}
  <1>1. PICK u \in T : \A v \in T : u <= v
    <2>1. b \in T
      OBVIOUS
    <2> QED
      BY <2>1, LeastNat
  <1>2. u \in S
    <2>1. SUFFICES ASSUME u \notin S PROVE FALSE
      OBVIOUS
    <2>2. \A x \in S : x \in Nat /\ x <= u /\ x # u
      BY <1>1, <2>1
    <2>3. \A x \in S : x <= u - 1
      BY <1>1, <2>2
    <2>4. u - 1 \in Nat
      <3>1. PICK x \in S : x \in Nat /\ x <= u /\ x # u
        BY <2>2
      <3> QED
        BY <1>1, <3>1
    <2>5. u - 1 \in T /\ ~(u <= u - 1)
      BY <1>1, <2>3, <2>4
    <2> QED
      BY <1>1, <2>5
  <1>3. \A y \in S : u >= y
    BY <1>1
  <1>4. Max(S) \in S /\ \A y \in S : Max(S) >= y
    BY <1>2, <1>3, Zenon DEF Max
  <1> QED
    BY <1>4

\* Min of a set of numbers is its least element.
LEMMA MinIs ==
    ASSUME NEW S, S \subseteq Nat, S # {}
    PROVE  Min(S) \in S /\ \A y \in S : Min(S) <= y
  <1>1. \E x \in S : \A y \in S : x <= y
    BY LeastNat
  <1> QED
    BY <1>1, Zenon DEF Min

----------------------------------------------------------------------------
(* verify_stream: its trackers after each line. *)

\* The first n + 1 trackers.
HasTrackers(s, n) ==
    \E g : g = [i \in 0..n |-> IF i = 0 THEN NewStream ELSE ReadLine(g[i - 1], s[i])]

\* What verify_stream holds after one more line can be defined.
LEMMA MoreTrackers ==
    ASSUME NEW s, NEW n \in Nat, HasTrackers(s, n)
    PROVE  HasTrackers(s, n + 1)
  <1>1. PICK g : g = [i \in 0..n |-> IF i = 0 THEN NewStream ELSE ReadLine(g[i - 1], s[i])]
    BY DEF HasTrackers
  <1> DEFINE h == [i \in 0..(n + 1) |-> IF i = n + 1 THEN ReadLine(g[n], s[i]) ELSE g[i]]
  <1>2. ASSUME NEW i \in 0..(n + 1)
        PROVE  h[i] = IF i = 0 THEN NewStream ELSE ReadLine(h[i - 1], s[i])
    <2>1. CASE i = n + 1
      <3>1. i # 0 /\ i - 1 = n /\ n \in 0..(n + 1) /\ n # n + 1
        BY <2>1
      <3>2. h[n] = g[n] /\ h[i] = ReadLine(g[n], s[i])
        BY <2>1, <3>1
      <3> HIDE DEF h
      <3> QED
        BY <3>1, <3>2
    <2>2. CASE i = 0
      <3>1. g[i] = NewStream
        BY <1>1, <2>2
      <3> QED
        BY <2>2, <3>1
    <2>3. CASE i # 0 /\ i # n + 1
      <3>1. i \in 0..n /\ i - 1 \in 0..(n + 1) /\ i - 1 # n + 1
        BY <2>3
      <3>2. g[i] = ReadLine(g[i - 1], s[i])
        BY <1>1, <2>3, <3>1
      <3>3. h[i] = g[i] /\ h[i - 1] = g[i - 1]
        BY <2>3, <3>1
      <3> HIDE DEF h
      <3> QED
        BY <2>3, <3>2, <3>3
    <2> QED
      BY <2>1, <2>2, <2>3
  <1>3. h = [i \in 0..(n + 1) |-> IF i = 0 THEN NewStream ELSE ReadLine(h[i - 1], s[i])]
    BY <1>2
  <1> HIDE DEF h
  <1> QED
    BY <1>3 DEF HasTrackers

\* So it can be defined for every number of lines.
LEMMA AllTrackers ==
    ASSUME NEW s, NEW n \in Nat
    PROVE  HasTrackers(s, n)
  <1> DEFINE S == {i \in Nat : HasTrackers(s, i)}
  <1>1. HasTrackers(s, 0)
    <2> DEFINE g == [i \in 0..0 |-> NewStream]
    <2>1. g = [i \in 0..0 |-> IF i = 0 THEN NewStream ELSE ReadLine(g[i - 1], s[i])]
      OBVIOUS
    <2> HIDE DEF g
    <2> QED
      BY <2>1 DEF HasTrackers
  <1>2. ASSUME NEW i \in 1..n, i - 1 \in S PROVE i \in S
    <2>1. i - 1 \in Nat /\ (i - 1) + 1 = i /\ i \in Nat
      OBVIOUS
    <2>2. HasTrackers(s, (i - 1) + 1)
      BY <1>2, <2>1, MoreTrackers
    <2> QED
      BY <2>1, <2>2
  <1>3. 0 \in S
    BY <1>1
  <1>4. \A i \in 0..n : i \in S
    <2> HIDE DEF S
    <2> QED
      BY <1>2, <1>3, Upward
  <1> QED
    BY <1>4

\* Hence StreamAfter satisfies its recursive definition.
LEMMA StreamAfterDef ==
    ASSUME NEW s, Len(s) \in Nat
    PROVE  /\ StreamAfter(s)[0] = NewStream
           /\ \A i \in 1..Len(s) : StreamAfter(s)[i] = ReadLine(StreamAfter(s)[i - 1], s[i])
  <1> DEFINE IsAfter(g) ==
        g = [i \in 0..Len(s) |-> IF i = 0 THEN NewStream ELSE ReadLine(g[i - 1], s[i])]
  <1>1. \E g : IsAfter(g)
    BY AllTrackers DEF HasTrackers
  <1>2. StreamAfter(s) = CHOOSE g : IsAfter(g)
    BY DEF StreamAfter
  <1>3. IsAfter(StreamAfter(s))
    BY <1>1, <1>2
  <1> QED
    BY <1>3

\* The trackers' type.
Streams == [position : [Node -> ChainPosition], seq : SUBSET (Node \X Nat \X Hash),
            hashes : SUBSET (Node \X Hash), spent : SUBSET Node,
            failed : Nat, malformed : Nat, alerts : SUBSET Alert]

\* What the checks of one record find.
Errors(r, n, e) == VerifyEvent(e) \cup CheckChain(r.position[n], e) \cup NoteAlerts(r, n, e)

\* The types of a record's fields.
LEMMA RecordType ==
    ASSUME NEW e \in SignedEvent
    PROVE  /\ e.content \in Content /\ e.event_hash \in Hash /\ e.content \in Hash
           /\ NodeOf[e.content] \in Node /\ SeqOf[e.content] \in Nat \ {0}
           /\ PrevOf[e.content] \in Hash /\ e # Torn
  <1>1. e.content \in Content /\ e.event_hash \in Hash
    BY DEF SignedEvent
  <1>2. e.content \in Hash
    BY <1>1 DEF Hash
  <1>3. NodeOf[e.content] \in Node /\ SeqOf[e.content] \in Nat \ {0} /\ PrevOf[e.content] \in Hash
    BY <1>1, ContentAssumption
  <1>4. e # Torn
    BY <1>2, ContentAssumption DEF Torn
  <1> QED
    BY <1>1, <1>2, <1>3, <1>4

\* _NodeTracker.note adds at most the record's own sequence and hash, and changes nothing
\* else.
LEMMA NotedIs ==
    ASSUME NEW r \in Streams, NEW e \in SignedEvent, NEW n \in Node
    PROVE  /\ Noted(r, n, e) \in Streams
           /\ Noted(r, n, e).position = r.position
           /\ Noted(r, n, e).failed = r.failed
           /\ Noted(r, n, e).malformed = r.malformed
           /\ Noted(r, n, e).alerts = r.alerts
           /\ Noted(r, n, e).seq \subseteq r.seq \cup {<<n, SeqOf[e.content], e.event_hash>>}
           /\ Noted(r, n, e).hashes \subseteq r.hashes \cup {<<n, e.event_hash>>}
  <1>1. e.event_hash \in Hash /\ SeqOf[e.content] \in Nat
    BY RecordType
  <1>2. CASE Full(r, n)
    BY <1>2 DEF Noted, Streams
  <1>3. CASE ~Full(r, n)
    <2> DEFINE m == SeqOf[e.content]
               ss == {x \in r.seq : x[1] # n \/ x[2] # m} \cup {<<n, m, e.event_hash>>}
               hh == r.hashes \cup {<<n, e.event_hash>>}
    <2>1. Noted(r, n, e) = [r EXCEPT !.seq = ss, !.hashes = hh]
      BY <1>3 DEF Noted
    <2>2. r.seq \subseteq Node \X Nat \X Hash /\ r.hashes \subseteq Node \X Hash
      BY DEF Streams
    <2>3. ss \subseteq Node \X Nat \X Hash /\ hh \subseteq Node \X Hash
      BY <1>1, <2>2
    <2>4. ss \subseteq r.seq \cup {<<n, m, e.event_hash>>}
      OBVIOUS
    <2>5. hh \subseteq r.hashes \cup {<<n, e.event_hash>>}
      OBVIOUS
    <2> HIDE DEF ss, hh
    <2>6. /\ Noted(r, n, e) \in Streams /\ Noted(r, n, e).seq = ss /\ Noted(r, n, e).hashes = hh
          /\ Noted(r, n, e).position = r.position /\ Noted(r, n, e).failed = r.failed
          /\ Noted(r, n, e).malformed = r.malformed /\ Noted(r, n, e).alerts = r.alerts
      BY <2>1, <2>3 DEF Streams
    <2> QED
      BY <2>4, <2>5, <2>6
  <1> QED
    BY <1>2, <1>3

\* What verify_stream finds wrong with a record is an alert.
LEMMA ErrorsAreAlerts ==
    ASSUME NEW r, NEW e, NEW n
    PROVE  Errors(r, n, e) \subseteq Alert
  <1>1. VerifyEvent(e) \subseteq Alert
    BY DEF VerifyEvent, CheckEventHash, CheckKey, CheckSignature, Alert
  <1>2. CheckChain(r.position[n], e) \subseteq Alert
    BY DEF CheckChain, Alert
  <1>3. NoteAlerts(r, n, e) \subseteq Alert
    BY DEF NoteAlerts, Alert
  <1> QED
    BY <1>1, <1>2, <1>3 DEF Errors

\* One turn of the loop, for a record.
RecordRead(r, n, e, q) ==
    /\ q.malformed = r.malformed
    /\ q.failed = IF Errors(r, n, e) = {} THEN r.failed ELSE r.failed + 1
    /\ q.alerts = r.alerts \cup Errors(r, n, e)
    /\ q.position = [r.position EXCEPT ![n] =
           IF SeqOf[e.content] = @.seq + 1
           THEN [seq |-> SeqOf[e.content], hash |-> e.content] ELSE @]
    /\ q.seq \subseteq r.seq \cup {<<n, SeqOf[e.content], e.event_hash>>}
    /\ q.hashes \subseteq r.hashes \cup {<<n, e.event_hash>>}

\* What reading one record makes of the state of verify_stream.
LEMMA ReadRecordIs ==
    ASSUME NEW r \in Streams, NEW e \in SignedEvent, NEW n, n = NodeOf[e.content], NEW q,
           q = ReadLine(r, e)
    PROVE  q \in Streams /\ RecordRead(r, n, e, q)
  <1>1. n \in Node /\ e # Torn /\ SeqOf[e.content] \in Nat /\ e.content \in Hash
    BY RecordType
  <1> DEFINE x == Noted(r, n, e)
             pos == [r.position EXCEPT ![n] =
                   IF SeqOf[e.content] = @.seq + 1
                   THEN [seq |-> SeqOf[e.content], hash |-> e.content] ELSE @]
             f == IF Errors(r, n, e) = {} THEN r.failed ELSE r.failed + 1
             al == r.alerts \cup Errors(r, n, e)
  <1>2. x \in Streams /\ x.position = r.position /\ x.failed = r.failed /\ x.alerts = r.alerts
        /\ x.malformed = r.malformed
    BY <1>1, NotedIs
  <1>3. r.position \in [Node -> ChainPosition] /\ r.failed \in Nat /\ r.alerts \subseteq Alert
    BY DEF Streams
  <1>4. pos \in [Node -> ChainPosition]
    BY <1>1, <1>3 DEF ChainPosition
  <1>5. f \in Nat /\ al \in SUBSET Alert
    BY <1>3, ErrorsAreAlerts
  <1>6. q = ReadRecord(r, n, e)
    BY <1>1 DEF ReadLine
  <1>7. q = [x EXCEPT !.position[n] = IF SeqOf[e.content] = NextSequence(@)
                                      THEN Advance(@, e) ELSE @,
                      !.failed = IF Errors(r, n, e) = {} THEN @ ELSE @ + 1,
                      !.alerts = @ \cup Errors(r, n, e)]
    BY <1>6 DEF ReadRecord, Errors
  <1>8. q = [x EXCEPT !.position = pos, !.failed = f, !.alerts = al]
    <2> HIDE DEF x
    <2> QED
      BY ONLY <1>2, <1>3, <1>7 DEF NextSequence, Advance, ComputeEventHash, Streams
  <1>9. x.seq \subseteq r.seq \cup {<<n, SeqOf[e.content], e.event_hash>>}
        /\ x.hashes \subseteq r.hashes \cup {<<n, e.event_hash>>}
    BY <1>1, NotedIs
  <1> HIDE DEF x, pos, f, al
  <1>10. /\ q \in Streams /\ q.malformed = x.malformed /\ q.failed = f /\ q.alerts = al
         /\ q.position = pos /\ q.seq = x.seq /\ q.hashes = x.hashes
    BY ONLY <1>2, <1>4, <1>5, <1>8 DEF Streams
  <1> QED
    BY ONLY <1>2, <1>9, <1>10 DEF pos, f, al, RecordRead

\* A line that does not parse counts as malformed and as failed.
LEMMA ReadTornIs ==
    ASSUME NEW r \in Streams, NEW q, q = ReadLine(r, Torn)
    PROVE  q \in Streams /\ q.malformed = r.malformed + 1 /\ q.failed = r.failed + 1
  <1>1. q = [r EXCEPT !.failed = @ + 1, !.malformed = @ + 1,
                      !.alerts = @ \cup {"pqc_malformed_evidence"}]
    BY DEF ReadLine
  <1>2. "pqc_malformed_evidence" \in Alert
    BY DEF Alert
  <1>3. r.failed \in Nat /\ r.malformed \in Nat /\ r.alerts \in SUBSET Alert
    BY DEF Streams
  <1>4. PICK f, m, al : f = r.failed + 1 /\ m = r.malformed + 1
                        /\ al = r.alerts \cup {"pqc_malformed_evidence"}
    OBVIOUS
  <1>5. f \in Nat /\ m \in Nat /\ al \in SUBSET Alert
    BY <1>2, <1>3, <1>4
  <1>6. q = [r EXCEPT !.failed = f, !.malformed = m, !.alerts = al]
    BY <1>1, <1>4
  <1>7. q \in Streams /\ q.failed = f /\ q.malformed = m
    BY ONLY <1>5, <1>6, r \in Streams DEF Streams
  <1> QED
    BY <1>4, <1>7

\* verify_stream starts with nothing seen and nothing counted.
LEMMA NewStreamType ==
    /\ NewStream \in Streams /\ NewStream.failed = 0 /\ NewStream.malformed = 0
    /\ NewStream.alerts = {} /\ NewStream.seq = {} /\ NewStream.hashes = {}
    /\ \A n \in Node : NewStream.position[n] = Start
  BY DEF NewStream, Streams, Start, ChainPosition

\* A log's lines are records or torn.
LEMMA TextAt ==
    ASSUME NEW s \in Text
    PROVE  Len(s) \in Nat /\ \A i \in 1..Len(s) : s[i] \in SignedEvent \/ s[i] = Torn
  BY DEF Text

\* The state of verify_stream has its type after every line.
LEMMA StreamType ==
    ASSUME NEW s \in Text
    PROVE  \A i \in 0..Len(s) : StreamAfter(s)[i] \in Streams
  <1> DEFINE S == {i \in Nat : StreamAfter(s)[i] \in Streams}
  <1>1. Len(s) \in Nat
    BY TextAt
  <1>2. 0 \in S
    BY <1>1, StreamAfterDef, NewStreamType
  <1>3. ASSUME NEW i \in 1..Len(s), i - 1 \in S PROVE i \in S
    <2>1. StreamAfter(s)[i] = ReadLine(StreamAfter(s)[i - 1], s[i])
      BY <1>1, StreamAfterDef
    <2>2. CASE s[i] = Torn
      BY <1>1, <1>3, <2>1, <2>2, ReadTornIs
    <2>3. CASE s[i] \in SignedEvent
      <3>1. PICK r, e, q : r = StreamAfter(s)[i - 1] /\ e = s[i] /\ q = StreamAfter(s)[i]
        OBVIOUS
      <3>2. r \in Streams /\ e \in SignedEvent /\ q = ReadLine(r, e)
        BY <1>3, <2>1, <2>3, <3>1
      <3>3. q \in Streams
        BY <3>2, ReadRecordIs
      <3> QED
        BY <3>1, <3>3
    <2> QED
      BY <2>2, <2>3, TextAt
  <1>4. \A i \in 0..Len(s) : i \in S
    <2> HIDE DEF S
    <2> QED
      BY <1>1, <1>2, <1>3, Upward
  <1> QED
    BY <1>4

----------------------------------------------------------------------------
(* A stream in which verify_stream finds nothing wrong is a genuine chain, *)
(* and the other way round.                                                *)

Faults == SignatureAlerts \cup ChainAlerts

Quiet(r) == r.malformed = 0 /\ r.alerts \cap Faults = {}

Clean(r) == r.failed = 0 => r.malformed = 0 /\ r.alerts = {}

\* No failed record: nothing malformed, and no alert.
LEMMA CleanStream ==
    ASSUME NEW s \in Text
    PROVE  Clean(VerifyStream(s))
  <1> DEFINE S == {i \in Nat : Clean(StreamAfter(s)[i])}
  <1>1. Len(s) \in Nat
    BY TextAt
  <1>2. 0 \in S
    BY <1>1, StreamAfterDef, NewStreamType DEF Clean
  <1>3. ASSUME NEW i \in 1..Len(s), i - 1 \in S PROVE i \in S
    <2>1. PICK r, e, q : r = StreamAfter(s)[i - 1] /\ e = s[i] /\ q = StreamAfter(s)[i]
      OBVIOUS
    <2>2. q = ReadLine(r, e)
      BY <1>1, <2>1, StreamAfterDef
    <2>3. r \in Streams /\ Clean(r)
      BY <1>1, <1>3, <2>1, StreamType
    <2>4. r.failed \in Nat
      BY <2>3 DEF Streams
    <2>5. CASE e = Torn
      <3>1. q.failed = r.failed + 1
        BY <2>2, <2>3, <2>5, ReadTornIs
      <3>2. Clean(q)
        BY <2>4, <3>1 DEF Clean
      <3> QED
        BY <2>1, <3>2
    <2>6. CASE e \in SignedEvent
      <3>1. PICK n : n = NodeOf[e.content]
        OBVIOUS
      <3>2. /\ q.malformed = r.malformed
            /\ q.failed = IF Errors(r, n, e) = {} THEN r.failed ELSE r.failed + 1
            /\ q.alerts = r.alerts \cup Errors(r, n, e)
        <4>1. RecordRead(r, n, e, q)
          BY <2>2, <2>3, <2>6, <3>1, ReadRecordIs, Zenon
        <4> QED
          BY <4>1 DEF RecordRead
      <3>3. Clean(q)
        BY <2>3, <2>4, <3>2 DEF Clean
      <3> QED
        BY <2>1, <3>3
    <2> QED
      BY <2>1, <2>5, <2>6, TextAt
  <1>4. \A i \in 0..Len(s) : i \in S
    <2> HIDE DEF S
    <2> QED
      BY <1>1, <1>2, <1>3, Upward
  <1> QED
    BY <1>1, <1>4 DEF VerifyStream

\* A quiet end: every line was a record, and the checks of each found nothing.
LEMMA QuietLines ==
    ASSUME NEW s \in Text, Quiet(VerifyStream(s))
    PROVE  \A i \in 1..Len(s) :
              /\ s[i] \in SignedEvent
              /\ Errors(StreamAfter(s)[i - 1], NodeOf[s[i].content], s[i]) \cap Faults = {}
  <1> DEFINE S == {i \in Nat : Quiet(StreamAfter(s)[i])}
  <1>1. Len(s) \in Nat
    BY TextAt
  <1>2. Len(s) \in S
    BY <1>1 DEF VerifyStream
  <1>3. ASSUME NEW i \in 1..Len(s), Quiet(StreamAfter(s)[i])
        PROVE  /\ Quiet(StreamAfter(s)[i - 1]) /\ s[i] \in SignedEvent
               /\ Errors(StreamAfter(s)[i - 1], NodeOf[s[i].content], s[i]) \cap Faults = {}
    <2>1. PICK r, e, q : r = StreamAfter(s)[i - 1] /\ e = s[i] /\ q = StreamAfter(s)[i]
      OBVIOUS
    <2>2. q = ReadLine(r, e)
      BY <1>1, <2>1, StreamAfterDef
    <2>3. r \in Streams /\ Quiet(q)
      BY <1>1, <1>3, <2>1, StreamType
    <2>4. r.malformed \in Nat
      BY <2>3 DEF Streams
    <2>5. e # Torn
      <3>1. SUFFICES ASSUME e = Torn PROVE FALSE
        OBVIOUS
      <3>2. q.malformed = r.malformed + 1
        BY <2>2, <2>3, <3>1, ReadTornIs
      <3> QED
        BY <2>3, <2>4, <3>2 DEF Quiet
    <2>6. e \in SignedEvent
      BY <2>1, <2>5, TextAt
    <2>7. PICK n : n = NodeOf[e.content]
      OBVIOUS
    <2>8. q.malformed = r.malformed /\ q.alerts = r.alerts \cup Errors(r, n, e)
      <3>1. RecordRead(r, n, e, q)
        BY <2>2, <2>3, <2>6, <2>7, ReadRecordIs, Zenon
      <3> QED
        BY <3>1 DEF RecordRead
    <2>9. Quiet(r) /\ Errors(r, n, e) \cap Faults = {}
      BY <2>3, <2>8 DEF Quiet
    <2> QED
      BY <2>1, <2>6, <2>7, <2>9
  <1>4. \A i \in 0..Len(s) : i \in S
    <2>1. \A i \in 1..Len(s) : i \in S => i - 1 \in S
      BY <1>1, <1>3
    <2> HIDE DEF S
    <2> QED
      BY <1>1, <1>2, <2>1, Downward
  <1> QED
    BY <1>3, <1>4

\* What the record after position p must be.
Follows(p, n, e) ==
    /\ e.key = "usable" /\ e.sig /\ e.event_hash = e.content
    /\ SeqOf[e.content] = p.seq + 1
    /\ PrevOf[e.content] = IF p.seq = 0 THEN Genesis[n] ELSE p.hash

\* A record without a chain alert follows the node's cursor, sequence and hash.
LEMMA NoFaultFollows ==
    ASSUME NEW r, NEW e \in SignedEvent, NEW n, n = NodeOf[e.content],
           NEW p \in ChainPosition, p = r.position[n], p.seq # 0 => p.hash # NoHash,
           Errors(r, n, e) \cap Faults = {}
    PROVE  Follows(p, n, e)
  <1>1. n \in Node /\ SeqOf[e.content] \in Nat \ {0}
    BY RecordType
  <1>2. p.seq \in Nat
    BY DEF ChainPosition
  <1>3. VerifyEvent(e) \cap Faults = {} /\ CheckChain(p, e) \cap Faults = {}
    BY DEF Errors
  <1>4. e.key \in KeyStatus /\ e.sig \in BOOLEAN
    BY DEF SignedEvent
  <1>5. e.key = "usable" /\ e.sig /\ e.event_hash = e.content
    BY <1>3, <1>4 DEF VerifyEvent, CheckEventHash, CheckKey, CheckSignature, ComputeEventHash,
                      Faults, SignatureAlerts, ChainAlerts, KeyStatus
  <1>6. PICK m : m = SeqOf[e.content]
    OBVIOUS
  <1>7. PICK x : x = IF m = 1 THEN Genesis[n] ELSE p.hash
    OBVIOUS
  <1>8. CheckChain(p, e) =
            {a \in {"pqc_duplicate_sequence"} : m < p.seq + 1 /\ m <= p.seq}
            \cup {a \in {"pqc_sequence_gap"} : m > p.seq + 1}
            \cup {a \in {"pqc_chain_reset"} : m = 1 /\ p.seq > 0}
            \cup {a \in {"pqc_previous_hash_mismatch"} : x # NoHash /\ PrevOf[e.content] # x}
    BY <1>6, <1>7, Zenon DEF CheckChain, NextSequence
  <1>9. "pqc_duplicate_sequence" \in Faults /\ "pqc_sequence_gap" \in Faults
        /\ "pqc_previous_hash_mismatch" \in Faults
    BY DEF Faults, ChainAlerts
  <1>10. /\ ~(m < p.seq + 1 /\ m <= p.seq) /\ ~(m > p.seq + 1)
         /\ ~(x # NoHash /\ PrevOf[e.content] # x)
    BY ONLY <1>3, <1>8, <1>9
  <1>11. m = p.seq + 1
    BY <1>1, <1>2, <1>6, <1>10
  <1>12. x = IF p.seq = 0 THEN Genesis[n] ELSE p.hash
    BY <1>2, <1>7, <1>11
  <1>13. x # NoHash
    <2>1. Genesis[n] # NoHash
      BY <1>1, ContentAssumption DEF Hash
    <2> QED
      BY <1>12, <2>1
  <1> QED
    BY <1>5, <1>6, <1>10, <1>11, <1>12, <1>13 DEF Follows

\* Where the chain of p stands after its first i records.
PositionAt(p, i) == IF i = 0 THEN Start ELSE [seq |-> i, hash |-> p[i].content]

\* The chain from the position, record by record.
Chained(n, p) == \A i \in 1..Len(p) : /\ p[i] \in SignedEvent /\ NodeOf[p[i].content] = n
                                      /\ Follows(PositionAt(p, i - 1), n, p[i])

\* The cursor behind i records of a chain: its sequence is i, its hash the last record's.
LEMMA PositionType ==
    ASSUME NEW p, Len(p) \in Nat, NEW i \in 0..Len(p),
           \A k \in 1..Len(p) : p[k] \in SignedEvent
    PROVE  /\ PositionAt(p, i) \in ChainPosition
           /\ PositionAt(p, i).seq = i
           /\ i # 0 => PositionAt(p, i).hash # NoHash /\ PositionAt(p, i).hash = p[i].content
  <1>1. CASE i = 0
    BY <1>1 DEF PositionAt, Start, ChainPosition
  <1>2. CASE i # 0
    <2>1. i \in 1..Len(p) /\ i \in Nat
      BY <1>2
    <2>2. p[i].content \in Hash
      BY <2>1, RecordType
    <2> QED
      BY <1>2, <2>1, <2>2, ContentAssumption DEF PositionAt, ChainPosition
  <1> QED
    BY <1>1, <1>2

\* A log whose records follow each other's positions is a genuine chain, and conversely.
LEMMA ChainedGenuine ==
    ASSUME NEW p \in Text, NEW n \in Node
    PROVE  Chained(n, p) <=> GenuineChain(n, p)
  <1>1. Len(p) \in Nat
    BY TextAt
  <1>2. ASSUME Chained(n, p) PROVE GenuineChain(n, p)
    <2>1. SUFFICES ASSUME NEW i \in 1..Len(p)
                   PROVE  /\ p[i] # Torn /\ p[i].key = "usable" /\ p[i].sig
                          /\ p[i].event_hash = p[i].content
                          /\ NodeOf[p[i].content] = n /\ SeqOf[p[i].content] = i
                          /\ PrevOf[p[i].content] = IF i = 1 THEN Genesis[n] ELSE p[i - 1].content
      BY Zenon DEF GenuineChain
    <2>2. \A k \in 1..Len(p) : p[k] \in SignedEvent
      BY <1>2 DEF Chained
    <2>3. i - 1 \in 0..Len(p) /\ (i - 1) + 1 = i /\ i \in Nat
      BY <1>1
    <2>4. PICK q : q = PositionAt(p, i - 1)
      OBVIOUS
    <2>5. q.seq = i - 1 /\ (i - 1 # 0 => q.hash = p[i - 1].content)
      BY <1>1, <2>2, <2>3, <2>4, PositionType
    <2>6. PICK e : e = p[i]
      OBVIOUS
    <2>7. Follows(q, n, e) /\ NodeOf[e.content] = n /\ e \in SignedEvent
      BY <1>2, <2>4, <2>6 DEF Chained
    <2>8. /\ e.key = "usable" /\ e.sig /\ e.event_hash = e.content /\ SeqOf[e.content] = i
          /\ PrevOf[e.content] = IF i = 1 THEN Genesis[n] ELSE p[i - 1].content
      BY <2>3, <2>5, <2>7 DEF Follows
    <2>9. e # Torn
      BY <2>7, RecordType
    <2> QED
      BY <2>6, <2>7, <2>8, <2>9
  <1>3. ASSUME GenuineChain(n, p) PROVE Chained(n, p)
    <2>1. \A k \in 1..Len(p) : p[k] \in SignedEvent
      BY <1>3, TextAt DEF GenuineChain
    <2>2. ASSUME NEW i \in 1..Len(p)
          PROVE  NodeOf[p[i].content] = n /\ Follows(PositionAt(p, i - 1), n, p[i])
      <3>1. i - 1 \in 0..Len(p) /\ (i - 1) + 1 = i /\ i \in Nat
        BY <1>1
      <3>2. PICK q : q = PositionAt(p, i - 1)
        OBVIOUS
      <3>3. q.seq = i - 1 /\ (i - 1 # 0 => q.hash = p[i - 1].content)
        BY <1>1, <2>1, <3>1, <3>2, PositionType
      <3>4. PICK e : e = p[i]
        OBVIOUS
      <3>5. /\ e.key = "usable" /\ e.sig /\ e.event_hash = e.content
            /\ NodeOf[e.content] = n /\ SeqOf[e.content] = i
            /\ PrevOf[e.content] = IF i = 1 THEN Genesis[n] ELSE p[i - 1].content
        BY <1>3, <3>4 DEF GenuineChain
      <3>6. Follows(q, n, e)
        BY <3>1, <3>3, <3>5 DEF Follows
      <3> QED
        BY <3>2, <3>4, <3>5, <3>6
    <2> QED
      BY <2>1, <2>2 DEF Chained
  <1> QED
    BY <1>2, <1>3

\* The tracker of the node goes from one record's position to the next.
LEMMA TrackerMoves ==
    ASSUME NEW r \in Streams, NEW e \in SignedEvent, NEW n, n = NodeOf[e.content], NEW q,
           RecordRead(r, n, e, q), SeqOf[e.content] = r.position[n].seq + 1
    PROVE  q.position[n] = [seq |-> SeqOf[e.content], hash |-> e.content]
  <1>1. n \in Node
    BY RecordType
  <1>2. r.position \in [Node -> ChainPosition]
    BY DEF Streams
  <1>3. PICK f, g, m, c : f = r.position /\ g = q.position /\ m = SeqOf[e.content] /\ c = e.content
    OBVIOUS
  <1>4. g = [f EXCEPT ![n] = IF m = @.seq + 1 THEN [seq |-> m, hash |-> c] ELSE @]
    BY <1>3 DEF RecordRead
  <1> QED
    BY <1>1, <1>2, <1>3, <1>4

\* Records of n at the start of a quiet stream are a chain of n.
LEMMA QuietChained ==
    ASSUME NEW s \in Text, Quiet(VerifyStream(s)), NEW p \in Text, Len(p) <= Len(s), NEW n \in Node,
           \A i \in 1..Len(p) : p[i] = s[i] /\ NodeOf[p[i].content] = n
    PROVE  Chained(n, p)
  <1>1. Len(p) \in Nat /\ Len(s) \in Nat
    BY TextAt
  <1>2. ASSUME NEW i \in 1..Len(p) PROVE i \in 1..Len(s) /\ p[i] \in SignedEvent
    <2>1. i \in 1..Len(s)
      BY <1>1
    <2> QED
      BY <2>1, QuietLines
  <1> DEFINE S == {i \in Nat : i <= Len(p) => StreamAfter(s)[i].position[n] = PositionAt(p, i)}
  <1>3. 0 \in S
    <2>1. StreamAfter(s)[0].position[n] = Start
      BY <1>1, StreamAfterDef, NewStreamType
    <2> QED
      BY <2>1 DEF PositionAt
  <1>4. ASSUME NEW i \in 1..Len(p), i - 1 \in S
        PROVE  i \in S /\ Follows(PositionAt(p, i - 1), n, p[i])
    <2>1. PICK r, e, q, o : r = StreamAfter(s)[i - 1] /\ e = s[i] /\ q = StreamAfter(s)[i]
                            /\ o = PositionAt(p, i - 1)
      OBVIOUS
    <2>2. i \in 1..Len(s) /\ i - 1 \in 0..Len(s) /\ i - 1 \in 0..Len(p) /\ i - 1 \in Nat
          /\ i \in Nat /\ i # 0 /\ (i - 1) + 1 = i /\ i - 1 <= Len(p)
      BY <1>1
    <2>3. q = ReadLine(r, e) /\ r \in Streams
      BY <1>1, <2>1, <2>2, StreamAfterDef, StreamType
    <2>4. e \in SignedEvent /\ e = p[i] /\ n = NodeOf[e.content]
      BY <1>2, <2>1
    <2>5. Errors(r, n, e) \cap Faults = {}
      BY <2>1, <2>2, <2>4, QuietLines
    <2>6. r.position[n] = o
      BY <1>4, <2>1, <2>2
    <2>7. o \in ChainPosition /\ o.seq = i - 1 /\ (i - 1 # 0 => o.hash # NoHash)
      BY <1>1, <1>2, <2>1, <2>2, PositionType
    <2>8. Follows(o, n, e)
      BY <2>4, <2>5, <2>6, <2>7, NoFaultFollows, ZenonT(60)
    <2>9. SeqOf[e.content] = i /\ SeqOf[e.content] = r.position[n].seq + 1
      BY <2>2, <2>6, <2>7, <2>8 DEF Follows
    <2>10. RecordRead(r, n, e, q)
      BY <2>3, <2>4, ReadRecordIs, Zenon
    <2>11. q.position[n] = [seq |-> i, hash |-> e.content]
      <3>1. q.position[n] = [seq |-> SeqOf[e.content], hash |-> e.content]
        <4>1. /\ r \in Streams /\ e \in SignedEvent /\ n = NodeOf[e.content]
              /\ SeqOf[e.content] = r.position[n].seq + 1
          BY ONLY <2>3, <2>4, <2>9, Zenon
        <4> QED
          BY ONLY <2>10, <4>1, TrackerMoves, Zenon
      <3> QED
        BY ONLY <2>9, <3>1
    <2>12. PositionAt(p, i) = [seq |-> i, hash |-> p[i].content]
      BY <2>2 DEF PositionAt
    <2> QED
      BY <2>1, <2>2, <2>4, <2>8, <2>11, <2>12
  <1>5. \A i \in 0..Len(p) : i \in S
    <2> HIDE DEF S
    <2> QED
      BY <1>1, <1>3, <1>4, Upward
  <1>6. ASSUME NEW i \in 1..Len(p) PROVE Follows(PositionAt(p, i - 1), n, p[i])
    <2>1. i - 1 \in 0..Len(p)
      BY <1>1
    <2>2. i - 1 \in S
      BY <1>5, <2>1
    <2> HIDE DEF S
    <2> QED
      BY <1>4, <2>2
  <1> QED
    BY <1>2, <1>6, Zenon DEF Chained

\* The trackers after i records of a chain of n: quiet, at the last record, and
\* nothing tracked has a later sequence.
Tracked(r, n, o, i) ==
    /\ Quiet(r) /\ r.position[n] = o
    /\ \A x \in r.seq : x[2] <= i
    /\ \A x \in r.hashes : x[2] \in Content /\ SeqOf[x[2]] <= i

\* The next record of the chain raises no alert that counts.
LEMMA FollowsNoFault ==
    ASSUME NEW r \in Streams, NEW e \in SignedEvent, NEW n, n = NodeOf[e.content],
           NEW i \in Nat, NEW o \in ChainPosition, o.seq = i, Tracked(r, n, o, i),
           Follows(o, n, e)
    PROVE  Errors(r, n, e) \cap Faults = {}
  <1>1. n \in Node /\ SeqOf[e.content] \in Nat \ {0} /\ e.content \in Content
    BY RecordType
  <1>2. VerifyEvent(e) = {}
    BY DEF Follows, VerifyEvent, CheckEventHash, CheckKey, CheckSignature, ComputeEventHash
  <1>3. PICK m : m = SeqOf[e.content]
    OBVIOUS
  <1>4. m = i + 1
    BY <1>3 DEF Follows
  <1>5. PICK x : x = IF m = 1 THEN Genesis[n] ELSE o.hash
    OBVIOUS
  <1>6. PrevOf[e.content] = x
    BY <1>4, <1>5 DEF Follows
  <1>7. CheckChain(o, e) =
            {a \in {"pqc_duplicate_sequence"} : m < o.seq + 1 /\ m <= o.seq}
            \cup {a \in {"pqc_sequence_gap"} : m > o.seq + 1}
            \cup {a \in {"pqc_chain_reset"} : m = 1 /\ o.seq > 0}
            \cup {a \in {"pqc_previous_hash_mismatch"} : x # NoHash /\ PrevOf[e.content] # x}
    BY <1>3, <1>5, Zenon DEF CheckChain, NextSequence
  <1>8. ~(m < o.seq + 1 /\ m <= o.seq) /\ ~(m > o.seq + 1) /\ ~(m = 1 /\ o.seq > 0)
    BY <1>4
  <1>9. CheckChain(o, e) = {}
    BY ONLY <1>6, <1>7, <1>8
  <1>10. {h \in Hash : <<n, m, h>> \in r.seq} = {}
    <2>1. SUFFICES ASSUME NEW h \in Hash, <<n, m, h>> \in r.seq PROVE FALSE
      OBVIOUS
    <2>2. <<n, m, h>>[2] <= i
      BY <2>1 DEF Tracked
    <2> QED
      BY <1>4, <2>2
  <1>11. <<n, e.event_hash>> \notin r.hashes
    <2>1. SUFFICES ASSUME <<n, e.event_hash>> \in r.hashes PROVE FALSE
      OBVIOUS
    <2>2. SeqOf[<<n, e.event_hash>>[2]] <= i
      BY <2>1 DEF Tracked
    <2>3. e.event_hash = e.content
      BY DEF Follows
    <2>4. <<n, e.event_hash>>[2] = e.content
      BY <2>3
    <2>5. m <= i
      BY <1>3, <2>2, <2>4
    <2> QED
      BY <1>4, <2>5
  <1>12. NoteAlerts(r, n, e) \subseteq {"pqc_malformed_evidence"}
    <2>1. PICK old : old = {h \in Hash : <<n, m, h>> \in r.seq}
      OBVIOUS
    <2>2. NoteAlerts(r, n, e) =
            {a \in {"pqc_replayed_event"} :
                e.event_hash \in old \/ (old = {} /\ <<n, e.event_hash>> \in r.hashes)}
            \cup {a \in {"pqc_duplicate_sequence"} : \E h \in old : h # e.event_hash}
            \cup {a \in {"pqc_malformed_evidence"} : Full(r, n) /\ n \notin r.spent}
      BY <1>3, <2>1, Zenon DEF NoteAlerts
    <2>3. old = {}
      BY <1>10, <2>1
    <2> QED
      BY ONLY <1>11, <2>2, <2>3
  <1>13. "pqc_malformed_evidence" \notin Faults
    BY DEF Faults, SignatureAlerts, ChainAlerts
  <1>14. r.position[n] = o
    BY DEF Tracked
  <1> QED
    BY <1>2, <1>9, <1>12, <1>13, <1>14 DEF Errors

\* A chain of n is a quiet stream.
LEMMA ChainedQuiet ==
    ASSUME NEW s \in Text, NEW n \in Node, Chained(n, s)
    PROVE  Quiet(VerifyStream(s))
  <1>1. Len(s) \in Nat
    BY TextAt
  <1>2. \A i \in 1..Len(s) : s[i] \in SignedEvent
    BY DEF Chained
  <1> DEFINE S == {i \in Nat : i <= Len(s) => Tracked(StreamAfter(s)[i], n, PositionAt(s, i), i)}
  <1>3. 0 \in S
    <2>1. PICK r : r = StreamAfter(s)[0]
      OBVIOUS
    <2>2. r = NewStream
      BY <1>1, <2>1, StreamAfterDef
    <2>3. r.position[n] = Start /\ r.alerts = {} /\ r.malformed = 0 /\ r.seq = {} /\ r.hashes = {}
      BY <2>2, NewStreamType
    <2>4. PositionAt(s, 0) = Start
      BY DEF PositionAt
    <2>5. Tracked(r, n, PositionAt(s, 0), 0)
      BY <2>3, <2>4 DEF Tracked, Quiet
    <2> QED
      BY <2>1, <2>5
  <1>4. ASSUME NEW i \in 1..Len(s), i - 1 \in S PROVE i \in S
    <2>1. PICK r, e, q, o : r = StreamAfter(s)[i - 1] /\ e = s[i] /\ q = StreamAfter(s)[i]
                            /\ o = PositionAt(s, i - 1)
      OBVIOUS
    <2>2. i - 1 \in 0..Len(s) /\ i - 1 \in Nat /\ i \in Nat /\ i # 0 /\ (i - 1) + 1 = i
          /\ i - 1 <= Len(s)
      BY <1>1
    <2>3. q = ReadLine(r, e) /\ r \in Streams
      BY <1>1, <2>1, <2>2, StreamAfterDef, StreamType
    <2>4. e \in SignedEvent /\ n = NodeOf[e.content] /\ Follows(o, n, e)
      BY <2>1 DEF Chained
    <2>5. Tracked(r, n, o, i - 1)
      BY <1>4, <2>1, <2>2
    <2>6. o \in ChainPosition /\ o.seq = i - 1
      BY <1>1, <1>2, <2>1, <2>2, PositionType
    <2>7. Errors(r, n, e) \cap Faults = {}
      BY <2>2, <2>3, <2>4, <2>5, <2>6, FollowsNoFault
    <2>8. RecordRead(r, n, e, q)
      BY <2>3, <2>4, ReadRecordIs, Zenon
    <2>9. SeqOf[e.content] = i /\ SeqOf[e.content] = r.position[n].seq + 1
          /\ e.event_hash = e.content /\ e.content \in Content
      BY <2>2, <2>4, <2>5, <2>6, RecordType DEF Follows, Tracked
    <2>10. q.position[n] = [seq |-> i, hash |-> e.content]
      <3>1. q.position[n] = [seq |-> SeqOf[e.content], hash |-> e.content]
        BY ONLY <2>3, <2>4, <2>8, <2>9, TrackerMoves, Zenon
      <3> QED
        BY ONLY <2>9, <3>1
    <2>11. PositionAt(s, i) = [seq |-> i, hash |-> e.content]
      BY <2>1, <2>2 DEF PositionAt
    <2>12. Quiet(q)
      BY <2>5, <2>7, <2>8 DEF Tracked, Quiet, RecordRead
    <2>13. q.seq \subseteq r.seq \cup {<<n, i, e.content>>}
           /\ q.hashes \subseteq r.hashes \cup {<<n, e.content>>}
      BY <2>8, <2>9 DEF RecordRead
    <2>14. r.seq \subseteq Node \X Nat \X Hash
      BY <2>3 DEF Streams
    <2>15. ASSUME NEW x \in q.seq PROVE x[2] <= i
      <3>1. CASE x = <<n, i, e.content>>
        BY <2>2, <3>1
      <3>2. CASE x \in r.seq
        <4>1. x[2] \in Nat
          BY <2>14, <3>2
        <4>2. x[2] <= i - 1
          BY <2>5, <3>2 DEF Tracked
        <4> QED
          BY <2>2, <4>1, <4>2
      <3> QED
        BY <2>13, <3>1, <3>2
    <2>16. ASSUME NEW x \in q.hashes PROVE x[2] \in Content /\ SeqOf[x[2]] <= i
      <3>1. CASE x = <<n, e.content>>
        BY <2>2, <2>9, <3>1
      <3>2. CASE x \in r.hashes
        <4>1. x[2] \in Content /\ SeqOf[x[2]] <= i - 1
          BY <2>5, <3>2 DEF Tracked
        <4>2. SeqOf[x[2]] \in Nat
          BY <4>1, ContentAssumption
        <4> QED
          BY <2>2, <4>1, <4>2
      <3> QED
        BY <2>13, <3>1, <3>2
    <2>17. Tracked(q, n, PositionAt(s, i), i)
      BY <2>10, <2>11, <2>12, <2>15, <2>16, Zenon DEF Tracked
    <2> QED
      BY <2>1, <2>2, <2>17
  <1>5. \A i \in 0..Len(s) : i \in S
    <2> HIDE DEF S
    <2> QED
      BY <1>1, <1>3, <1>4, Upward
  <1>6. Len(s) \in S
    BY <1>1, <1>5
  <1>7. Tracked(StreamAfter(s)[Len(s)], n, PositionAt(s, Len(s)), Len(s))
    BY <1>1, <1>6
  <1> QED
    BY <1>7, Zenon DEF Tracked, VerifyStream

----------------------------------------------------------------------------
(* The first pass, and what the log may have become since. *)

Summaries == [count : Nat, first : Nat, last : Nat, final : Hash \cup {NoHash},
              nodes : SUBSET Node, unparsable : BOOLEAN]

SeqsOf(s) == {SeqOf[s[i].content] : i \in Parsed(s)}

\* The lines that parse are lines of the log, and records.
LEMMA ParsedAt ==
    ASSUME NEW s \in Text
    PROVE  /\ Parsed(s) \subseteq 1..Len(s)
           /\ \A i \in Parsed(s) :
                 /\ i \in Nat /\ i <= Len(s) /\ s[i] \in SignedEvent /\ s[i].event_hash \in Hash
                 /\ NodeOf[s[i].content] \in Node /\ SeqOf[s[i].content] \in Nat
  <1>1. Parsed(s) \subseteq 1..Len(s)
    BY DEF Parsed
  <1>2. Len(s) \in Nat
    BY TextAt
  <1>3. ASSUME NEW i \in Parsed(s)
        PROVE  /\ i \in Nat /\ i <= Len(s) /\ s[i] \in SignedEvent /\ s[i].event_hash \in Hash
               /\ NodeOf[s[i].content] \in Node /\ SeqOf[s[i].content] \in Nat
    <2>1. i \in 1..Len(s) /\ s[i] # Torn
      BY DEF Parsed
    <2>2. s[i] \in SignedEvent
      BY <2>1, TextAt
    <2> QED
      BY <1>2, <2>1, <2>2, RecordType
  <1> QED
    BY <1>1, <1>3

\* The sequence numbers of a log have an upper bound, by induction over its lines.
LEMMA SeqsBounded ==
    ASSUME NEW s \in Text
    PROVE  \E b \in Nat : \A i \in Parsed(s) : SeqOf[s[i].content] <= b
  <1> DEFINE Bound(k) == \E b \in Nat : \A i \in Parsed(s) : i <= k => SeqOf[s[i].content] <= b
             S == {k \in Nat : Bound(k)}
  <1>1. Len(s) \in Nat
    BY TextAt
  <1>2. 0 \in S
    <2>1. \A i \in Parsed(s) : ~(i <= 0)
      BY DEF Parsed
    <2>2. \A i \in Parsed(s) : i <= 0 => SeqOf[s[i].content] <= 0
      BY <2>1
    <2> QED
      BY <2>2
  <1>3. ASSUME NEW k \in 1..Len(s), k - 1 \in S PROVE k \in S
    <2>1. PICK b \in Nat : \A i \in Parsed(s) : i <= k - 1 => SeqOf[s[i].content] <= b
      BY <1>3
    <2>2. PICK c \in Nat : k \in Parsed(s) => SeqOf[s[k].content] <= c
      <3>1. CASE k \in Parsed(s)
        <4>1. PICK c : c = SeqOf[s[k].content]
          OBVIOUS
        <4>2. c \in Nat /\ c <= c
          BY <3>1, <4>1, ParsedAt
        <4> QED
          BY <4>1, <4>2
      <3> QED
        BY <3>1
    <2>3. ASSUME NEW i \in Parsed(s), i <= k PROVE SeqOf[s[i].content] <= b + c
      <3>1. i \in Nat /\ SeqOf[s[i].content] \in Nat
        BY ParsedAt
      <3>2. CASE i = k
        <4>1. PICK m : m = SeqOf[s[i].content]
          OBVIOUS
        <4>2. m <= c /\ m \in Nat
          BY <2>2, <3>1, <3>2, <4>1
        <4> QED
          BY <4>1, <4>2
      <3>3. CASE i # k
        <4>1. i <= k - 1
          BY <1>1, <2>3, <3>1, <3>3
        <4>2. PICK m : m = SeqOf[s[i].content]
          OBVIOUS
        <4>3. m <= b /\ m \in Nat
          BY <2>1, <3>1, <4>1, <4>2
        <4> QED
          BY <4>2, <4>3
      <3> QED
        BY <3>2, <3>3
    <2>4. b + c \in Nat
      OBVIOUS
    <2>5. Bound(k)
      BY <2>3, <2>4
    <2> QED
      BY <1>1, <2>5
  <1>4. \A k \in 0..Len(s) : k \in S
    <2> HIDE DEF S
    <2> QED
      BY <1>1, <1>2, <1>3, Upward
  <1>5. PICK b \in Nat : \A i \in Parsed(s) : i <= Len(s) => SeqOf[s[i].content] <= b
    BY <1>1, <1>4
  <1> QED
    BY <1>5, ParsedAt

\* So a log with a record has a largest sequence number.
LEMMA MaxSeq ==
    ASSUME NEW s \in Text, Parsed(s) # {}
    PROVE  /\ Max(SeqsOf(s)) \in SeqsOf(s) /\ \A m \in SeqsOf(s) : m <= Max(SeqsOf(s))
           /\ SeqsOf(s) \subseteq Nat /\ SeqsOf(s) # {}
  <1>1. PICK b \in Nat : \A i \in Parsed(s) : SeqOf[s[i].content] <= b
    BY SeqsBounded
  <1>2. SeqsOf(s) \subseteq Nat /\ SeqsOf(s) # {} /\ \A m \in SeqsOf(s) : m <= b
    BY <1>1, ParsedAt DEF SeqsOf
  <1> QED
    BY <1>2, MaxIs

\* A log with a record has a last one.
LEMMA LastParsed ==
    ASSUME NEW s \in Text, Parsed(s) # {}
    PROVE  Max(Parsed(s)) \in Parsed(s) /\ \A i \in Parsed(s) : i <= Max(Parsed(s))
  <1>1. Len(s) \in Nat
    BY TextAt
  <1>2. Parsed(s) \subseteq Nat /\ \A i \in Parsed(s) : i <= Len(s)
    BY ParsedAt
  <1> QED
    BY <1>1, <1>2, MaxIs

\* The fields of summarise_evidence.
LEMMA SummaryIs ==
    ASSUME NEW s
    PROVE  /\ Summary(s).count = Len(s)
           /\ Summary(s).first = IF Parsed(s) = {} THEN 0 ELSE Min(SeqsOf(s))
           /\ Summary(s).last = IF Parsed(s) = {} THEN 0 ELSE Max(SeqsOf(s))
           /\ Summary(s).final = IF Parsed(s) = {} THEN NoHash ELSE s[Max(Parsed(s))].event_hash
           /\ Summary(s).nodes = {NodeOf[s[i].content] : i \in Parsed(s)}
           /\ Summary(s).unparsable = (Parsed(s) # 1..Len(s))
  BY DEF Summary, SeqsOf

\* The summary of a log has its type.
LEMMA SummaryType ==
    ASSUME NEW s \in Text
    PROVE  Summary(s) \in Summaries
  <1> DEFINE f == IF Parsed(s) = {} THEN 0 ELSE Min(SeqsOf(s))
             l == IF Parsed(s) = {} THEN 0 ELSE Max(SeqsOf(s))
             h == IF Parsed(s) = {} THEN NoHash ELSE s[Max(Parsed(s))].event_hash
             o == {NodeOf[s[i].content] : i \in Parsed(s)}
  <1>1. Len(s) \in Nat
    BY TextAt
  <1>2. f \in Nat /\ l \in Nat
    BY MaxSeq, MinIs
  <1>3. h \in Hash \cup {NoHash}
    BY LastParsed, ParsedAt
  <1>4. o \in SUBSET Node
    BY ParsedAt
  <1>5. Summary(s) = [count |-> Len(s), first |-> f, last |-> l, final |-> h, nodes |-> o,
                      unparsable |-> Parsed(s) # 1..Len(s)]
    BY DEF Summary, SeqsOf
  <1>6. (Parsed(s) # 1..Len(s)) \in BOOLEAN
    OBVIOUS
  <1> HIDE DEF f, l, h, o
  <1> QED
    BY <1>1, <1>2, <1>3, <1>4, <1>5, <1>6 DEF Summaries

\* The lines of l are the first lines of s.
Extends(l, s) == Len(l) <= Len(s) /\ \A i \in 1..Len(l) : s[i] = l[i]

\* The lines of p but for the last one are the first lines of s: p is what the log once
\* showed, and only its last line may have been rolled back since.
Kept(p, s) == Len(p) <= Len(s) + 1 /\ \A i \in 1..Len(p) : i < Len(p) => s[i] = p[i]

ButLast(p) == SubSeq(p, 1, Len(p) - 1)

\* What all the lines but the last are.
LEMMA ButLastIs ==
    ASSUME NEW p \in Text
    PROVE  /\ ButLast(p) \in Text /\ Len(ButLast(p)) = IF Len(p) = 0 THEN 0 ELSE Len(p) - 1
           /\ \A i \in 1..Len(ButLast(p)) : ButLast(p)[i] = p[i] /\ i \in 1..Len(p) /\ i < Len(p)
  <1>1. Len(p) \in Nat
    BY TextAt
  <1>2. CASE Len(p) = 0
    <2>1. ButLast(p) = <<>>
      BY <1>2 DEF ButLast, Text
    <2>2. <<>> \in Text /\ Len(<<>>) = 0
      BY DEF Text
    <2> QED
      BY <1>2, <2>1, <2>2
  <1>3. CASE Len(p) # 0
    <2>1. PICK k \in Nat : k = Len(p) - 1
      BY <1>1, <1>3
    <2>2. SubSeq(p, 1, k) \in Text /\ Len(SubSeq(p, 1, k)) = k
      BY <1>1, <2>1 DEF Text
    <2>3. \A i \in 1..k : SubSeq(p, 1, k)[i] = p[i]
      BY <1>1, <2>1 DEF Text
    <2> QED
      BY <1>1, <1>3, <2>1, <2>2, <2>3 DEF ButLast
  <1> QED
    BY <1>2, <1>3

\* What was kept is kept when the log is extended.
LEMMA KeptExtends ==
    ASSUME NEW p \in Text, NEW l \in Text, NEW s \in Text, Kept(p, l), Extends(l, s)
    PROVE  Kept(p, s)
  <1>1. Len(p) \in Nat /\ Len(l) \in Nat /\ Len(s) \in Nat /\ Len(p) <= Len(l) + 1
        /\ Len(l) <= Len(s)
    BY TextAt DEF Kept, Extends
  <1>2. ASSUME NEW i \in 1..Len(p), i < Len(p) PROVE s[i] = p[i]
    <2>1. i \in 1..Len(l)
      BY <1>1, <1>2
    <2> QED
      BY <1>2, <2>1 DEF Kept, Extends
  <1> QED
    BY <1>1, <1>2 DEF Kept

\* What a reader finds extends what is committed, by at most a line.
LEMMA PresentIs ==
    ASSUME log \in Seq(SignedEvent), pending \in SignedEvent \cup {Torn, None}
    PROVE  log \in Text /\ Present \in Text /\ Extends(log, Present) /\ Kept(Present, log)
  <1>1. log \in Text /\ Len(log) \in Nat
    BY DEF Text
  <1>2. CASE pending = None
    <2>1. Present = log
      BY <1>2 DEF Present
    <2> QED
      BY <1>1, <2>1 DEF Extends, Kept
  <1>3. CASE pending # None
    <2>1. pending \in SignedEvent \cup {Torn} /\ Present = Append(log, pending)
      BY <1>3 DEF Present
    <2>2. Present \in Text /\ Len(Present) = Len(log) + 1
      BY <1>1, <2>1 DEF Text
    <2>3. \A i \in 1..Len(log) : Present[i] = log[i]
      BY <1>1, <2>1
    <2>4. Extends(log, Present)
      BY <1>1, <2>2, <2>3 DEF Extends
    <2>5. Kept(Present, log)
      BY <1>1, <2>2, <2>3 DEF Kept
    <2> QED
      BY <1>1, <2>2, <2>4, <2>5
  <1> QED
    BY <1>2, <1>3

\* Whatever the signer and the recovery do, what is committed is only extended.
LEMMA GrowStep ==
    ASSUME log \in Seq(SignedEvent), pending \in SignedEvent \cup {Torn, None}, Grow
    PROVE  /\ log' \in Seq(SignedEvent) /\ pending' \in SignedEvent \cup {Torn, None}
           /\ Extends(log, log')
  <1>1. Len(log) \in Nat
    OBVIOUS
  <1>2. ASSUME log' = log PROVE log' \in Seq(SignedEvent) /\ Extends(log, log')
    BY <1>1, <1>2 DEF Extends
  <1>3. CASE AppendBegins \/ Truncated
    BY <1>2, <1>3 DEF AppendBegins, Truncated
  <1>4. CASE AppendEnds
    <2>1. PICK e \in NextRecords : pending' = e
      BY <1>4 DEF AppendEnds
    <2>2. PICK l \in Logs : e = l[Len(log) + 1] /\ Len(log) < Len(l)
      BY <2>1 DEF NextRecords
    <2>3. l \in Seq(SignedEvent) /\ e \in SignedEvent
      BY <1>1, <2>2, ArchiveAssumption
    <2> QED
      BY <1>2, <1>4, <2>1, <2>3 DEF AppendEnds
  <1>5. CASE Committed
    <2>1. pending \in SignedEvent /\ log' = Append(log, pending) /\ pending' = None
      BY <1>5 DEF Committed
    <2>2. log' \in Seq(SignedEvent) /\ Len(log') = Len(log) + 1
      BY <2>1
    <2>3. \A i \in 1..Len(log) : log'[i] = log[i]
      BY <2>1
    <2> QED
      BY <1>1, <2>1, <2>2, <2>3 DEF Extends
  <1> QED
    BY <1>3, <1>4, <1>5 DEF Grow

----------------------------------------------------------------------------
(* What the two verifying commands may conclude. *)

\* What strict mode lets pass: the lines of the first pass but for the last one are a
\* genuine chain, though the second pass has read the log as it was later.
LEMMA StrictGenuine ==
    ASSUME NEW p \in Text, NEW s \in Text, Kept(p, s), NEW n \in Node,
           ~Summary(p).unparsable, Summary(p).nodes \in {{}, {n}},
           VerifyStream(s).failed = 0
    PROVE  GenuineChain(n, ButLast(p))
  <1>1. Quiet(VerifyStream(s))
    <2>1. Clean(VerifyStream(s))
      BY CleanStream
    <2> QED
      BY <2>1 DEF Clean, Quiet
  <1>2. PICK q \in Text : q = ButLast(p)
    BY ButLastIs
  <1>3. Len(q) = (IF Len(p) = 0 THEN 0 ELSE Len(p) - 1)
        /\ \A i \in 1..Len(q) : q[i] = p[i] /\ i \in 1..Len(p) /\ i < Len(p)
    BY <1>2, ButLastIs
  <1>4. Len(q) <= Len(s)
    <2>1. Len(p) \in Nat /\ Len(s) \in Nat /\ Len(p) <= Len(s) + 1
      BY TextAt DEF Kept
    <2> QED
      BY <1>3, <2>1
  <1>5. Parsed(p) = 1..Len(p) /\ {NodeOf[p[i].content] : i \in Parsed(p)} \in {{}, {n}}
    BY SummaryIs
  <1>6. ASSUME NEW i \in 1..Len(q) PROVE q[i] = s[i] /\ NodeOf[q[i].content] = n
    <2>1. q[i] = p[i] /\ i \in Parsed(p)
      BY <1>3, <1>5
    <2>2. s[i] = p[i]
      BY <1>3 DEF Kept
    <2>3. NodeOf[p[i].content] \in {NodeOf[p[k].content] : k \in Parsed(p)}
      BY <2>1
    <2>4. NodeOf[p[i].content] = n
      BY <1>5, <2>3
    <2> QED
      BY <2>1, <2>2, <2>4
  <1>7. Chained(n, q)
    BY <1>1, <1>4, <1>6, QuietChained
  <1> QED
    BY <1>2, <1>7, ChainedGenuine

\* The first pass saw what m says, of which s has all but the last line; a strict m
\* vouches for those.
Recorded(m, s) ==
    \E p \in Text :
        /\ m.count = Len(p) /\ Kept(p, s)
        /\ m.strict => GenuineChain(m.node, ButLast(p))

\* An archive as create_archive finishes it.
SealedOk(x) ==
    /\ x \in Archives /\ x.aad = x.manifest /\ x.manifest.nonce \in Archiver
    /\ x.plain = x.manifest.digest
    /\ Recorded(x.manifest, x.plain)

\* What verify_archive has found once summarise_evidence is through.
Report(x) ==
    [structure |-> TRUE, container |-> TRUE, hash |-> TRUE,
     format |-> EvidenceTrust(x.plain).format,
     signatures |-> EvidenceTrust(x.plain).signatures,
     chain |-> EvidenceTrust(x.plain).chain,
     node |-> Describes(x.manifest, x.plain) /\ Summary(x.plain).nodes # {},
     errors |-> ~Describes(x.manifest, x.plain)]

\* What summarise_evidence says of a genuine chain.
LEMMA GenuineSummary ==
    ASSUME NEW s \in Text, NEW n \in Node, GenuineChain(n, s), s # <<>>
    PROVE  /\ Summary(s).count = Len(s) /\ Summary(s).first = 1 /\ Summary(s).last = Len(s)
           /\ Summary(s).final = s[Len(s)].event_hash /\ Summary(s).nodes = {n}
  <1>1. Len(s) \in Nat \ {0}
    BY TextAt DEF Text
  <1>2. Parsed(s) = 1..Len(s)
    BY DEF GenuineChain, Parsed
  <1>3. Parsed(s) # {} /\ 1 \in Parsed(s) /\ Len(s) \in Parsed(s)
    BY <1>1, <1>2
  <1>4. SeqsOf(s) = 1..Len(s)
    BY <1>2 DEF SeqsOf, GenuineChain
  <1>5. Max(SeqsOf(s)) = Len(s)
    <2>1. Max(SeqsOf(s)) \in 1..Len(s) /\ Len(s) <= Max(SeqsOf(s))
      BY <1>1, <1>3, <1>4, MaxSeq
    <2> QED
      BY <1>1, <2>1
  <1>6. Min(SeqsOf(s)) = 1
    <2>1. SeqsOf(s) \subseteq Nat /\ SeqsOf(s) # {} /\ 1 \in SeqsOf(s)
      BY <1>1, <1>3, <1>4, MaxSeq
    <2>2. Min(SeqsOf(s)) \in 1..Len(s) /\ Min(SeqsOf(s)) <= 1
      BY <1>4, <2>1, MinIs
    <2> QED
      BY <1>1, <2>2
  <1>7. Max(Parsed(s)) = Len(s)
    <2>1. Max(Parsed(s)) \in 1..Len(s) /\ Len(s) <= Max(Parsed(s))
      BY <1>2, <1>3, LastParsed
    <2> QED
      BY <1>1, <2>1
  <1>8. {NodeOf[s[i].content] : i \in Parsed(s)} = {n}
    BY <1>2, <1>3 DEF GenuineChain
  <1> QED
    BY <1>3, <1>5, <1>6, <1>7, <1>8, SummaryIs

\* What the manifest says of a genuine chain if it describes it.
Told(m, s) ==
    /\ m.count = Len(s) /\ m.first = 1 /\ m.last = Len(s)
    /\ m.final = s[Len(s)].event_hash

\* For what was sealed, the trust report is positive exactly for a genuine chain that the
\* manifest describes.
LEMMA ReportVerdict ==
    ASSUME NEW x, SealedOk(x)
    PROVE  FullyVerified(Report(x)) /\ ~Report(x).errors
           <=> /\ x.plain # <<>> /\ GenuineChain(x.manifest.node, x.plain)
               /\ Told(x.manifest, x.plain)
  <1>1. PICK s, m, n : s = x.plain /\ m = x.manifest /\ n = m.node
    OBVIOUS
  <1>2. s \in Text /\ n \in Node
    BY <1>1 DEF SealedOk, Archives, Manifests
  <1>3. PICK r : r = VerifyStream(s)
    OBVIOUS
  <1>4. (FullyVerified(Report(x)) /\ ~Report(x).errors)
        <=> /\ Describes(m, s) /\ Summary(s).nodes # {}
            /\ r.malformed = 0 /\ s # <<>>
            /\ r.alerts \cap SignatureAlerts = {} /\ r.alerts \cap ChainAlerts = {}
    BY <1>1, <1>3 DEF FullyVerified, Report, EvidenceTrust
  <1>5. (r.malformed = 0 /\ r.alerts \cap SignatureAlerts = {} /\ r.alerts \cap ChainAlerts = {})
        <=> Quiet(VerifyStream(s))
    BY <1>3 DEF Quiet, Faults
  <1>6. Describes(m, s) <=>
            /\ Summary(s).nodes \in {{}, {n}}
            /\ Summary(s).count = m.count /\ Summary(s).first = m.first
            /\ Summary(s).last = m.last /\ Summary(s).final = m.final
    BY <1>1 DEF Describes
  <1>7. ASSUME GenuineChain(n, s), s # <<>>
        PROVE  Summary(s).nodes = {n} /\ (Describes(m, s) <=> Told(m, s))
    BY <1>2, <1>6, <1>7, GenuineSummary DEF Told
  <1>8. ASSUME Describes(m, s), Summary(s).nodes # {}, s # <<>>, Quiet(VerifyStream(s))
        PROVE  GenuineChain(n, s)
    <2>1. {NodeOf[s[i].content] : i \in Parsed(s)} = {n}
      BY <1>6, <1>8, SummaryIs
    <2>2. \A i \in 1..Len(s) : i \in Parsed(s)
      BY <1>2, <1>8, QuietLines, RecordType DEF Parsed
    <2>3. \A i \in 1..Len(s) : NodeOf[s[i].content] = n
      BY <2>1, <2>2
    <2>4. Len(s) <= Len(s)
      BY <1>2, TextAt
    <2>5. Chained(n, s)
      BY <1>2, <1>8, <2>3, <2>4, QuietChained
    <2> QED
      BY <1>2, <2>5, ChainedGenuine
  <1>9. ASSUME s # <<>>, GenuineChain(n, s) PROVE Quiet(VerifyStream(s))
    BY <1>2, <1>9, ChainedGenuine, ChainedQuiet
  <1> QED
    BY <1>1, <1>4, <1>5, <1>7, <1>8, <1>9

----------------------------------------------------------------------------
(* The invariant, for calls that may overlap. *)

Jobs == [node : Node, strict : BOOLEAN, summary : Summaries \cup {None}, content : Text,
         fd : Archiver \cup {None}]
Asks == [op : {"verify", "decrypt"}, key : {"none", "wrong", "right"}, registry : BOOLEAN]

APcs == {"none", "scan", "verify", "read", "open", "fill", "replace", "ended"}
Early == {"none", "scan", "verify", "read", "open"}
RPcs == {"none", "structure", "decrypt", "publish", "summarise", "done", "ended"}

LogType == log \in Seq(SignedEvent) /\ pending \in SignedEvent \cup {Torn, None}

FileType ==
    /\ inode \in [Archiver -> Archives \cup {None, Broken}]
    /\ tmp \in Archiver \cup {None} /\ target \in Archiver \cup {None}
    /\ tmp # None => tmp # target /\ inode[tmp] # None
    /\ target # None => inode[target] # None

CallType == apc \in [Archiver -> APcs] /\ job \in [Archiver -> Jobs \cup {None}]

ReadType ==
    /\ rpc \in [Reader -> RPcs] /\ ask \in [Reader -> Asks \cup {None}]
    /\ opened \in [Reader -> Archives \cup {None}] /\ trust \in [Reader -> Trusts]

\* The first pass of call j saw what its summary says, of which s has all but the last line.
Seen(j, s, strict) ==
    \E p \in Text : /\ j.summary = Summary(p) /\ Kept(p, s)
                    /\ strict => GenuineChain(j.node, ButLast(p))

\* A call of create_archive that is at pc when s is committed.
JobOk(j, pc, s) ==
    /\ j \in Jobs
    /\ pc = "verify" => Seen(j, s, FALSE)
    /\ pc = "read" => Seen(j, s, j.strict)
    /\ pc \in {"open", "fill", "replace"} => Seen(j, j.content, j.strict)
    /\ pc \in {"fill", "replace"} => j.fd \in Archiver

JobInv == \A a \in Archiver : ~Idle(a) => JobOk(job[a], apc[a], log)

\* A call that has not opened the temporary file has made no file.
FileInv == \A a \in Archiver : apc[a] \in Early => a # tmp /\ a # target

SealedInv == \A x \in sealed : SealedOk(x)

BaseInv == LogType /\ FileType /\ CallType /\ ReadType /\ JobInv /\ FileInv /\ SealedInv

\* The invariant for overlapping calls holds initially.
LEMMA BaseInit ==
    Init => BaseInv
  <1> SUFFICES ASSUME Init PROVE BaseInv
    OBVIOUS
  <1>1. LogType
    <2>1. <<>> \in Seq(SignedEvent)
      OBVIOUS
    <2> QED
      BY <2>1, Zenon DEF LogType, Init
  <1> USE DEF Init
  <1>2. FileType
    BY DEF FileType
  <1>3. CallType
    BY DEF CallType, APcs
  <1>4. ReadType
    BY DEF ReadType, RPcs, Untrusted, Trusts
  <1>5. JobInv
    BY DEF JobInv, Idle
  <1>6. FileInv
    BY ArchiveAssumption DEF FileInv
  <1>7. SealedInv
    BY DEF SealedInv
  <1> QED
    BY <1>1, <1>2, <1>3, <1>4, <1>5, <1>6, <1>7 DEF BaseInv

\* What a call saw of the log stays true of it when the log is extended.
LEMMA SeenGrows ==
    ASSUME NEW j, NEW s \in Text, NEW t \in Text, NEW strict, Extends(s, t), Seen(j, s, strict)
    PROVE  Seen(j, t, strict)
  <1>1. PICK p \in Text : /\ j.summary = Summary(p) /\ Kept(p, s)
                          /\ strict => GenuineChain(j.node, ButLast(p))
    BY DEF Seen
  <1>2. Kept(p, t)
    BY <1>1, KeptExtends
  <1> QED
    BY <1>1, <1>2 DEF Seen

\* What a call knows stays true when the log grows.
LEMMA JobGrows ==
    ASSUME NEW j, NEW pc, NEW s \in Text, NEW t \in Text, Extends(s, t), JobOk(j, pc, s)
    PROVE  JobOk(j, pc, t)
  <1>1. pc = "verify" => Seen(j, t, FALSE)
    BY SeenGrows DEF JobOk
  <1>2. pc = "read" => Seen(j, t, j.strict)
    BY SeenGrows DEF JobOk
  <1> QED
    BY <1>1, <1>2 DEF JobOk

\* A step of call a.
LEMMA CallStep ==
    ASSUME CallType, JobInv, NEW a \in Archiver, NEW l \in APcs, NEW j,
           AGoto(a, l), job' = [job EXCEPT ![a] = j], UNCHANGED logVars,
           (l \in {"none", "ended"} /\ j = None) \/ JobOk(j, l, log)
    PROVE  CallType' /\ JobInv'
  <1>1. j \in Jobs \cup {None}
    BY DEF JobOk
  <1>2. CallType' /\ apc'[a] = l /\ job'[a] = j
        /\ \A b \in Archiver : b # a => apc'[b] = apc[b] /\ job'[b] = job[b]
    BY <1>1 DEF CallType, AGoto
  <1>3. log' = log
    BY DEF logVars
  <1>4. ASSUME NEW b \in Archiver, ~Idle(b)' PROVE JobOk(job'[b], apc'[b], log')
    <2>1. CASE b = a
      BY <1>2, <1>3, <1>4, <2>1 DEF Idle
    <2>2. CASE b # a
      <3>1. ~Idle(b)
        BY <1>2, <1>4, <2>2 DEF Idle
      <3> QED
        BY <1>2, <1>3, <2>2, <3>1 DEF JobInv
    <2> QED
      BY <2>1, <2>2
  <1> QED
    BY <1>2, <1>4 DEF JobInv

\* A call that ends forgets its job.
LEMMA EndStep ==
    ASSUME CallType, JobInv, NEW a \in Archiver, AEnd(a), UNCHANGED logVars
    PROVE  CallType' /\ JobInv'
  <1>1. AGoto(a, "ended") /\ job' = [job EXCEPT ![a] = None] /\ "ended" \in APcs
    BY DEF AEnd, APcs
  <1> QED
    BY <1>1, CallStep, Zenon

\* A call that has not opened its file owns none of the names.
LEMMA FileStep ==
    ASSUME CallType, FileInv, NEW a \in Archiver, NEW l,
           AGoto(a, l), l \in Early => a # tmp' /\ a # target',
           \A b \in Archiver : b # a /\ (b = tmp' \/ b = target') => b = tmp \/ b = target
    PROVE  FileInv'
  <1>1. apc'[a] = l /\ \A b \in Archiver : b # a => apc'[b] = apc[b]
    BY DEF CallType, AGoto
  <1> QED
    BY <1>1 DEF FileInv

\* A step that leaves the files alone keeps their types.
LEMMA SameFiles ==
    ASSUME FileType, UNCHANGED <<inode, tmp, target>>
    PROVE  FileType'
  BY DEF FileType

\* A step that leaves the readers alone keeps their types.
LEMMA SameReads ==
    ASSUME ReadType, UNCHANGED readVars
    PROVE  ReadType'
  BY DEF ReadType, readVars

\* A step that leaves the log alone keeps its type and its records.
LEMMA SameLog ==
    ASSUME LogType, UNCHANGED logVars
    PROVE  LogType' /\ log' = log
  BY DEF LogType, logVars

\* A step that seals nothing keeps what is known of the sealed archives.
LEMMA SameSealed ==
    ASSUME SealedInv, UNCHANGED sealed
    PROVE  SealedInv'
  BY DEF SealedInv

\* The steps of create_archive that touch no file.
LEMMA QuietCall ==
    ASSUME BaseInv, NEW a \in Archiver, NEW l, AGoto(a, l),
           CallType', JobInv', UNCHANGED <<logVars, inode, tmp, target, sealed, damage, readVars>>,
           l = "ended" \/ (l \in Early /\ apc[a] \in Early)
    PROVE  BaseInv'
  <1> USE DEF BaseInv
  <1>1. LogType' /\ FileType' /\ ReadType' /\ SealedInv'
    BY SameLog, SameFiles, SameReads, SameSealed
  <1>2. l \in Early => a # tmp' /\ a # target'
    BY DEF FileInv, Early
  <1>3. FileInv'
    BY <1>2, FileStep
  <1> QED
    BY <1>1, <1>3

\* A call that ends without touching a file keeps the invariant.
LEMMA EndQuietly ==
    ASSUME BaseInv, NEW a \in Archiver, AEnd(a),
           UNCHANGED <<logVars, inode, tmp, target, sealed, damage, readVars>>
    PROVE  BaseInv'
  <1>1. CallType' /\ JobInv'
    BY EndStep DEF BaseInv
  <1>2. AGoto(a, "ended")
    BY DEF AEnd
  <1> QED
    BY <1>1, <1>2, QuietCall

\* The log's growth keeps the invariant.
LEMMA BaseGrow ==
    ASSUME BaseInv, Grow
    PROVE  BaseInv'
  <1> USE DEF BaseInv
  <1>1. UNCHANGED <<makeVars, damage, readVars>>
    BY DEF Grow
  <1>2. LogType' /\ Extends(log, log')
    BY GrowStep DEF LogType
  <1>3. log \in Text /\ log' \in Text
    BY <1>2 DEF LogType, Text
  <1>4. FileType' /\ CallType' /\ ReadType' /\ SealedInv' /\ FileInv'
    BY <1>1, SameFiles, SameReads, SameSealed DEF makeVars, CallType, FileInv
  <1>5. JobInv'
    <2>1. ASSUME NEW a \in Archiver, ~Idle(a)' PROVE JobOk(job'[a], apc'[a], log')
      <3>1. JobOk(job[a], apc[a], log)
        BY <1>1, <2>1 DEF makeVars, Idle, JobInv
      <3>2. JobOk(job[a], apc[a], log')
        BY <1>2, <1>3, <3>1, JobGrows
      <3> QED
        BY <1>1, <3>2 DEF makeVars
    <2> QED
      BY <2>1 DEF JobInv
  <1> QED
    BY <1>2, <1>4, <1>5

\* The start of a call keeps it.
LEMMA BaseBegin ==
    ASSUME BaseInv, NEW a \in Archiver, NEW node \in Node, NEW strict \in BOOLEAN,
           NEW force \in BOOLEAN, Begin(a, node, strict, force)
    PROVE  BaseInv'
  <1>1. PICK j : j = [node |-> node, strict |-> strict,
                      summary |-> None, content |-> <<>>, fd |-> None]
    OBVIOUS
  <1>2. AGoto(a, "scan") /\ job' = [job EXCEPT ![a] = j] /\ apc[a] = "none"
        /\ UNCHANGED <<logVars, inode, tmp, target, sealed, damage, readVars>>
    BY <1>1 DEF Begin
  <1>3. <<>> \in Text
    BY DEF Text
  <1>4. j \in Jobs
    BY ONLY <1>1, <1>3, node \in Node, strict \in BOOLEAN DEF Jobs
  <1>5. JobOk(j, "scan", log)
    BY <1>4 DEF JobOk
  <1>6. "scan" \in APcs /\ "scan" \in Early /\ apc[a] \in Early
    BY <1>2 DEF APcs, Early
  <1>7. CallType' /\ JobInv'
    BY <1>2, <1>5, <1>6, CallStep DEF BaseInv
  <1> QED
    BY <1>2, <1>6, <1>7, QuietCall

\* The first pass keeps it.
LEMMA BaseScan ==
    ASSUME BaseInv, NEW a \in Archiver, Scan(a)
    PROVE  BaseInv'
  <1>1. PICK s, j, l : /\ s = Present /\ j = [job[a] EXCEPT !.summary = Summary(Present)]
                       /\ l = IF job[a].strict THEN "verify" ELSE "read"
    OBVIOUS
  <1>2. /\ apc[a] = "scan" /\ AGoto(a, l)
        /\ UNCHANGED <<logVars, inode, tmp, target, sealed, damage, readVars>>
    BY <1>1 DEF Scan
  <1>3. ~Idle(a) /\ apc[a] \in Early /\ l \in Early /\ l \in APcs
    BY <1>1, <1>2 DEF Idle, Early, APcs
  <1>4. JobOk(job[a], "scan", log)
    BY <1>2, <1>3 DEF BaseInv, JobInv
  <1>5. job[a] \in Jobs
    BY <1>4 DEF JobOk
  <1>6. s \in Text /\ Kept(s, log)
    BY <1>1, PresentIs DEF BaseInv, LogType
  <1>7. Summary(s) \in Summaries
    BY <1>6, SummaryType
  <1>8. j \in Jobs /\ j.summary = Summary(s) /\ j.strict = job[a].strict
    BY ONLY <1>1, <1>5, <1>7 DEF Jobs
  <1>9. Seen(j, log, FALSE)
    BY <1>6, <1>8 DEF Seen
  <1>10. ~j.strict => Seen(j, log, j.strict)
    BY <1>6, <1>8 DEF Seen
  <1>11. JobOk(j, l, log)
    BY <1>1, <1>8, <1>9, <1>10 DEF JobOk
  <1>12. job' = [job EXCEPT ![a] = j]
    BY <1>1 DEF Scan
  <1>13. CallType' /\ JobInv'
    BY <1>1, <1>2, <1>3, <1>11, <1>12, CallStep DEF BaseInv
  <1> QED
    BY <1>2, <1>3, <1>13, QuietCall

\* Strict mode's pass keeps it.
LEMMA BaseVerify ==
    ASSUME BaseInv, NEW a \in Archiver, Verify(a)
    PROVE  BaseInv'
  <1>1. apc[a] = "verify" /\ UNCHANGED <<logVars, inode, tmp, target, sealed, damage, readVars>>
    BY DEF Verify
  <1>2. CASE Refuses(job[a])
    <2>1. AEnd(a)
      BY <1>2 DEF Verify
    <2> QED
      BY <1>1, <2>1, EndQuietly
  <1>3. CASE ~Refuses(job[a])
    <2>1. AGoto(a, "read") /\ job' = job
      BY <1>3 DEF Verify
    <2>2. PICK s, j : s = Present /\ j = job[a]
      OBVIOUS
    <2>3. ~Idle(a) /\ apc[a] \in Early /\ "read" \in Early /\ "read" \in APcs
      BY <1>1 DEF Idle, Early, APcs
    <2>4. JobOk(j, "verify", log)
      BY <1>1, <2>2, <2>3 DEF BaseInv, JobInv
    <2>5. j \in Jobs /\ Seen(j, log, FALSE)
      BY <2>4 DEF JobOk
    <2>6. s \in Text /\ log \in Text /\ Extends(log, s)
      BY <2>2, PresentIs DEF BaseInv, LogType
    <2>7. PICK p \in Text : j.summary = Summary(p) /\ Kept(p, log)
      BY <2>5 DEF Seen
    <2>8. ~j.summary.unparsable /\ ~StrictErrors(j.summary, s) /\ j.summary.nodes \in {{}, {j.node}}
      BY <1>3, <2>2 DEF Refuses
    <2>9. VerifyStream(s).failed = 0
      <3>1. VerifyStream(s) \in Streams
        BY <2>6, TextAt, StreamType DEF VerifyStream
      <3>2. VerifyStream(s).failed \in Nat
        BY <3>1 DEF Streams
      <3>3. ~(VerifyStream(s).failed > 0)
        BY <2>8 DEF StrictErrors
      <3> QED
        BY <3>2, <3>3
    <2>10. j.node \in Node
      BY <2>5 DEF Jobs
    <2>11. GenuineChain(j.node, ButLast(p))
      <3>1. ~Summary(p).unparsable /\ Summary(p).nodes \in {{}, {j.node}}
        BY <2>7, <2>8
      <3>2. Kept(p, s)
        BY <2>6, <2>7, KeptExtends
      <3> QED
        BY <2>6, <2>7, <2>9, <2>10, <3>1, <3>2, StrictGenuine
    <2>12. Seen(j, log, j.strict)
      BY <2>7, <2>11 DEF Seen
    <2>13. JobOk(j, "read", log)
      BY <2>5, <2>12 DEF JobOk
    <2>14. job' = [job EXCEPT ![a] = j]
      BY <2>1, <2>2 DEF BaseInv, CallType
    <2>15. CallType' /\ JobInv'
      BY <1>1, <2>1, <2>2, <2>3, <2>13, <2>14, CallStep DEF BaseInv
    <2> QED
      BY <1>1, <2>1, <2>3, <2>15, QuietCall
  <1> QED
    BY <1>2, <1>3

\* The pass that reads the plaintext keeps it.
LEMMA BaseRead ==
    ASSUME BaseInv, NEW a \in Archiver, Read(a)
    PROVE  BaseInv'
  <1>1. apc[a] = "read" /\ UNCHANGED <<logVars, inode, tmp, target, sealed, damage, readVars>>
    BY DEF Read
  <1>2. CASE Oversized
    <2>1. AEnd(a)
      BY <1>2 DEF Read
    <2> QED
      BY <1>1, <2>1, EndQuietly
  <1>3. CASE ~Oversized
    <2>1. PICK s, k, j : s = Present /\ k = job[a] /\ j = [job[a] EXCEPT !.content = Present]
      OBVIOUS
    <2>2. AGoto(a, "open") /\ job' = [job EXCEPT ![a] = j]
      BY <1>3, <2>1 DEF Read
    <2>3. ~Idle(a) /\ apc[a] \in Early /\ "open" \in Early /\ "open" \in APcs
      BY <1>1 DEF Idle, Early, APcs
    <2>4. JobOk(k, "read", log)
      BY <1>1, <2>1, <2>3 DEF BaseInv, JobInv
    <2>5. k \in Jobs /\ Seen(k, log, k.strict)
      BY <2>4 DEF JobOk
    <2>6. s \in Text /\ log \in Text /\ Extends(log, s)
      BY <2>1, PresentIs DEF BaseInv, LogType
    <2>7. j = [k EXCEPT !.content = s]
      BY <2>1
    <2>8. j \in Jobs /\ j.summary = k.summary /\ j.node = k.node /\ j.strict = k.strict
          /\ j.content = s
      BY ONLY <2>5, <2>6, <2>7 DEF Jobs
    <2>9. Seen(j, j.content, j.strict)
      <3>1. Seen(k, s, k.strict)
        BY <2>5, <2>6, SeenGrows
      <3> QED
        BY <2>8, <3>1 DEF Seen
    <2>10. JobOk(j, "open", log)
      BY <2>8, <2>9 DEF JobOk
    <2>11. CallType' /\ JobInv'
      BY <1>1, <2>1, <2>2, <2>3, <2>10, CallStep DEF BaseInv
    <2> QED
      BY <1>1, <2>2, <2>3, <2>11, QuietCall
  <1> QED
    BY <1>2, <1>3

----------------------------------------------------------------------------
(* The steps that write files. *)

\* The manifest of a call with variables j.
ManifestOf(a, j) ==
    [node |-> j.node, first |-> j.summary.first, last |-> j.summary.last,
     count |-> j.summary.count, final |-> j.summary.final, digest |-> j.content,
     strict |-> j.strict, nonce |-> a]

\* What a call seals has a manifest that matches what its first pass saw.
LEMMA ContainerOk ==
    ASSUME NEW a \in Archiver, NEW j, NEW pc, NEW s, JobOk(j, pc, s),
           pc \in {"open", "fill", "replace"}
    PROVE  SealedOk(Container(ManifestOf(a, j)))
  <1>1. j \in Jobs /\ Seen(j, j.content, j.strict)
    BY DEF JobOk
  <1>2. PICK p \in Text : /\ j.summary = Summary(p) /\ Kept(p, j.content)
                          /\ j.strict => GenuineChain(j.node, ButLast(p))
    BY <1>1 DEF Seen
  <1>3. PICK u : u = j.summary
    OBVIOUS
  <1>4. u \in Summaries /\ u = Summary(p)
    BY <1>2, <1>3, SummaryType
  <1>5. u.first \in Nat /\ u.last \in Nat /\ u.count \in Nat /\ u.final \in Hash \cup {NoHash}
    BY <1>4 DEF Summaries
  <1>6. PICK n, c, t : n = j.node /\ c = j.content /\ t = j.strict
    OBVIOUS
  <1>7. n \in Node /\ c \in Text /\ t \in BOOLEAN
    BY <1>1, <1>6 DEF Jobs
  <1>8. PICK m : m = ManifestOf(a, j)
    OBVIOUS
  <1>9. m = [node |-> n, first |-> u.first, last |-> u.last, count |-> u.count,
             final |-> u.final, digest |-> c, strict |-> t, nonce |-> a]
    BY <1>3, <1>6, <1>8 DEF ManifestOf
  <1>10. m \in Manifests /\ m.nonce = a /\ m.digest = c /\ m.node = n /\ m.strict = t
         /\ m.count = u.count /\ m.first = u.first /\ m.last = u.last /\ m.final = u.final
    BY ONLY <1>5, <1>7, <1>9, a \in Archiver DEF Manifests
  <1>11. PICK x : x = Container(m)
    OBVIOUS
  <1>12. x \in Archives /\ x.aad = m /\ x.manifest = m /\ x.plain = c
    BY ONLY <1>7, <1>10, <1>11 DEF Container, Archives
  <1>13. Recorded(m, c)
    BY <1>2, <1>4, <1>6, <1>10, SummaryIs DEF Recorded
  <1>14. SealedOk(x)
    BY <1>10, <1>12, <1>13 DEF SealedOk
  <1> QED
    BY <1>8, <1>11, <1>14

\* What a call knows of its job once it has read the plaintext.
LEMMA BusyJob ==
    ASSUME BaseInv, NEW a \in Archiver, apc[a] \in {"open", "fill", "replace"}
    PROVE  /\ JobOk(job[a], apc[a], log)
           /\ Manifest(a) = ManifestOf(a, job[a])
           /\ SealedOk(Container(Manifest(a))) /\ Container(Manifest(a)) \in Archives
  <1>1. JobOk(job[a], apc[a], log)
    BY DEF BaseInv, JobInv, Idle
  <1>2. Manifest(a) = ManifestOf(a, job[a])
    BY DEF Manifest, ManifestOf
  <1>3. SealedOk(Container(Manifest(a)))
    BY <1>1, <1>2, ContainerOk
  <1> QED
    BY <1>1, <1>2, <1>3 DEF SealedOk

\* Opening the temporary file keeps the invariant, though another call may have it open.
LEMMA BaseOpenTmp ==
    ASSUME BaseInv, NEW a \in Archiver, OpenTmp(a)
    PROVE  BaseInv'
  <1> USE DEF BaseInv
  <1>1. PICK f, k, j : /\ f = (IF tmp = None THEN a ELSE tmp)
                       /\ k = job[a] /\ j = [job[a] EXCEPT !.fd = f]
    OBVIOUS
  <1>2. /\ apc[a] = "open" /\ tmp' = f /\ job' = [job EXCEPT ![a] = j] /\ AGoto(a, "fill")
        /\ inode' = [inode EXCEPT ![f] = Broken]
        /\ UNCHANGED <<logVars, target, sealed, damage, readVars>>
    BY <1>1 DEF OpenTmp
  <1>3. a # target /\ f \in Archiver /\ f # target
    BY <1>1, <1>2 DEF FileInv, FileType, Early
  <1>4. FileType'
    <2>1. inode' \in [Archiver -> Archives \cup {None, Broken}] /\ inode'[f] = Broken
          /\ \A b \in Archiver : b # f => inode'[b] = inode[b]
      BY <1>2, <1>3 DEF FileType
    <2> QED
      BY <1>2, <1>3, <2>1, ArchiveAssumption DEF FileType
  <1>5. k \in Jobs /\ Seen(k, k.content, k.strict)
    BY <1>1, <1>2, BusyJob DEF JobOk
  <1>6. j \in Jobs /\ j.summary = k.summary /\ j.node = k.node /\ j.strict = k.strict
        /\ j.content = k.content /\ j.fd = f
    <2>1. j = [k EXCEPT !.fd = f]
      BY <1>1
    <2> QED
      BY ONLY <1>3, <1>5, <2>1 DEF Jobs
  <1>7. JobOk(j, "fill", log)
    <2>1. Seen(j, j.content, j.strict)
      BY <1>5, <1>6 DEF Seen
    <2> QED
      BY <1>3, <1>6, <2>1 DEF JobOk
  <1>8. CallType' /\ JobInv'
    <2>1. "fill" \in APcs
      BY DEF APcs
    <2> QED
      BY <1>2, <1>7, <2>1, CallStep
  <1>9. FileInv'
    <2>1. "fill" \notin Early
      BY DEF Early
    <2> QED
      BY <1>1, <1>2, <2>1, FileStep
  <1> QED
    BY <1>2, <1>4, <1>8, <1>9, SameLog, SameReads, SameSealed

\* Filling the temporary file keeps it.
LEMMA BaseFill ==
    ASSUME BaseInv, NEW a \in Archiver, Fill(a)
    PROVE  BaseInv'
  <1> USE DEF BaseInv
  <1>1. PICK f, j : f = job[a].fd /\ j = job[a]
    OBVIOUS
  <1>2. PICK y \in {Container(Manifest(a)), Broken} : inode' = [inode EXCEPT ![f] = y]
    BY <1>1 DEF Fill
  <1>3. /\ apc[a] = "fill" /\ AGoto(a, "replace")
        /\ UNCHANGED <<logVars, job, tmp, target, sealed, damage, readVars>>
    BY DEF Fill
  <1>4. JobOk(j, "fill", log) /\ Container(Manifest(a)) \in Archives
    BY <1>1, <1>3, BusyJob
  <1>5. f \in Archiver /\ j \in Jobs /\ y \in Archives \cup {Broken} /\ y # None
    BY <1>1, <1>2, <1>4, ArchiveAssumption DEF JobOk
  <1>6. FileType'
    <2>1. inode' \in [Archiver -> Archives \cup {None, Broken}] /\ inode'[f] = y
          /\ \A b \in Archiver : b # f => inode'[b] = inode[b]
      BY <1>2, <1>5 DEF FileType
    <2> QED
      BY <1>3, <1>5, <2>1 DEF FileType
  <1>7. JobOk(j, "replace", log)
    BY <1>4 DEF JobOk
  <1>8. CallType' /\ JobInv'
    <2>1. job' = [job EXCEPT ![a] = j] /\ "replace" \in APcs
      BY <1>1, <1>3 DEF CallType, APcs
    <2> QED
      BY <1>3, <1>7, <2>1, CallStep
  <1>9. FileInv'
    <2>1. "replace" \notin Early
      BY DEF Early
    <2> QED
      BY <1>3, <2>1, FileStep
  <1> QED
    BY <1>3, <1>6, <1>8, <1>9, SameLog, SameReads, SameSealed

\* The rename keeps it.
LEMMA BaseReplace ==
    ASSUME BaseInv, NEW a \in Archiver, Replace(a)
    PROVE  BaseInv'
  <1> USE DEF BaseInv
  <1>1. /\ apc[a] = "replace" /\ tmp # None /\ target' = tmp /\ tmp' = None
        /\ inode' = Without(target) /\ sealed' = sealed \cup {Container(Manifest(a))}
        /\ AEnd(a) /\ UNCHANGED <<logVars, damage, readVars>>
    BY DEF Replace
  <1>2. FileType'
    BY <1>1 DEF FileType, Without
  <1>3. CallType' /\ JobInv'
    BY <1>1, EndStep
  <1>4. FileInv'
    <2>1. "ended" \notin Early /\ AGoto(a, "ended")
      BY <1>1 DEF Early, AEnd
    <2>2. \A b \in Archiver : b # a /\ (b = tmp' \/ b = target') => b = tmp \/ b = target
      BY <1>1, ArchiveAssumption
    <2> QED
      BY <2>1, <2>2, FileStep
  <1>5. SealedInv'
    <2>1. SealedOk(Container(Manifest(a)))
      BY <1>1, BusyJob
    <2> QED
      BY <1>1, <2>1 DEF SealedInv
  <1> QED
    BY <1>1, <1>2, <1>3, <1>4, <1>5, SameLog, SameReads

\* A failure at any point keeps it.
LEMMA BaseCreateFails ==
    ASSUME BaseInv, NEW a \in Archiver, CreateFails(a)
    PROVE  BaseInv'
  <1> USE DEF BaseInv
  <1>1. /\ tmp' = None /\ inode' = Without(tmp) /\ AEnd(a)
        /\ UNCHANGED <<logVars, target, sealed, damage, readVars>>
    BY DEF CreateFails
  <1>2. FileType'
    BY <1>1 DEF FileType, Without
  <1>3. CallType' /\ JobInv'
    BY <1>1, EndStep
  <1>4. FileInv'
    <2>1. "ended" \notin Early /\ AGoto(a, "ended")
      BY <1>1 DEF Early, AEnd
    <2>2. \A b \in Archiver : b # a /\ (b = tmp' \/ b = target') => b = tmp \/ b = target
      BY <1>1, ArchiveAssumption
    <2> QED
      BY <2>1, <2>2, FileStep
  <1> QED
    BY <1>1, <1>2, <1>3, <1>4, SameLog, SameReads, SameSealed

\* What damage makes of an archive with the payload and the authenticated data of y.
LEMMA DamagedIs ==
    ASSUME NEW x \in Archives, NEW y \in Damaged(x)
    PROVE  \/ y = Broken
           \/ /\ y \in Archives /\ y.plain = x.plain /\ y.manifest.nonce = x.manifest.nonce
              /\ y.aad = x.aad \/ y.aad = [x.aad EXCEPT !.nonce = None]
  <1>1. PICK m, d : m = x.manifest /\ d = x.aad
    OBVIOUS
  <1>2. m \in Manifests /\ d \in Manifests /\ x.plain \in Text
    BY <1>1 DEF Archives
  <1>3. CASE y = [x EXCEPT !.manifest.strict = ~@]
    <2>1. PICK k : k = [m EXCEPT !.strict = ~@]
      OBVIOUS
    <2>2. k \in Manifests /\ k.nonce = m.nonce
      BY ONLY <1>2, <2>1 DEF Manifests
    <2>3. y = [x EXCEPT !.manifest = k]
      BY <1>1, <1>3, <2>1
    <2>4. y \in Archives /\ y.plain = x.plain /\ y.manifest = k /\ y.aad = x.aad
      BY ONLY <2>2, <2>3, x \in Archives DEF Archives
    <2> QED
      BY <1>1, <2>2, <2>4
  <1>4. CASE y = [x EXCEPT !.aad.nonce = None]
    <2>1. PICK k : k = [d EXCEPT !.nonce = None]
      OBVIOUS
    <2>2. k \in Manifests
      BY ONLY <1>2, <2>1 DEF Manifests
    <2>3. y = [x EXCEPT !.aad = k]
      BY <1>1, <1>4, <2>1
    <2>4. y \in Archives /\ y.plain = x.plain /\ y.manifest = x.manifest /\ y.aad = k
      BY ONLY <2>2, <2>3, x \in Archives DEF Archives
    <2> QED
      BY <1>1, <2>1, <2>4
  <1> QED
    BY <1>3, <1>4 DEF Damaged

\* Damage of the stored archive keeps it.
LEMMA BaseDamage ==
    ASSUME BaseInv, Damage
    PROVE  BaseInv'
  <1> USE DEF BaseInv
  <1>1. PICK y \in Damaged(inode[target]) : inode' = [inode EXCEPT ![target] = y]
    BY DEF Damage
  <1>2. /\ target # None /\ inode[target] # Broken
        /\ UNCHANGED <<logVars, apc, job, tmp, target, sealed, readVars>>
    BY DEF Damage
  <1>3. target \in Archiver /\ inode[target] \in Archives
    BY <1>2 DEF FileType
  <1>4. y \in Archives \cup {Broken} /\ y # None
    BY <1>1, <1>3, DamagedIs, ArchiveAssumption
  <1>5. FileType'
    <2>1. inode' \in [Archiver -> Archives \cup {None, Broken}] /\ inode'[target] = y
          /\ \A b \in Archiver : b # target => inode'[b] = inode[b]
      BY <1>1, <1>3, <1>4 DEF FileType
    <2> QED
      BY <1>2, <1>4, <2>1 DEF FileType
  <1>6. CallType' /\ JobInv' /\ FileInv'
    <2>1. log' = log
      BY <1>2, SameLog
    <2> QED
      BY <1>2, <2>1 DEF CallType, JobInv, FileInv, Idle
  <1> QED
    BY <1>2, <1>5, <1>6, SameLog, SameReads, SameSealed

----------------------------------------------------------------------------
(* The readers. *)

\* A verify command that is done: without the archive's contents, or with a sealed
\* archive and, given a registry, the whole report.
DoneOk(q, o, t, S) ==
    \/ o = None /\ ~t.container /\ (q.key # "none" => t.errors)
    \/ o \in S /\ q.key = "right" /\ t.container /\ (q.registry => t = Report(o))

\* A reader at pc with the arguments q, the archive o and the trust t, when S is sealed.
ReaderOk(pc, q, o, t, S) ==
    /\ pc \notin {"none", "ended"} => q \in Asks
    /\ pc = "none" => o = None /\ t = Untrusted
    /\ pc = "structure" => q.op = "verify" /\ o = None /\ t = Untrusted
    /\ pc = "decrypt" => /\ q.key # "none" /\ o = None
                         /\ t = IF q.op = "verify" THEN [Untrusted EXCEPT !.structure = TRUE]
                                ELSE Untrusted
    /\ pc = "publish" => q.op = "decrypt" /\ q.key = "right" /\ o \in S
    /\ pc = "summarise" => /\ q.op = "verify" /\ q.key = "right" /\ o \in S
                           /\ t = [Untrusted EXCEPT !.structure = TRUE, !.container = TRUE,
                                                    !.hash = TRUE]
    /\ pc = "done" => q.op = "verify" /\ DoneOk(q, o, t, S)

ReaderInv == \A r \in Reader : ReaderOk(rpc[r], ask[r], opened[r], trust[r], sealed)

\* What the archive's path names is sealed, if its tag verifies.
StoredSound == \A k : StructureValid(Stored) /\ Authentic(Stored, k) => Stored \in sealed

RStep(r, l, q, o, t) ==
    /\ rpc' = [rpc EXCEPT ![r] = l] /\ ask' = [ask EXCEPT ![r] = q]
    /\ opened' = [opened EXCEPT ![r] = o] /\ trust' = [trust EXCEPT ![r] = t]

RValue(l, q, o, t) ==
    l \in RPcs /\ q \in Asks \cup {None} /\ o \in Archives \cup {None} /\ t \in Trusts

\* A step of reader r, and what it makes of the invariant.
ReaderStep(r) ==
    \E l, q, o, t :
        /\ RStep(r, l, q, o, t) /\ RValue(l, q, o, t)
        /\ ReaderOk(rpc[r], ask[r], opened[r], trust[r], sealed) /\ StoredSound
           => ReaderOk(l, q, o, t, sealed)

\* The types of one reader's state.
LEMMA ReadTypes ==
    ASSUME ReadType, NEW r \in Reader
    PROVE  /\ rpc[r] \in RPcs /\ ask[r] \in Asks \cup {None}
           /\ opened[r] \in Archives \cup {None} /\ trust[r] \in Trusts
           /\ rpc = [rpc EXCEPT ![r] = rpc[r]] /\ ask = [ask EXCEPT ![r] = ask[r]]
           /\ opened = [opened EXCEPT ![r] = opened[r]] /\ trust = [trust EXCEPT ![r] = trust[r]]
  BY DEF ReadType

\* A reader starts with an empty trust report.
LEMMA UntrustedType ==
    Untrusted \in Trusts
  BY DEF Untrusted, Trusts

\* Ending is a step of one reader.
LEMMA REndStep ==
    ASSUME NEW r \in Reader, REnd(r)
    PROVE  ReaderStep(r)
  <1>1. RStep(r, "ended", None, None, Untrusted)
    BY DEF REnd, RGoto, RStep
  <1>2. RValue("ended", None, None, Untrusted)
    BY UntrustedType DEF RValue, RPcs
  <1>3. ReaderOk("ended", None, None, Untrusted, sealed)
    BY DEF ReaderOk
  <1> QED
    BY <1>1, <1>2, <1>3 DEF ReaderStep

\* Starting is a step of one reader that keeps what readers know.
LEMMA BeginReadStep ==
    ASSUME ReadType, NEW r \in Reader, NEW op \in {"verify", "decrypt"},
           NEW key \in {"none", "wrong", "right"}, NEW registry \in BOOLEAN, NEW force \in BOOLEAN,
           BeginRead(r, op, key, registry, force)
    PROVE  ReaderStep(r)
  <1>1. PICK q, l : /\ q = [op |-> op, key |-> key, registry |-> registry]
                    /\ l = IF op = "verify" THEN "structure" ELSE "decrypt"
    OBVIOUS
  <1>2. q \in Asks /\ q.op = op /\ q.key = key
    BY <1>1 DEF Asks
  <1>3. /\ rpc[r] = "none" /\ rpc' = [rpc EXCEPT ![r] = l] /\ ask' = [ask EXCEPT ![r] = q]
        /\ opened' = opened /\ trust' = trust
    BY <1>1 DEF BeginRead, RGoto
  <1>4. op = "decrypt" => key # "none"
    BY DEF BeginRead
  <1>5. RStep(r, l, q, opened[r], trust[r])
    BY <1>3, ReadTypes DEF RStep
  <1>6. RValue(l, q, opened[r], trust[r])
    BY <1>1, <1>2, ReadTypes DEF RValue, RPcs
  <1>7. ASSUME ReaderOk(rpc[r], ask[r], opened[r], trust[r], sealed)
        PROVE  ReaderOk(l, q, opened[r], trust[r], sealed)
    <2>1. opened[r] = None /\ trust[r] = Untrusted
      BY <1>3, <1>7 DEF ReaderOk
    <2> QED
      BY <1>1, <1>2, <1>4, <2>1 DEF ReaderOk
  <1> QED
    BY <1>5, <1>6, <1>7 DEF ReaderStep

\* The first open of verify_archive is such a step.
LEMMA CheckStructureStep ==
    ASSUME ReadType, NEW r \in Reader, CheckStructure(r)
    PROVE  ReaderStep(r)
  <1>1. PICK v, t, u, l : /\ v = StructureValid(Stored) /\ t = trust[r]
                          /\ u = [t EXCEPT !.structure = v, !.errors = ~v]
                          /\ l = IF v /\ ask[r].key # "none" THEN "decrypt" ELSE "done"
    OBVIOUS
  <1>2. v \in BOOLEAN
    BY <1>1 DEF StructureValid
  <1>3. /\ rpc[r] = "structure" /\ rpc' = [rpc EXCEPT ![r] = l]
        /\ ask' = ask /\ opened' = opened
        /\ trust' = [trust EXCEPT ![r].structure = StructureValid(Stored),
                                  ![r].errors = ~StructureValid(Stored)]
    BY <1>1 DEF CheckStructure, RGoto
  <1>4. trust \in [Reader -> Trusts] /\ t \in Trusts
    BY <1>1 DEF ReadType
  <1>5. trust' = [trust EXCEPT ![r] = u]
    BY ONLY <1>1, <1>3, <1>4, r \in Reader
  <1>6. u \in Trusts
    BY ONLY <1>1, <1>2, <1>4 DEF Trusts
  <1>7. RStep(r, l, ask[r], opened[r], u)
    BY <1>3, <1>5, ReadTypes DEF RStep
  <1>8. RValue(l, ask[r], opened[r], u)
    BY <1>1, <1>6, ReadTypes DEF RValue, RPcs
  <1>9. ASSUME ReaderOk(rpc[r], ask[r], opened[r], trust[r], sealed)
        PROVE  ReaderOk(l, ask[r], opened[r], u, sealed)
    <2>1. ask[r].op = "verify" /\ ask[r] \in Asks /\ opened[r] = None /\ t = Untrusted
      BY <1>1, <1>3, <1>9 DEF ReaderOk
    <2>2. ASSUME v PROVE u = [Untrusted EXCEPT !.structure = TRUE] /\ ~u.container
      <3>1. u = [t EXCEPT !.structure = TRUE, !.errors = FALSE]
        BY <1>1, <1>2, <2>2, Zenon
      <3>2. t.errors = FALSE /\ t.structure = FALSE /\ t.container = FALSE
        BY ONLY <2>1 DEF Untrusted
      <3>3. u = [t EXCEPT !.structure = TRUE]
        BY ONLY <1>4, <3>1, <3>2 DEF Trusts
      <3>4. u.container = t.container
        BY ONLY <1>4, <3>3 DEF Trusts
      <3> QED
        BY <2>1, <3>2, <3>3, <3>4
    <2>3. ASSUME ~v PROVE u.errors /\ ~u.container
      <3>1. u = [t EXCEPT !.structure = FALSE, !.errors = TRUE]
        BY <1>1, <1>2, <2>3, Zenon
      <3> QED
        BY ONLY <2>1, <3>1 DEF Untrusted
    <2>4. CASE v /\ ask[r].key # "none"
      <3>1. l = "decrypt"
        BY <1>1, <2>4
      <3> QED
        BY <2>1, <2>2, <2>4, <3>1 DEF ReaderOk
    <2>5. CASE ~(v /\ ask[r].key # "none")
      <3>1. l = "done"
        BY <1>1, <2>5
      <3>2. DoneOk(ask[r], opened[r], u, sealed)
        BY <2>1, <2>2, <2>3, <2>5 DEF DoneOk
      <3> QED
        BY <2>1, <3>1, <3>2 DEF ReaderOk
    <2> QED
      BY <2>4, <2>5
  <1> QED
    BY <1>7, <1>8, <1>9 DEF ReaderStep

\* An archive whose structure is valid is one the path names.
LEMMA StoredType ==
    ASSUME FileType, StructureValid(Stored)
    PROVE  target # None /\ target \in Archiver /\ Stored = inode[target] /\ Stored \in Archives
  BY DEF FileType, Stored, StructureValid

\* The second open, which checks the tag and the digest, is such a step.
LEMMA DecryptStep ==
    ASSUME FileType, ReadType, NEW r \in Reader, Decrypt(r)
    PROVE  ReaderStep(r)
  <1>1. PICK q, t, u, l, x : /\ q = ask[r] /\ t = trust[r] /\ x = Stored
                             /\ u = [t EXCEPT !.container = TRUE, !.hash = TRUE]
                             /\ l = CASE ask[r].op = "decrypt" -> "publish"
                                      [] ask[r].op = "verify" /\ ask[r].registry -> "summarise"
                                      [] OTHER -> "done"
    OBVIOUS
  <1>2. /\ rpc[r] = "decrypt" /\ rpc' = [rpc EXCEPT ![r] = l] /\ ask' = ask
        /\ opened' = [opened EXCEPT ![r] = x]
        /\ trust' = [trust EXCEPT ![r].container = TRUE, ![r].hash = TRUE]
    BY <1>1 DEF Decrypt, RGoto
  <1>3. StructureValid(Stored) /\ Authentic(Stored, q.key) /\ q.key = "right"
    BY <1>1 DEF Decrypt, Decrypts, Authentic
  <1>4. trust \in [Reader -> Trusts] /\ t \in Trusts /\ x \in Archives
    BY <1>1, <1>3, StoredType DEF ReadType
  <1>5. trust' = [trust EXCEPT ![r] = u]
    BY ONLY <1>1, <1>2, <1>4, r \in Reader
  <1>6. u \in Trusts /\ u.container
    BY ONLY <1>1, <1>4 DEF Trusts
  <1>7. /\ l \in {"publish", "summarise", "done"} /\ (l = "publish" <=> q.op = "decrypt")
        /\ l = "summarise" => q.op = "verify"
        /\ l = "done" /\ q.op = "verify" => ~q.registry
    <2>1. CASE q.op = "decrypt"
      BY <1>1, <2>1
    <2>2. CASE q.op = "verify" /\ q.registry
      BY <1>1, <2>2
    <2>3. CASE q.op # "decrypt" /\ ~(q.op = "verify" /\ q.registry)
      BY <1>1, <2>3
    <2> QED
      BY <2>1, <2>2, <2>3
  <1>8. RStep(r, l, q, x, u)
    BY <1>1, <1>2, <1>5, ReadTypes DEF RStep
  <1>9. RValue(l, q, x, u)
    BY <1>1, <1>4, <1>6, <1>7, ReadTypes DEF RValue, RPcs
  <1>10. ASSUME ReaderOk(rpc[r], q, opened[r], t, sealed), StoredSound
         PROVE  ReaderOk(l, q, x, u, sealed)
    <2>1. q \in Asks
          /\ t = IF q.op = "verify" THEN [Untrusted EXCEPT !.structure = TRUE] ELSE Untrusted
      BY <1>2, <1>10 DEF ReaderOk
    <2>2. x \in sealed
      BY <1>1, <1>3, <1>10 DEF StoredSound
    <2>3. q.op \in {"verify", "decrypt"}
      BY <2>1 DEF Asks
    <2>4. q.op = "verify" => u = [Untrusted EXCEPT !.structure = TRUE, !.container = TRUE,
                                                   !.hash = TRUE]
      BY <1>1, <2>1 DEF Untrusted
    <2>5. l = "done" => DoneOk(q, x, u, sealed)
      BY <1>3, <1>6, <1>7, <2>2, <2>3 DEF DoneOk
    <2> QED
      BY <1>3, <1>7, <2>1, <2>2, <2>3, <2>4, <2>5 DEF ReaderOk
  <1> QED
    BY <1>1, <1>8, <1>9, <1>10 DEF ReaderStep

\* A refused decryption is such a step.
LEMMA DecryptFailsStep ==
    ASSUME ReadType, NEW r \in Reader, DecryptFails(r)
    PROVE  ReaderStep(r)
  <1>1. CASE ask[r].op = "decrypt"
    <2>1. REnd(r)
      BY <1>1 DEF DecryptFails
    <2> QED
      BY <2>1, REndStep
  <1>2. CASE ask[r].op # "decrypt"
    <2>1. PICK t, u : t = trust[r] /\ u = [t EXCEPT !.errors = TRUE]
      OBVIOUS
    <2>2. /\ rpc[r] = "decrypt" /\ rpc' = [rpc EXCEPT ![r] = "done"] /\ ask' = ask
          /\ opened' = opened /\ trust' = [trust EXCEPT ![r].errors = TRUE]
      BY <1>2 DEF DecryptFails, RGoto
    <2>3. trust \in [Reader -> Trusts] /\ t \in Trusts
      BY <2>1 DEF ReadType
    <2>4. trust' = [trust EXCEPT ![r] = u]
      BY ONLY <2>1, <2>2, <2>3, r \in Reader
    <2>5. u \in Trusts /\ u.errors /\ u.container = t.container
      BY ONLY <2>1, <2>3 DEF Trusts
    <2>6. RStep(r, "done", ask[r], opened[r], u)
      BY <2>2, <2>4, ReadTypes DEF RStep
    <2>7. RValue("done", ask[r], opened[r], u)
      BY <2>5, ReadTypes DEF RValue, RPcs
    <2>8. ASSUME ReaderOk(rpc[r], ask[r], opened[r], t, sealed)
          PROVE  ReaderOk("done", ask[r], opened[r], u, sealed)
      <3>1. ask[r] \in Asks /\ opened[r] = None
            /\ t = IF ask[r].op = "verify" THEN [Untrusted EXCEPT !.structure = TRUE] ELSE Untrusted
        BY <2>2, <2>8 DEF ReaderOk
      <3>2. ask[r].op = "verify"
        BY <1>2, <3>1 DEF Asks
      <3>3. ~t.container
        BY <3>1 DEF Untrusted
      <3>4. DoneOk(ask[r], opened[r], u, sealed)
        BY <2>5, <3>1, <3>3 DEF DoneOk
      <3> QED
        BY <3>1, <3>2, <3>4 DEF ReaderOk
    <2> QED
      BY <2>1, <2>6, <2>7, <2>8 DEF ReaderStep
  <1> QED
    BY <1>1, <1>2

\* The trust report is such a step, and is the report of what was decrypted.
LEMMA SummariseStep ==
    ASSUME ReadType, NEW r \in Reader, Summarise(r)
    PROVE  ReaderStep(r)
  <1>1. PICK x, t, d, e, n : /\ x = opened[r] /\ t = trust[r] /\ d = Describes(x.manifest, x.plain)
                             /\ e = EvidenceTrust(x.plain)
                             /\ n = (d /\ Summary(x.plain).nodes # {})
    OBVIOUS
  <1>2. /\ rpc[r] = "summarise" /\ rpc' = [rpc EXCEPT ![r] = "done"] /\ ask' = ask
        /\ opened' = opened
        /\ trust' = [trust EXCEPT ![r].format = e.format, ![r].signatures = e.signatures,
                                  ![r].chain = e.chain, ![r].node = n, ![r].errors = ~d]
    BY <1>1 DEF Summarise, RGoto
  <1>3. d \in BOOLEAN /\ n \in BOOLEAN /\ e.format \in BOOLEAN /\ e.signatures \in BOOLEAN
        /\ e.chain \in BOOLEAN
    BY <1>1 DEF Describes, EvidenceTrust
  <1>4. PICK u : u = [t EXCEPT !.format = e.format, !.signatures = e.signatures,
                               !.chain = e.chain, !.node = n, !.errors = ~d]
    OBVIOUS
  <1>5. trust \in [Reader -> Trusts] /\ t \in Trusts
    BY <1>1 DEF ReadType
  <1>6. trust' = [trust EXCEPT ![r] = u]
    BY ONLY <1>1, <1>2, <1>4, <1>5, r \in Reader
  <1>7. u \in Trusts /\ u.container = t.container
    BY ONLY <1>3, <1>4, <1>5, ZenonT(60) DEF Trusts
  <1>8. RStep(r, "done", ask[r], opened[r], u)
    BY <1>2, <1>6, ReadTypes DEF RStep
  <1>9. RValue("done", ask[r], opened[r], u)
    BY <1>7, ReadTypes DEF RValue, RPcs
  <1>10. ASSUME ReaderOk(rpc[r], ask[r], x, t, sealed)
         PROVE  ReaderOk("done", ask[r], x, u, sealed)
    <2>1. /\ ask[r] \in Asks /\ ask[r].op = "verify" /\ ask[r].key = "right" /\ x \in sealed
          /\ t = [Untrusted EXCEPT !.structure = TRUE, !.container = TRUE, !.hash = TRUE]
      BY <1>2, <1>10 DEF ReaderOk
    <2>2. u = [structure |-> TRUE, container |-> TRUE, hash |-> TRUE, format |-> e.format,
               signatures |-> e.signatures, chain |-> e.chain, node |-> n, errors |-> ~d]
      BY ONLY <1>4, <2>1 DEF Untrusted
    <2>3. u = Report(x)
      BY <1>1, <2>2, Zenon DEF Report
    <2>4. u.container
      BY <2>2
    <2>5. DoneOk(ask[r], x, u, sealed)
      BY <2>1, <2>3, <2>4 DEF DoneOk
    <2> QED
      BY <2>1, <2>5 DEF ReaderOk
  <1> QED
    BY <1>1, <1>8, <1>9, <1>10 DEF ReaderStep

\* Every step of a reader is such a step; the output changes only by a publication.
LEMMA ReadArchiveStep ==
    ASSUME FileType, ReadType, NEW r \in Reader, ReadArchive(r)
    PROVE  /\ ReaderStep(r) /\ UNCHANGED <<logVars, makeVars, damage>>
           /\ dest' = dest \/ (rpc[r] = "publish" /\ REnd(r)
                               /\ dest' = Plaintext(opened[r], ask[r].key))
  <1>1. CASE \E op \in {"verify", "decrypt"}, key \in {"none", "wrong", "right"},
                registry, force \in BOOLEAN : BeginRead(r, op, key, registry, force)
    BY <1>1, BeginReadStep, ZenonT(60) DEF BeginRead
  <1>2. CASE ReadRefused(r)
    BY <1>2, REndStep DEF ReadRefused
  <1>3. CASE CheckStructure(r)
    BY <1>3, CheckStructureStep DEF CheckStructure
  <1>4. CASE Decrypt(r)
    BY <1>4, DecryptStep DEF Decrypt
  <1>5. CASE DecryptFails(r)
    BY <1>5, DecryptFailsStep DEF DecryptFails
  <1>6. CASE Publish(r)
    BY <1>6, REndStep DEF Publish
  <1>7. CASE Summarise(r)
    BY <1>7, SummariseStep DEF Summarise
  <1>8. CASE ReaderKilled(r)
    BY <1>8, REndStep DEF ReaderKilled
  <1> QED
    BY <1>1, <1>2, <1>3, <1>4, <1>5, <1>6, <1>7, <1>8 DEF ReadArchive

----------------------------------------------------------------------------
(* The invariant holds, whether calls overlap or not. *)

\* A step of one reader leaves the others alone.
LEMMA ReaderTypes ==
    ASSUME ReadType, NEW r \in Reader, NEW l, NEW q, NEW o, NEW t,
           RStep(r, l, q, o, t), RValue(l, q, o, t)
    PROVE  /\ ReadType'
           /\ rpc'[r] = l /\ ask'[r] = q /\ opened'[r] = o /\ trust'[r] = t
           /\ \A b \in Reader : b # r => /\ rpc'[b] = rpc[b] /\ ask'[b] = ask[b]
                                         /\ opened'[b] = opened[b] /\ trust'[b] = trust[b]
  BY DEF ReadType, RStep, RValue

\* A reader leaves the log, the calls and the files alone.
LEMMA SameMake ==
    ASSUME BaseInv, UNCHANGED <<logVars, makeVars>>
    PROVE  LogType' /\ FileType' /\ CallType' /\ JobInv' /\ FileInv' /\ SealedInv'
  <1> USE DEF BaseInv
  <1>1. UNCHANGED <<apc, job, inode, tmp, target, sealed>>
    BY DEF makeVars
  <1>2. LogType' /\ log' = log
    BY SameLog
  <1>3. FileType' /\ CallType' /\ SealedInv'
    BY <1>1, SameFiles, SameSealed DEF CallType
  <1>4. JobInv' /\ FileInv'
    BY <1>1, <1>2 DEF JobInv, FileInv, Idle
  <1> QED
    BY <1>2, <1>3, <1>4

\* A reader keeps the invariant.
LEMMA BaseReader ==
    ASSUME BaseInv, NEW r \in Reader, ReadArchive(r)
    PROVE  BaseInv'
  <1>1. ReaderStep(r) /\ UNCHANGED <<logVars, makeVars>>
    BY ReadArchiveStep DEF BaseInv
  <1>2. ReadType'
    BY <1>1, ReaderTypes DEF BaseInv, ReaderStep
  <1> QED
    BY <1>1, <1>2, SameMake DEF BaseInv

\* Every step of a call keeps it.
LEMMA BaseCreate ==
    ASSUME BaseInv, NEW a \in Archiver, Create(a)
    PROVE  BaseInv'
  <1>1. CASE \E node \in Node, strict, force \in BOOLEAN : Begin(a, node, strict, force)
    BY <1>1, BaseBegin
  <1>2. CASE BeginRefused(a)
    BY <1>2, EndQuietly DEF BeginRefused
  <1>3. CASE Scan(a)
    BY <1>3, BaseScan
  <1>4. CASE Verify(a)
    BY <1>4, BaseVerify
  <1>5. CASE Read(a)
    BY <1>5, BaseRead
  <1>6. CASE OpenTmp(a)
    BY <1>6, BaseOpenTmp
  <1>7. CASE Fill(a)
    BY <1>7, BaseFill
  <1>8. CASE Replace(a)
    BY <1>8, BaseReplace
  <1>9. CASE CreateFails(a)
    BY <1>9, BaseCreateFails
  <1>10. CASE CreateKilled(a)
    BY <1>10, EndQuietly DEF CreateKilled
  <1> QED
    BY <1>1, <1>2, <1>3, <1>4, <1>5, <1>6, <1>7, <1>8, <1>9, <1>10 DEF Create

\* Every step keeps it.
LEMMA BaseStep ==
    ASSUME BaseInv, [Next]_vars
    PROVE  BaseInv'
  <1>1. CASE Grow
    BY <1>1, BaseGrow
  <1>2. CASE Damage
    BY <1>2, BaseDamage
  <1>3. CASE \E a \in Archiver : Create(a)
    BY <1>3, BaseCreate
  <1>4. CASE \E r \in Reader : ReadArchive(r)
    BY <1>4, BaseReader
  <1>5. CASE UNCHANGED vars
    <2>1. UNCHANGED <<logVars, makeVars, readVars>>
      BY <1>5 DEF vars
    <2> QED
      BY <2>1, SameMake, SameReads DEF BaseInv
  <1> QED
    BY <1>1, <1>2, <1>3, <1>4, <1>5 DEF Next

DamageOk == damage \in 0..MaxDamage

\* The number of damages stays within its bound.
LEMMA DamageStep ==
    ASSUME DamageOk, [Next]_vars
    PROVE  DamageOk'
  <1> USE DEF DamageOk
  <1>1. CASE Damage
    BY <1>1, ArchiveAssumption DEF Damage
  <1>2. ASSUME damage' = damage PROVE DamageOk'
    BY <1>2
  <1>3. CASE Grow
    BY <1>2, <1>3 DEF Grow
  <1>4. CASE \E a \in Archiver : Create(a)
    BY <1>2, <1>4 DEF Create, Begin, BeginRefused, Scan, Verify, Read, OpenTmp, Fill, Replace,
                      CreateFails, CreateKilled
  <1>5. CASE \E r \in Reader : ReadArchive(r)
    BY <1>2, <1>5, ZenonT(60) DEF ReadArchive, BeginRead, ReadRefused, CheckStructure, Decrypt,
       DecryptFails,
                      Publish, Summarise, ReaderKilled
  <1>6. CASE UNCHANGED vars
    BY <1>2, <1>6 DEF vars
  <1> QED
    BY <1>1, <1>3, <1>4, <1>5, <1>6 DEF Next

\* The types of the state of create_archive, verify_archive and decrypt_archive, and
\* the two names of an archive's file.
THEOREM TypeCorrect ==
    Spec => []TypeOK
  <1>1. Init => BaseInv /\ DamageOk
    BY BaseInit, ArchiveAssumption DEF Init, DamageOk
  <1>2. BaseInv /\ DamageOk /\ [Next]_vars
        => BaseInv' /\ DamageOk'
    BY BaseStep, DamageStep
  <1>3. BaseInv /\ DamageOk => TypeOK
    BY DEF BaseInv, LogType, FileType, CallType, ReadType, SealedInv, SealedOk, DamageOk,
       TypeOK,
           APcs, RPcs
  <1> QED
    BY <1>1, <1>2, <1>3, PTL DEF Spec

\* A strictly verified archive holds the records it counts, but perhaps the last, as a
\* genuine chain.
LEMMA SealedCovers ==
    ASSUME NEW x, SealedOk(x), x.manifest.strict
    PROVE  /\ x.manifest.count - 1 <= Len(x.plain)
           /\ GenuineChain(x.manifest.node, SubSeq(x.plain, 1, x.manifest.count - 1))
  <1>1. PICK s, m, n : s = x.plain /\ m = x.manifest /\ n = m.node
    OBVIOUS
  <1>2. s \in Text /\ Recorded(m, s)
    BY <1>1 DEF SealedOk, Archives
  <1>3. PICK p \in Text : m.count = Len(p) /\ Kept(p, s) /\ GenuineChain(n, ButLast(p))
    BY <1>1, <1>2 DEF Recorded
  <1>4. Len(p) \in Nat /\ Len(s) \in Nat /\ Len(p) <= Len(s) + 1
    BY <1>2, <1>3, TextAt DEF Kept
  <1>5. SubSeq(s, 1, Len(p) - 1) = ButLast(p)
    <2>1. CASE Len(p) = 0
      BY <1>2, <2>1 DEF ButLast, Text
    <2>2. CASE Len(p) # 0
      <3>1. PICK k \in Nat : k = Len(p) - 1
        <4>1. Len(p) - 1 \in Nat
          BY ONLY Len(p) \in Nat, <1>4, <2>2
        <4> QED
          BY <4>1, Zenon
      <3>2. SubSeq(s, 1, k) \in Text /\ Len(SubSeq(s, 1, k)) = k
        BY <1>2, <1>4, <3>1 DEF Text
      <3>3. \A i \in 1..k : SubSeq(s, 1, k)[i] = s[i]
        BY <1>2, <1>4, <3>1 DEF Text
      <3>4. ButLast(p) \in Text /\ Len(ButLast(p)) = k
        BY <1>3, <2>2, <3>1, ButLastIs
      <3>5. \A i \in 1..k : ButLast(p)[i] = s[i]
        BY <1>3, <3>4, ButLastIs DEF Kept
      <3> QED
        BY <3>1, <3>2, <3>3, <3>4, <3>5 DEF Text
    <2> QED
      BY <2>1, <2>2
  <1>6. Len(p) - 1 <= Len(s)
    BY ONLY <1>4
  <1> QED
    BY <1>1, <1>3, <1>5, <1>6, Zenon

\* However the log grows and is rolled back during create_archive, and though calls of it
\* overlap: the records that the manifest of a strictly verified archive counts are in
\* the archive, and a genuine chain of the manifest's node, but perhaps for the last.
THEOREM StrictCovers ==
    Spec => []StrictCoversCount
  <1>1. Init => BaseInv
    BY BaseInit
  <1>2. BaseInv /\ [Next]_vars => BaseInv'
    BY BaseStep
  <1>3. BaseInv => StrictCoversCount
    BY SealedCovers DEF BaseInv, SealedInv, StrictCoversCount
  <1> QED
    BY <1>1, <1>2, <1>3, PTL DEF Spec

----------------------------------------------------------------------------
(* Calls of create_archive one after the other. *)

\* The temporary file is the one call's that is writing.
WritingOk(a) ==
    /\ apc[a] \in {"fill", "replace"} => tmp # None /\ job[a].fd = tmp
    /\ apc[a] = "fill" => inode[tmp] = Broken
    /\ apc[a] = "replace" => inode[tmp] = Container(Manifest(a))

Serial ==
    /\ \A a, b \in Archiver : ~Idle(a) /\ ~Idle(b) => a = b
    /\ \A a \in Archiver : WritingOk(a)

\* The stored file x, after d damages: sealed if there was none, and else with the
\* payload and the authenticated data of a sealed archive, or without its nonce.
FileOk(x, S, d) ==
    /\ d = 0 => x \in S
    /\ x # Broken =>
          /\ x.manifest.nonce \in Archiver
          /\ \E y \in S : /\ x.plain = y.plain
                          /\ x.aad = y.aad \/ x.aad = [y.aad EXCEPT !.nonce = None]

TargetInv == target # None => FileOk(inode[target], sealed, damage)

DestInv == dest = None \/ \E x \in sealed : x.plain = dest

FullInv == BaseInv /\ DamageOk /\ Serial /\ TargetInv /\ ReaderInv /\ DestInv

\* With one call at a time, a step of it keeps what is known of the temporary file.
LEMMA SerialStep ==
    ASSUME CallType, NEW a \in Archiver, NEW l, NEW j,
           AGoto(a, l), job' = [job EXCEPT ![a] = j],
           \A b \in Archiver : b # a => Idle(b),
           l \in {"fill", "replace"} => tmp' # None /\ j.fd = tmp',
           l = "fill" => inode'[tmp'] = Broken,
           l = "replace" => inode'[tmp'] = Container(ManifestOf(a, j))
    PROVE  Serial'
  <1>1. apc'[a] = l /\ job'[a] = j
        /\ \A b \in Archiver : b # a => apc'[b] = apc[b] /\ job'[b] = job[b]
    BY DEF CallType, AGoto
  <1>2. \A b \in Archiver : b # a => Idle(b)'
    BY <1>1 DEF Idle
  <1>4. ASSUME NEW b \in Archiver PROVE WritingOk(b)'
    <2>1. CASE b = a
      <3>1. Manifest(a)' = ManifestOf(a, j)
        BY <1>1 DEF Manifest, ManifestOf
      <3>2. Container(Manifest(a))' = Container(ManifestOf(a, j))
        BY <3>1 DEF Container
      <3> QED
        BY <1>1, <2>1, <3>2 DEF WritingOk
    <2>2. CASE b # a
      BY <1>2, <2>2 DEF Idle, WritingOk
    <2> QED
      BY <2>1, <2>2
  <1> QED
    BY <1>2, <1>4 DEF Serial

\* A call that ends: the others were idle.
LEMMA SerialEnd ==
    ASSUME CallType, Serial, NEW a \in Archiver, ~Idle(a), AEnd(a)
    PROVE  Serial'
  <1>1. AGoto(a, "ended") /\ job' = [job EXCEPT ![a] = None]
    BY DEF AEnd
  <1>2. \A b \in Archiver : b # a => Idle(b)
    BY DEF Serial
  <1> QED
    BY <1>1, <1>2, SerialStep

\* A call that goes on without touching a file.
LEMMA SerialQuiet ==
    ASSUME CallType, Serial, NEW a \in Archiver, NEW l, NEW j, ~Idle(a), l \in Early,
           AGoto(a, l), job' = [job EXCEPT ![a] = j]
    PROVE  Serial'
  <1>1. \A b \in Archiver : b # a => Idle(b)
    BY DEF Serial
  <1> QED
    BY <1>1, SerialStep DEF Early

\* Steps of others.
LEMMA SerialSame ==
    ASSUME Serial, UNCHANGED <<apc, job, tmp, target>>, tmp # None => inode'[tmp] = inode[tmp]
    PROVE  Serial'
  <1>1. \A a \in Archiver : Idle(a)' = Idle(a) /\ Manifest(a)' = Manifest(a)
    BY DEF Idle, Manifest
  <1>2. \A a \in Archiver : Container(Manifest(a))' = Container(Manifest(a))
    BY <1>1 DEF Container
  <1>3. \A a \in Archiver : WritingOk(a)'
    BY <1>2 DEF Serial, WritingOk
  <1>4. \A a, b \in Archiver : ~Idle(a)' /\ ~Idle(b)' => a = b
    BY DEF Serial, Idle
  <1> QED
    BY <1>3, <1>4 DEF Serial

\* A refused call leaves the running one alone.
LEMMA SerialRefused ==
    ASSUME CallType, Serial, NEW a \in Archiver, BeginRefused(a)
    PROVE  Serial'
  <1>1. apc[a] = "none" /\ AEnd(a) /\ UNCHANGED <<inode, tmp, target>>
    BY DEF BeginRefused
  <1>2. apc'[a] = "ended"
        /\ \A b \in Archiver : b # a => apc'[b] = apc[b] /\ job'[b] = job[b]
    BY <1>1 DEF CallType, AEnd, AGoto
  <1>3. \A b \in Archiver : ~Idle(b)' => ~Idle(b) /\ b # a
    BY <1>1, <1>2 DEF Idle
  <1>4. ASSUME NEW b \in Archiver PROVE WritingOk(b)'
    <2>1. CASE b = a
      BY <1>2, <2>1 DEF WritingOk
    <2>2. CASE b # a
      <3>1. Manifest(b)' = Manifest(b) /\ apc'[b] = apc[b] /\ job'[b] = job[b]
        BY <1>2, <2>2 DEF Manifest
      <3>2. Container(Manifest(b))' = Container(Manifest(b))
        BY <3>1 DEF Container
      <3> QED
        BY <1>1, <3>1, <3>2 DEF Serial, WritingOk
    <2> QED
      BY <2>1, <2>2
  <1>5. \A b, c \in Archiver : ~Idle(b)' /\ ~Idle(c)' => b = c
    BY <1>3 DEF Serial
  <1> QED
    BY <1>4, <1>5 DEF Serial

\* Without overlap a call starts only when no other runs.
LEMMA SerialBegin ==
    ASSUME ~Concurrent, CallType, NEW a \in Archiver, NEW node, NEW strict, NEW force,
           Begin(a, node, strict, force)
    PROVE  Serial'
  <1>1. PICK j : j = [node |-> node, strict |-> strict,
                      summary |-> None, content |-> <<>>, fd |-> None]
    OBVIOUS
  <1>2. AGoto(a, "scan") /\ job' = [job EXCEPT ![a] = j] /\ (\A b \in Archiver : Idle(b))
    BY <1>1 DEF Begin
  <1> QED
    BY <1>2, SerialStep

\* The passes over the log touch no file.
LEMMA SerialScan ==
    ASSUME BaseInv, Serial, NEW a \in Archiver, Scan(a) \/ Verify(a) \/ Read(a)
    PROVE  Serial'
  <1>1. CallType
    BY DEF BaseInv
  <1>2. ~Idle(a)
    BY DEF Scan, Verify, Read, Idle
  <1>3. CASE AEnd(a)
    BY <1>1, <1>2, <1>3, SerialEnd
  <1>4. CASE Scan(a)
    <2>1. PICK j, l : j = [job[a] EXCEPT !.summary = Summary(Present)]
                      /\ l = IF job[a].strict THEN "verify" ELSE "read"
      OBVIOUS
    <2>2. AGoto(a, l) /\ job' = [job EXCEPT ![a] = j] /\ l \in Early
      BY <1>4, <2>1 DEF Scan, Early
    <2> QED
      BY <1>1, <1>2, <2>2, SerialQuiet
  <1>5. CASE Verify(a) /\ ~AEnd(a)
    <2>1. AGoto(a, "read") /\ job' = job /\ "read" \in Early
      BY <1>5 DEF Verify, Early
    <2>2. job' = [job EXCEPT ![a] = job[a]]
      BY <1>1, <2>1 DEF CallType
    <2> QED
      BY <1>1, <1>2, <2>1, <2>2, SerialQuiet
  <1>6. CASE Read(a) /\ ~AEnd(a)
    <2>1. PICK j : j = [job[a] EXCEPT !.content = Present]
      OBVIOUS
    <2>2. AGoto(a, "open") /\ job' = [job EXCEPT ![a] = j] /\ "open" \in Early
      BY <1>6, <2>1 DEF Read, Early
    <2> QED
      BY <1>1, <1>2, <2>2, SerialQuiet
  <1> QED
    BY <1>3, <1>4, <1>5, <1>6

\* A temporary file is new or left over by a dead call; it is never the archive.
LEMMA SerialOpen ==
    ASSUME BaseInv, Serial, NEW a \in Archiver, OpenTmp(a)
    PROVE  Serial' /\ (target # None => inode'[target] = inode[target])
  <1>1. PICK f, k, j : /\ f = (IF tmp = None THEN a ELSE tmp)
                       /\ k = job[a] /\ j = [k EXCEPT !.fd = f]
    OBVIOUS
  <1>2. /\ apc[a] = "open" /\ tmp' = f /\ job' = [job EXCEPT ![a] = j] /\ AGoto(a, "fill")
        /\ inode' = [inode EXCEPT ![f] = Broken] /\ target' = target
    BY <1>1 DEF OpenTmp
  <1>3. a # target /\ f \in Archiver /\ f # target /\ f # None
    BY <1>1, <1>2, ArchiveAssumption DEF BaseInv, FileInv, FileType, Early
  <1>4. inode'[f] = Broken /\ (target # None => inode'[target] = inode[target])
    BY <1>2, <1>3 DEF BaseInv, FileType
  <1>5. k \in Jobs
    BY <1>1, <1>2, BusyJob DEF JobOk
  <1>6. j.fd = f
    BY ONLY <1>1, <1>5 DEF Jobs
  <1>7. ~Idle(a)
    BY <1>2 DEF Idle
  <1>8. \A b \in Archiver : b # a => Idle(b)
    BY <1>7 DEF Serial
  <1>9. Serial'
    BY <1>2, <1>3, <1>4, <1>6, <1>8, SerialStep DEF BaseInv
  <1> QED
    BY <1>4, <1>9

\* What is written goes to the temporary file and not to the archive.
LEMMA SerialFill ==
    ASSUME BaseInv, Serial, NEW a \in Archiver, Fill(a)
    PROVE  Serial' /\ (target # None => inode'[target] = inode[target])
  <1>1. PICK f, j : f = job[a].fd /\ j = job[a]
    OBVIOUS
  <1>2. apc[a] = "fill" /\ AGoto(a, "replace") /\ UNCHANGED <<job, tmp, target>>
    BY DEF Fill
  <1>3. tmp # None /\ f = tmp /\ inode[f] = Broken
    BY <1>1, <1>2 DEF Serial, WritingOk
  <1>4. inode' = [inode EXCEPT ![f] = Container(Manifest(a))]
    BY <1>1, <1>3 DEF Fill
  <1>5. f \in Archiver /\ f # target
    BY <1>3 DEF BaseInv, FileType
  <1>6. inode'[f] = Container(Manifest(a)) /\ (target # None => inode'[target] = inode[target])
    BY <1>4, <1>5 DEF BaseInv, FileType
  <1>7. Manifest(a) = ManifestOf(a, j)
    BY <1>1, <1>2, BusyJob
  <1>8. ~Idle(a)
    BY <1>2 DEF Idle
  <1>9. \A b \in Archiver : b # a => Idle(b)
    BY <1>8 DEF Serial
  <1>10. job' = [job EXCEPT ![a] = j]
    BY <1>1, <1>2 DEF BaseInv, CallType
  <1>11. Serial'
    <2>1. tmp' # None /\ j.fd = tmp' /\ inode'[tmp'] = Container(ManifestOf(a, j))
      BY <1>1, <1>2, <1>3, <1>6, <1>7
    <2> QED
      BY <1>2, <1>9, <1>10, <2>1, SerialStep DEF BaseInv
  <1> QED
    BY <1>6, <1>11

\* The stored file is the same, or another one that was sealed.
LEMMA SameTarget ==
    ASSUME TargetInv, UNCHANGED <<target, sealed, damage>>,
           target # None => inode'[target] = inode[target]
    PROVE  TargetInv'
  BY DEF TargetInv

\* A file that was sealed is whole.
LEMMA SealedFileOk ==
    ASSUME NEW x, NEW S, NEW d, x \in S, SealedOk(x)
    PROVE  FileOk(x, S, d)
  BY DEF FileOk, SealedOk

\* The rename puts a whole archive at the path.
LEMMA TargetReplace ==
    ASSUME BaseInv, Serial, NEW a \in Archiver, Replace(a)
    PROVE  TargetInv'
  <1>1. /\ apc[a] = "replace" /\ tmp # None /\ target' = tmp /\ inode' = Without(target)
        /\ sealed' = sealed \cup {Container(Manifest(a))}
    BY DEF Replace
  <1>2. inode[tmp] = Container(Manifest(a))
    BY <1>1 DEF Serial, WritingOk
  <1>3. tmp \in Archiver /\ tmp # target
    BY <1>1 DEF BaseInv, FileType
  <1>4. inode'[target'] = Container(Manifest(a))
    BY <1>1, <1>2, <1>3 DEF Without
  <1>5. SealedOk(Container(Manifest(a)))
    BY <1>1, BusyJob
  <1>6. FileOk(inode'[target'], sealed', damage')
    BY <1>1, <1>4, <1>5, SealedFileOk
  <1> QED
    BY <1>6 DEF TargetInv

\* Damage is counted, and does not reach the temporary file.
LEMMA SerialDamage ==
    ASSUME BaseInv, DamageOk, Serial, TargetInv, Damage
    PROVE  Serial' /\ TargetInv'
  <1>1. PICK x, y : x = inode[target] /\ y \in Damaged(x) /\ inode' = [inode EXCEPT ![target] = y]
    BY DEF Damage
  <1>2. /\ target # None /\ x # Broken /\ damage' = damage + 1
        /\ UNCHANGED <<apc, job, tmp, target, sealed>>
    BY <1>1 DEF Damage
  <1>3. target \in Archiver /\ x \in Archives
    BY <1>1, <1>2 DEF BaseInv, FileType
  <1>4. inode'[target] = y /\ (tmp # None => inode'[tmp] = inode[tmp])
    BY <1>1, <1>3 DEF BaseInv, FileType
  <1>5. Serial'
    BY <1>2, <1>4, SerialSame
  <1>6. FileOk(x, sealed, damage)
    BY <1>1, <1>2 DEF TargetInv
  <1>7. PICK z \in sealed : /\ x.plain = z.plain
                            /\ x.aad = z.aad \/ x.aad = [z.aad EXCEPT !.nonce = None]
    BY <1>2, <1>6 DEF FileOk
  <1>8. x.manifest.nonce \in Archiver
    BY <1>2, <1>6 DEF FileOk
  <1>9. z.aad \in Manifests
    <2>1. z \in Archives
      BY <1>7 DEF BaseInv, SealedInv, SealedOk
    <2> QED
      BY <2>1 DEF Archives
  <1>10. [[z.aad EXCEPT !.nonce = None] EXCEPT !.nonce = None] = [z.aad EXCEPT !.nonce = None]
    BY ONLY <1>9 DEF Manifests
  <1>11. ASSUME y # Broken
         PROVE  /\ y.manifest.nonce \in Archiver /\ y.plain = z.plain
                /\ y.aad = z.aad \/ y.aad = [z.aad EXCEPT !.nonce = None]
    <2>1. /\ y.plain = x.plain /\ y.manifest.nonce = x.manifest.nonce
          /\ y.aad = x.aad \/ y.aad = [x.aad EXCEPT !.nonce = None]
      BY <1>1, <1>3, <1>11, DamagedIs
    <2>2. CASE y.aad = x.aad
      BY <1>7, <1>8, <2>1, <2>2
    <2>3. CASE y.aad = [x.aad EXCEPT !.nonce = None]
      <3>1. y.aad = [z.aad EXCEPT !.nonce = None]
        BY ONLY <1>7, <1>10, <2>3
      <3> QED
        BY <1>7, <1>8, <2>1, <3>1
    <2> QED
      BY <2>1, <2>2, <2>3
  <1>12. damage' # 0
    BY <1>2 DEF DamageOk
  <1>13. FileOk(y, sealed, damage')
    BY <1>7, <1>11, <1>12 DEF FileOk
  <1>14. TargetInv'
    BY <1>2, <1>4, <1>13 DEF TargetInv
  <1> QED
    BY <1>5, <1>14

\* A tag that verifies is that of a sealed archive: without the nonce, the manifest is
\* not the authenticated data.
LEMMA StoredIsSound ==
    ASSUME BaseInv, TargetInv
    PROVE  StoredSound
  <1>1. SUFFICES ASSUME NEW k, StructureValid(Stored), Authentic(Stored, k)
                 PROVE  Stored \in sealed
    BY DEF StoredSound
  <1>2. PICK x : x = Stored
    OBVIOUS
  <1>3. target # None /\ x = inode[target] /\ x \in Archives /\ x # Broken
    BY <1>1, <1>2, StoredType DEF BaseInv, StructureValid
  <1>4. FileOk(x, sealed, damage)
    BY <1>3 DEF TargetInv
  <1>5. x.aad = x.manifest /\ x.manifest.nonce \in Archiver
    BY <1>1, <1>2, <1>3, <1>4 DEF Authentic, FileOk
  <1>6. PICK y \in sealed : /\ x.plain = y.plain
                            /\ x.aad = y.aad \/ x.aad = [y.aad EXCEPT !.nonce = None]
    BY <1>3, <1>4 DEF FileOk
  <1>7. y \in Archives /\ y.aad = y.manifest
    BY <1>6 DEF BaseInv, SealedInv, SealedOk
  <1>8. y.aad \in Manifests
    BY <1>7 DEF Archives
  <1>9. x.aad = y.aad
    <2>1. SUFFICES ASSUME x.aad = [y.aad EXCEPT !.nonce = None] PROVE FALSE
      BY <1>6
    <2>2. x.aad.nonce = None
      BY ONLY <1>8, <2>1 DEF Manifests
    <2> QED
      BY <1>5, <2>2, ArchiveAssumption
  <1>10. x = y
    <2>1. x.manifest = y.manifest /\ x.plain = y.plain /\ x.aad = y.aad
      BY <1>5, <1>6, <1>7, <1>9
    <2> QED
      BY ONLY <1>3, <1>7, <2>1 DEF Archives
  <1> QED
    BY <1>2, <1>6, <1>10

\* What a reader knows stays true when more is sealed.
LEMMA ReaderMore ==
    ASSUME NEW pc, NEW q, NEW o, NEW t, NEW S, NEW T, S \subseteq T, ReaderOk(pc, q, o, t, S)
    PROVE  ReaderOk(pc, q, o, t, T)
  <1>1. DoneOk(q, o, t, S) => DoneOk(q, o, t, T)
    BY DEF DoneOk
  <1> QED
    BY <1>1 DEF ReaderOk

\* Steps of create_archive and of the world, for the readers.
LEMMA ReadersKept ==
    ASSUME ReaderInv, DestInv, UNCHANGED readVars, sealed \subseteq sealed'
    PROVE  ReaderInv' /\ DestInv'
  <1>1. UNCHANGED <<rpc, ask, opened, trust, dest>>
    BY DEF readVars
  <1>2. ReaderInv'
    BY <1>1, ReaderMore DEF ReaderInv
  <1>3. DestInv'
    BY <1>1 DEF DestInv
  <1> QED
    BY <1>2, <1>3

\* A reader's step keeps what readers know, and publishes only what was sealed.
LEMMA ReadersStep ==
    ASSUME FullInv, NEW r \in Reader, ReadArchive(r)
    PROVE  ReaderInv' /\ DestInv'
  <1> USE DEF FullInv
  <1>1. ReaderStep(r) /\ UNCHANGED <<logVars, makeVars, damage>>
        /\ (dest' = dest \/ (rpc[r] = "publish" /\ dest' = Plaintext(opened[r], ask[r].key)))
    BY ReadArchiveStep DEF BaseInv
  <1>2. sealed' = sealed
    BY <1>1 DEF makeVars
  <1>3. StoredSound
    BY StoredIsSound
  <1>4. PICK l, q, o, t :
            /\ RStep(r, l, q, o, t) /\ RValue(l, q, o, t)
            /\ ReaderOk(rpc[r], ask[r], opened[r], trust[r], sealed) /\ StoredSound
               => ReaderOk(l, q, o, t, sealed)
    BY <1>1 DEF ReaderStep
  <1>5. ReaderOk(l, q, o, t, sealed)
    BY <1>3, <1>4 DEF ReaderInv
  <1>6. /\ rpc'[r] = l /\ ask'[r] = q /\ opened'[r] = o /\ trust'[r] = t
        /\ \A b \in Reader : b # r => /\ rpc'[b] = rpc[b] /\ ask'[b] = ask[b]
                                      /\ opened'[b] = opened[b] /\ trust'[b] = trust[b]
    BY <1>4, ReaderTypes DEF BaseInv
  <1>7. ReaderInv'
    BY <1>2, <1>5, <1>6 DEF ReaderInv
  <1>8. DestInv'
    <2>1. CASE dest' = dest
      BY <1>2, <2>1 DEF DestInv
    <2>2. CASE rpc[r] = "publish" /\ dest' = Plaintext(opened[r], ask[r].key)
      <3>1. opened[r] \in sealed /\ ask[r].key = "right"
        BY <2>2 DEF ReaderInv, ReaderOk
      <3>2. opened[r].aad = opened[r].manifest
        BY <3>1 DEF BaseInv, SealedInv, SealedOk
      <3>3. dest' = opened[r].plain
        BY <2>2, <3>1, <3>2 DEF Plaintext, Authentic
      <3> QED
        BY <1>2, <3>1, <3>3 DEF DestInv
    <2> QED
      BY <1>1, <2>1, <2>2
  <1> QED
    BY <1>7, <1>8

\* The invariant for calls one after the other holds initially.
LEMMA FullInit ==
    Init => FullInv
  <1> SUFFICES ASSUME Init PROVE FullInv
    OBVIOUS
  <1>1. BaseInv /\ DamageOk
    BY BaseInit, ArchiveAssumption DEF Init, DamageOk
  <1>2. \A a \in Archiver : Idle(a) /\ apc[a] = "none"
    BY DEF Init, Idle
  <1>3. Serial
    BY <1>2 DEF Serial, WritingOk
  <1>4. TargetInv /\ DestInv
    BY DEF Init, TargetInv, DestInv
  <1>5. ReaderInv
    BY DEF Init, ReaderInv, ReaderOk
  <1> QED
    BY <1>1, <1>3, <1>4, <1>5 DEF FullInv

\* Every step of a call keeps it.
LEMMA FullCreate ==
    ASSUME ~Concurrent, FullInv, NEW a \in Archiver, Create(a)
    PROVE  Serial' /\ TargetInv' /\ ReaderInv' /\ DestInv'
  <1> USE DEF FullInv
  <1>1. UNCHANGED <<damage, readVars>>
    BY DEF Create, Begin, BeginRefused, Scan, Verify, Read, OpenTmp, Fill, Replace, CreateFails,
           CreateKilled
  <1>2. CallType
    BY DEF BaseInv
  <1>3. sealed \subseteq sealed'
    BY DEF Create, Begin, BeginRefused, Scan, Verify, Read, OpenTmp, Fill, Replace, CreateFails,
           CreateKilled
  <1>4. ReaderInv' /\ DestInv'
    BY <1>1, <1>3, ReadersKept
  <1>5. CASE \E node \in Node, strict, force \in BOOLEAN : Begin(a, node, strict, force)
    <2>1. Serial'
      BY <1>2, <1>5, SerialBegin
    <2>2. UNCHANGED <<inode, target, sealed, damage>>
      BY <1>5 DEF Begin
    <2> QED
      BY <1>4, <2>1, <2>2, SameTarget
  <1>6. CASE BeginRefused(a)
    <2>1. Serial'
      BY <1>2, <1>6, SerialRefused
    <2>2. UNCHANGED <<inode, target, sealed, damage>>
      BY <1>6 DEF BeginRefused
    <2> QED
      BY <1>4, <2>1, <2>2, SameTarget
  <1>7. CASE Scan(a) \/ Verify(a) \/ Read(a)
    <2>1. Serial'
      BY <1>7, SerialScan
    <2>2. UNCHANGED <<inode, target, sealed, damage>>
      BY <1>7 DEF Scan, Verify, Read
    <2> QED
      BY <1>4, <2>1, <2>2, SameTarget
  <1>8. CASE OpenTmp(a)
    <2>1. UNCHANGED <<target, sealed, damage>>
      BY <1>8 DEF OpenTmp
    <2> QED
      BY <1>4, <1>8, <2>1, SerialOpen, SameTarget
  <1>9. CASE Fill(a)
    <2>1. UNCHANGED <<target, sealed, damage>>
      BY <1>9 DEF Fill
    <2> QED
      BY <1>4, <1>9, <2>1, SerialFill, SameTarget
  <1>10. CASE Replace(a)
    <2>1. ~Idle(a) /\ AEnd(a)
      BY <1>10 DEF Replace, Idle
    <2> QED
      BY <1>2, <1>4, <1>10, <2>1, SerialEnd, TargetReplace
  <1>11. CASE CreateFails(a)
    <2>1. ~Idle(a) /\ AEnd(a) /\ inode' = Without(tmp) /\ UNCHANGED <<target, sealed, damage>>
      BY <1>11 DEF CreateFails, Idle
    <2>2. target # None => inode'[target] = inode[target]
      BY <2>1 DEF Without, BaseInv, FileType
    <2> QED
      BY <1>2, <1>4, <2>1, <2>2, SerialEnd, SameTarget
  <1>12. CASE CreateKilled(a)
    <2>1. ~Idle(a) /\ AEnd(a) /\ UNCHANGED <<inode, target, sealed, damage>>
      BY <1>12 DEF CreateKilled
    <2> QED
      BY <1>2, <1>4, <2>1, SerialEnd, SameTarget
  <1> QED
    BY <1>5, <1>6, <1>7, <1>8, <1>9, <1>10, <1>11, <1>12 DEF Create

\* Every step keeps it.
LEMMA FullStep ==
    ASSUME ~Concurrent, FullInv, [Next]_vars
    PROVE  FullInv'
  <1> USE DEF FullInv
  <1>1. BaseInv' /\ DamageOk'
    BY BaseStep, DamageStep
  <1>2. ASSUME UNCHANGED <<makeVars, damage>> PROVE Serial' /\ TargetInv'
    BY <1>2, SerialSame, SameTarget DEF makeVars
  <1>3. CASE Grow
    <2>1. UNCHANGED <<makeVars, damage, readVars>> /\ sealed \subseteq sealed'
      BY <1>3 DEF Grow, makeVars
    <2> QED
      BY <1>1, <1>2, <2>1, ReadersKept
  <1>4. CASE Damage
    <2>1. UNCHANGED readVars /\ sealed \subseteq sealed'
      BY <1>4 DEF Damage
    <2> QED
      BY <1>1, <1>4, <2>1, ReadersKept, SerialDamage
  <1>5. CASE \E a \in Archiver : Create(a)
    BY <1>1, <1>5, FullCreate
  <1>6. CASE \E r \in Reader : ReadArchive(r)
    <2>1. PICK r \in Reader : ReadArchive(r)
      BY <1>6
    <2>2. UNCHANGED <<makeVars, damage>>
      BY <2>1, ReadArchiveStep DEF BaseInv
    <2> QED
      BY <1>1, <1>2, <2>1, <2>2, ReadersStep
  <1>7. CASE UNCHANGED vars
    <2>1. UNCHANGED <<makeVars, damage, readVars>> /\ sealed \subseteq sealed'
      BY <1>7 DEF vars, makeVars
    <2> QED
      BY <1>1, <1>2, <2>1, ReadersKept
  <1> QED
    BY <1>3, <1>4, <1>5, <1>6, <1>7 DEF Next

----------------------------------------------------------------------------
(* The theorems about calls of create_archive one after the other. *)

\* However the calls die or fail: the archive's path names a whole archive, unless it
\* was damaged where it is stored.
THEOREM TargetIsWhole ==
    ASSUME ~Concurrent
    PROVE  Spec => []TargetWhole
  <1>1. FullInv /\ [Next]_vars => FullInv'
    BY FullStep
  <1>2. FullInv => TargetWhole
    BY DEF FullInv, TargetInv, FileOk, TargetWhole
  <1> QED
    BY <1>1, <1>2, FullInit, PTL DEF Spec

\* Whatever becomes of the stored archive, and however many commands read it meanwhile:
\* what decrypt_archive leaves at its output was sealed by create_archive, and no wrong
\* key and no altered archive gets container_authenticated.
THEOREM OutputIsSealed ==
    ASSUME ~Concurrent
    PROVE  Spec => []DestIsSealed
  <1>1. FullInv /\ [Next]_vars => FullInv'
    BY FullStep
  <1>2. FullInv => DestIsSealed
    <2>1. SUFFICES ASSUME FullInv PROVE DestIsSealed
      OBVIOUS
    <2>2. dest # None => \E x \in sealed : x.plain = dest
      BY <2>1 DEF FullInv, DestInv
    <2>3. ASSUME NEW r \in Reader, rpc[r] = "done", trust[r].container
          PROVE  ask[r].key = "right" /\ opened[r] \in sealed
      <3>1. DoneOk(ask[r], opened[r], trust[r], sealed)
        BY <2>1, <2>3 DEF FullInv, ReaderInv, ReaderOk
      <3> QED
        BY <2>3, <3>1 DEF DoneOk
    <2> QED
      BY <2>2, <2>3 DEF DestIsSealed
  <1> QED
    BY <1>1, <1>2, FullInit, PTL DEF Spec

\* However the log grows and is rolled back during the call, and whatever damage is done to
\* the archive: verify-archive, given the key and a registry, succeeds exactly if the
\* archive is as it was sealed, holds a genuine chain of its node from the first record
\* on, and its manifest describes that chain.
THEOREM VerdictIsRight ==
    ASSUME ~Concurrent
    PROVE  Spec => []ArchiveVerdict
  <1>1. FullInv /\ [Next]_vars => FullInv'
    BY FullStep
  <1>2. FullInv => ArchiveVerdict
    <2>1. SUFFICES ASSUME FullInv, NEW r \in Reader, rpc[r] = "done", ask[r].op = "verify",
                          ask[r].key = "right", ask[r].registry
                   PROVE  ExitOk(r) <=>
                            /\ opened[r] \in sealed
                            /\ opened[r].plain # <<>>
                            /\ GenuineChain(opened[r].manifest.node, opened[r].plain)
                            /\ Told(opened[r].manifest, opened[r].plain)
      BY Zenon DEF ArchiveVerdict, Told
    <2>2. DoneOk(ask[r], opened[r], trust[r], sealed)
      BY <2>1 DEF FullInv, ReaderInv, ReaderOk
    <2>3. CASE opened[r] \in sealed /\ trust[r] = Report(opened[r])
      <3>1. PICK x : x = opened[r]
        OBVIOUS
      <3>2. SealedOk(x)
        BY <2>1, <2>3, <3>1 DEF FullInv, BaseInv, SealedInv
      <3>3. Report(x).structure /\ Report(x).container
        BY DEF Report
      <3>4. ExitOk(r) <=> FullyVerified(Report(x)) /\ ~Report(x).errors
        BY <2>1, <2>3, <3>1, <3>3 DEF ExitOk
      <3>5. FullyVerified(Report(x)) /\ ~Report(x).errors
            <=> /\ x.plain # <<>> /\ GenuineChain(x.manifest.node, x.plain)
                /\ Told(x.manifest, x.plain)
        BY <3>2, ReportVerdict
      <3> QED
        BY <2>3, <3>1, <3>4, <3>5
    <2>4. CASE opened[r] = None /\ trust[r].errors
      <3>1. None \notin sealed
        BY <2>1, ArchiveAssumption DEF FullInv, BaseInv, SealedInv, SealedOk
      <3> QED
        BY <2>4, <3>1 DEF ExitOk
    <2> QED
      BY <2>1, <2>2, <2>3, <2>4 DEF DoneOk
  <1> QED
    BY <1>1, <1>2, FullInit, PTL DEF Spec
=============================================================================
