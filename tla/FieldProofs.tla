----------------------------- MODULE FieldProofs -----------------------------
(***************************************************************************)
(* Theorems about ModbusServer and FakePlc, for any number of connections, *)
(* polls and kills, any streams, any sizes of the pieces recv returns.     *)
(***************************************************************************)
EXTENDS FakePlc, SequenceTheorems, WellFoundedInduction, TLAPS

----------------------------------------------------------------------------
(* Induction: a set of natural numbers has a least element. *)

Below == {ss \in Nat \X Nat : ss[1] < ss[2]}

\* A set of numbers that is not empty has a least one: the induction principle of this
\* module.
LEMMA LeastNat ==
    ASSUME NEW T, T \subseteq Nat, T # {}
    PROVE  \E x \in T : \A y \in T : x <= y
  <1>1. IsWellFoundedOn(Below, Nat)
    BY NatLessThanWellFounded, Zenon DEF OpToRel, Below
  <1>2. PICK x \in T : \A y \in T : <<y, x>> \notin Below
    BY <1>1, WFMin, Zenon
  <1>3. ASSUME NEW y \in T PROVE x <= y
    <2>1. x \in Nat /\ y \in Nat
      BY <1>2, <1>3
    <2>2. SUFFICES ASSUME y < x PROVE FALSE
      BY <2>1
    <2>3. <<y, x>> \in Nat \X Nat /\ <<y, x>>[1] < <<y, x>>[2]
      BY <2>1, <2>2
    <2> QED
      BY <1>2, <1>3, <2>3, Zenon DEF Below
  <1> QED
    BY <1>2, <1>3

----------------------------------------------------------------------------
(* Frames: the reference function satisfies its defining equation. *)

FrameStep(s, g, i) ==
    IF FrameAt(s, i)
    THEN <<SubSeq(s, i, FrameEnd(s, i))>> \o g[FrameEnd(s, i) + 1]
    ELSE <<>>

\* The last n + 1 values of a function for s.
HasTail(s, n) ==
    \E g : g = [i \in (Len(s) + 1 - n)..(Len(s) + 1) |-> FrameStep(s, g, i)]

\* A frame that starts at i ends within the stream, at least four cells on.
LEMMA FrameAtBounds ==
    ASSUME NEW s \in Seq(Nat), NEW i \in Nat, FrameAt(s, i)
    PROVE  FrameEnd(s, i) \in (i + 4)..Len(s) /\ s[i + 2] \in Nat
  <1>1. s[i + 2] \in 2..MaxMbapLength /\ i + 2 + s[i + 2] <= Len(s)
    BY DEF FrameAt
  <1>2. s[i + 2] \in Nat /\ s[i + 2] >= 2 /\ Len(s) \in Nat
    BY <1>1, SizesAssumption
  <1> QED
    BY <1>1, <1>2 DEF FrameEnd

\* The frames of a tail one cell longer can be defined from those of the shorter tails.
LEMMA HasTailStep ==
    ASSUME NEW s \in Seq(Nat), NEW n \in Nat, n < Len(s), HasTail(s, n)
    PROVE  HasTail(s, n + 1)
  <1> DEFINE lo == Len(s) + 1 - n
  <1>1. PICK g : g = [i \in lo..(Len(s) + 1) |-> FrameStep(s, g, i)]
    BY DEF HasTail
  <1> DEFINE h == [i \in (lo - 1)..(Len(s) + 1) |->
                      IF i = lo - 1 THEN FrameStep(s, g, i) ELSE g[i]]
  <1>2. lo \in Nat /\ lo - 1 \in Nat /\ lo - 1 >= 1 /\ Len(s) \in Nat
    OBVIOUS
  <1>3. ASSUME NEW i \in (lo - 1)..(Len(s) + 1)
        PROVE  FrameStep(s, h, i) = FrameStep(s, g, i)
    <2>1. CASE FrameAt(s, i)
      <3>1. FrameEnd(s, i) + 1 \in (i + 5)..(Len(s) + 1)
        BY <1>2, <2>1, FrameAtBounds, SMTT(40)
      <3>2. FrameEnd(s, i) + 1 \in lo..(Len(s) + 1)
        BY <1>2, <3>1
      <3>3. h[FrameEnd(s, i) + 1] = g[FrameEnd(s, i) + 1]
        BY <1>2, <3>2
      <3> HIDE DEF h
      <3> QED
        BY <2>1, <3>3 DEF FrameStep
    <2>2. CASE ~FrameAt(s, i)
      BY <2>2 DEF FrameStep
    <2> QED
      BY <2>1, <2>2
  <1>4. ASSUME NEW i \in (lo - 1)..(Len(s) + 1)
        PROVE  h[i] = FrameStep(s, h, i)
    <2>1. CASE i = lo - 1
      BY <2>1, <1>3
    <2>2. CASE i # lo - 1
      <3>1. i \in lo..(Len(s) + 1)
        BY <2>2, <1>2
      <3>2. g[i] = FrameStep(s, g, i)
        BY <1>1, <3>1
      <3> QED
        BY <1>3, <2>2, <3>2
    <2> QED
      BY <2>1, <2>2
  <1>5. h = [i \in (lo - 1)..(Len(s) + 1) |-> FrameStep(s, h, i)]
    BY <1>4
  <1>6. lo - 1 = Len(s) + 1 - (n + 1)
    BY <1>2
  <1> HIDE DEF h
  <1> QED
    BY <1>5, <1>6 DEF HasTail

\* So they can be defined for the whole stream.
LEMMA HasTailAll ==
    ASSUME NEW s \in Seq(Nat)
    PROVE  HasTail(s, Len(s))
  <1> DEFINE T == {n \in Nat : n <= Len(s) /\ ~HasTail(s, n)}
  <1>1. HasTail(s, 0)
    <2> DEFINE g == [i \in (Len(s) + 1)..(Len(s) + 1) |-> <<>>]
    <2>1. ASSUME NEW i \in (Len(s) + 1)..(Len(s) + 1) PROVE FrameStep(s, g, i) = <<>>
      <3>1. ~FrameAt(s, i)
        BY DEF FrameAt
      <3> QED
        BY <3>1 DEF FrameStep
    <2>2. g = [i \in (Len(s) + 1)..(Len(s) + 1) |-> FrameStep(s, g, i)]
      BY <2>1
    <2>3. Len(s) + 1 = Len(s) + 1 - 0
      OBVIOUS
    <2> HIDE DEF g
    <2> QED
      BY <2>2, <2>3 DEF HasTail
  <1>2. ASSUME T # {} PROVE FALSE
    <2>1. PICK n \in T : \A m \in T : n <= m
      BY <1>2, LeastNat
    <2>2. n \in Nat \ {0} /\ n - 1 \in Nat /\ n - 1 < Len(s)
      BY <1>1, <2>1
    <2>3. n - 1 \notin T
      BY <2>1, <2>2
    <2>4. HasTail(s, n - 1)
      BY <2>2, <2>3
    <2>5. HasTail(s, (n - 1) + 1)
      BY <2>2, <2>4, HasTailStep
    <2>6. (n - 1) + 1 = n
      BY <2>2
    <2> QED
      BY <2>1, <2>5, <2>6
  <1> QED
    BY <1>2

\* Hence FramesFrom satisfies its recursive definition.
LEMMA FramesFromDef ==
    ASSUME NEW s \in Seq(Nat), NEW i \in 1..(Len(s) + 1)
    PROVE  FramesFrom(s)[i] =
               IF FrameAt(s, i)
               THEN <<SubSeq(s, i, FrameEnd(s, i))>> \o FramesFrom(s)[FrameEnd(s, i) + 1]
               ELSE <<>>
  <1> DEFINE IsFrom(g) ==
        g = [j \in 1..(Len(s) + 1) |->
                IF FrameAt(s, j)
                THEN <<SubSeq(s, j, FrameEnd(s, j))>> \o g[FrameEnd(s, j) + 1]
                ELSE <<>>]
  <1>1. \E g : IsFrom(g)
    <2>1. Len(s) + 1 - Len(s) = 1
      OBVIOUS
    <2> QED
      BY <2>1, HasTailAll DEF HasTail, FrameStep
  <1>2. FramesFrom(s) = CHOOSE g : IsFrom(g)
    BY DEF FramesFrom
  <1>3. IsFrom(FramesFrom(s))
    BY <1>1, <1>2
  <1> QED
    BY <1>3

Frame == Seq(Nat)

\* Moving the k-th element from a prefix to the rest leaves the sequence as it is.
LEMMA PrefixStep ==
    ASSUME NEW S, NEW fs \in Seq(S), NEW k \in 1..Len(fs), NEW r \in Seq(S)
    PROVE  SubSeq(fs, 1, k) \o r = SubSeq(fs, 1, k - 1) \o (<<fs[k]>> \o r)
  <1>1. Len(fs) \in Nat /\ k \in Nat /\ k >= 1 /\ k <= Len(fs)
    OBVIOUS
  <1>2. SubSeq(fs, 1, k) = SubSeq(fs, 1, k - 1) \o <<fs[k]>>
    BY <1>1, SubSeqRecursiveSecond
  <1>3. <<fs[k]>> \in Seq(S)
    BY <1>1
  <1>4. SubSeq(fs, 1, k - 1) \in Seq(S)
    BY <1>1, SubSeqProperties
  <1> QED
    <2>1. PICK A \in Seq(S) : A = SubSeq(fs, 1, k - 1)
      BY <1>4
    <2>2. PICK B \in Seq(S) : B = <<fs[k]>>
      BY <1>3
    <2>3. (A \o B) \o r = A \o (B \o r)
      BY ConcatAssociative, SMTT(40)
    <2> QED
      BY <1>2, <2>1, <2>2, <2>3, Zenon

\* The elements of an appended sequence.
LEMMA AppendAt ==
    ASSUME NEW S, NEW fs \in Seq(S), NEW f \in S, NEW n \in Nat, n = Len(fs)
    PROVE  /\ Append(fs, f) \in Seq(S) /\ Len(Append(fs, f)) = n + 1
           /\ Append(fs, f)[n + 1] = f /\ \A k \in 1..n : Append(fs, f)[k] = fs[k]
  BY AppendProperties

\* The frames of a stream are frames.
LEMMA FramesFromType ==
    ASSUME NEW s \in Seq(Nat), NEW i \in 1..(Len(s) + 1)
    PROVE  FramesFrom(s)[i] \in Seq(Frame)
  <1> DEFINE Ok(n) == FramesFrom(s)[Len(s) + 1 - n] \in Seq(Frame)
             T == {n \in Nat : n <= Len(s) /\ ~Ok(n)}
  <1>0. Len(s) \in Nat
    OBVIOUS
  <1>1. ASSUME T # {} PROVE FALSE
    <2>1. PICK n \in T : \A m \in T : n <= m
      BY <1>1, LeastNat
    <2>2. PICK j \in 1..(Len(s) + 1) : j = Len(s) + 1 - n
      BY <1>0, <2>1
    <2>3. n \in Nat /\ n <= Len(s) /\ FramesFrom(s)[j] \notin Seq(Frame)
      BY <2>1, <2>2
    <2>4. CASE FrameAt(s, j)
      <3>0. FrameEnd(s, j) \in (j + 4)..Len(s)
        BY <2>4, FrameAtBounds
      <3>1. PICK k \in (j + 5)..(Len(s) + 1) : k = FrameEnd(s, j) + 1
        BY <1>0, <3>0, SMTT(40)
      <3>2. PICK m \in Nat : m = Len(s) + 1 - k
        BY <1>0, <3>1
      <3>a. j = Len(s) + 1 - n /\ j >= 1 /\ n \in Nat /\ k >= j + 5 /\ k <= Len(s) + 1 /\ k \in Nat
        BY <1>0, <2>2, <2>3, <3>1
      <3>3. m < n /\ m <= Len(s) /\ Len(s) + 1 - m = k
        BY <1>0, <3>a, <3>2
      <3>4. m \notin T
        BY <2>1, <2>3, <3>3
      <3>5. FramesFrom(s)[k] \in Seq(Frame)
        BY <3>3, <3>4
      <3>6. SubSeq(s, j, FrameEnd(s, j)) \in Frame
        <4>1. FrameEnd(s, j) \in Nat /\ FrameEnd(s, j) <= Len(s)
          BY <1>0, <2>4, FrameAtBounds
        <4>2. \A l \in j..FrameEnd(s, j) : s[l] \in Nat
          BY <1>0, <4>1
        <4> QED
          BY <4>1, <4>2, SubSeqProperties DEF Frame
      <3>7. FramesFrom(s)[j] = <<SubSeq(s, j, FrameEnd(s, j))>> \o FramesFrom(s)[k]
        BY <2>4, <3>1, FramesFromDef
      <3>8. <<SubSeq(s, j, FrameEnd(s, j))>> \in Seq(Frame)
        BY <3>6
      <3>9. FramesFrom(s)[j] \in Seq(Frame)
        BY <3>5, <3>7, <3>8, ConcatProperties
      <3> QED
        BY <2>3, <3>9
    <2>5. CASE ~FrameAt(s, j)
      <3>1. FramesFrom(s)[j] = <<>>
        BY <2>5, FramesFromDef
      <3>2. <<>> \in Seq(Frame)
        OBVIOUS
      <3> QED
        BY <2>3, <3>1, <3>2
    <2> QED
      BY <2>4, <2>5
  <1>2. i \in Nat /\ i >= 1 /\ i <= Len(s) + 1
    BY <1>0
  <1> DEFINE n == Len(s) + 1 - i
  <1>3. n \in Nat /\ n <= Len(s) /\ Len(s) + 1 - n = i
    BY <1>0, <1>2
  <1>4. n \notin T
    BY <1>1
  <1> QED
    BY <1>3, <1>4

----------------------------------------------------------------------------
(* Cutting a stream into frames *)

\* The frames fs are what lies between the positions cut of the stream s, and each
\* of them is well-formed.
Cuts(s, fs, cut) ==
    /\ cut \in [0..Len(fs) -> Nat] /\ cut[0] = 0
    /\ \A k \in 1..Len(fs) :
          /\ FrameAt(s, cut[k - 1] + 1)
          /\ cut[k] = FrameEnd(s, cut[k - 1] + 1)
          /\ fs[k] = SubSeq(s, cut[k - 1] + 1, cut[k])

\* b, and behind it w, is what the stream s has after its first p cells.
Unread(s, p, b, w) ==
    /\ Len(s) = p + Len(b) + Len(w)
    /\ \A j \in 1..Len(b) : b[j] = s[p + j]
    /\ \A j \in 1..Len(w) : w[j] = s[p + Len(b) + j]

\* The frame number k begins behind position a and ends at e.
CutAt(s, fs, cut, k, a, e) ==
    /\ a = cut[k - 1] /\ e = cut[k] /\ a + 5 <= e /\ e <= Len(s)
    /\ FrameAt(s, a + 1) /\ e = FrameEnd(s, a + 1)
    /\ fs[k] = SubSeq(s, a + 1, e)

\* Between two cuts lies the frame that was dispatched.
LEMMA CutsAt ==
    ASSUME NEW s \in Seq(Nat), NEW fs \in Seq(Frame), NEW cut, Cuts(s, fs, cut),
           NEW k \in 1..Len(fs)
    PROVE  \E a, e \in Nat : CutAt(s, fs, cut, k, a, e)
  <1>1. k \in 0..Len(fs) /\ k - 1 \in 0..Len(fs)
    OBVIOUS
  <1>2. PICK a \in Nat, e \in Nat : a = cut[k - 1] /\ e = cut[k]
    BY <1>1 DEF Cuts
  <1>3. FrameAt(s, a + 1) /\ e = FrameEnd(s, a + 1) /\ fs[k] = SubSeq(s, a + 1, e)
    BY <1>2 DEF Cuts
  <1>4. e \in ((a + 1) + 4)..Len(s)
    BY <1>3, FrameAtBounds
  <1>5. a + 5 <= e /\ e <= Len(s)
    BY <1>4
  <1> QED
    BY <1>2, <1>3, <1>5 DEF CutAt

\* The cuts lie within the stream.
LEMMA CutsBound ==
    ASSUME NEW s \in Seq(Nat), NEW fs \in Seq(Frame), NEW cut, Cuts(s, fs, cut),
           NEW k \in 0..Len(fs)
    PROVE  cut[k] \in Nat /\ cut[k] <= Len(s)
  <1>1. CASE k = 0
    BY <1>1 DEF Cuts
  <1>2. CASE k # 0
    <2>1. k \in 1..Len(fs)
      BY <1>2
    <2> QED
      BY <2>1, CutsAt DEF CutAt
  <1> QED
    BY <1>1, <1>2

\* The frames from one cut on are the one dispatched there and those from the next cut on.
LEMMA CutsStep ==
    ASSUME NEW s \in Seq(Nat), NEW fs \in Seq(Frame), NEW cut, Cuts(s, fs, cut),
           NEW k \in 1..Len(fs)
    PROVE  FramesFrom(s)[cut[k - 1] + 1] = <<fs[k]>> \o FramesFrom(s)[cut[k] + 1]
  <1>0. PICK a \in Nat, e \in Nat : CutAt(s, fs, cut, k, a, e)
    BY CutsAt, Zenon
  <1>1. /\ a = cut[k - 1] /\ e = cut[k] /\ a + 5 <= e /\ e <= Len(s)
        /\ FrameAt(s, a + 1) /\ e = FrameEnd(s, a + 1) /\ fs[k] = SubSeq(s, a + 1, e)
    BY <1>0, Zenon DEF CutAt
  <1>a. a + 5 <= e /\ e <= Len(s) /\ Len(s) \in Nat
    BY <1>1, LenProperties, Zenon
  <1>2. a + 1 \in 1..(Len(s) + 1)
    BY <1>a
  <1>3. FramesFrom(s)[a + 1] = <<SubSeq(s, a + 1, e)>> \o FramesFrom(s)[e + 1]
    BY <1>1, <1>2, FramesFromDef
  <1> QED
    BY <1>1, <1>3

\* The frames that have been cut off are the first frames of the stream.
LEMMA CutsFrames ==
    ASSUME NEW s \in Seq(Nat), NEW fs \in Seq(Frame), NEW cut, Cuts(s, fs, cut)
    PROVE  /\ FramesFrom(s)[cut[Len(fs)] + 1] \in Seq(Frame)
           /\ Frames(s) = fs \o FramesFrom(s)[cut[Len(fs)] + 1]
  <1> DEFINE Rest(k) == FramesFrom(s)[cut[k] + 1]
             Ok(k) == Frames(s) = SubSeq(fs, 1, k) \o Rest(k)
             T == {k \in Nat : k <= Len(fs) /\ ~Ok(k)}
  <1>0. Len(fs) \in Nat /\ Len(s) \in Nat
    OBVIOUS
  <1>1. Ok(0)
    <2>1. SubSeq(fs, 1, 0) = <<>>
      BY SubSeqEmpty
    <2>2. Rest(0) = FramesFrom(s)[1]
      BY DEF Cuts
    <2>3. FramesFrom(s)[1] \in Seq(Frame)
      BY <1>0, FramesFromType
    <2>4. <<>> \o FramesFrom(s)[1] = FramesFrom(s)[1]
      BY <2>3, ConcatEmptySeq
    <2> QED
      BY <2>1, <2>2, <2>4 DEF Frames
  <1>2. ASSUME NEW k \in 0..Len(fs) PROVE Rest(k) \in Seq(Frame)
    <2>1. PICK e \in Nat : e = cut[k] /\ e <= Len(s)
      BY CutsBound
    <2>2. e + 1 \in 1..(Len(s) + 1)
      BY <1>0, <2>1
    <2> QED
      BY <2>1, <2>2, FramesFromType
  <1>3. ASSUME NEW k \in 1..Len(fs), Ok(k - 1) PROVE Ok(k)
    <2>1. Rest(k - 1) = <<fs[k]>> \o Rest(k)
      BY CutsStep
    <2>2. Rest(k) \in Seq(Frame)
      BY <1>0, <1>2
    <2> HIDE DEF Rest
    <2>3. SubSeq(fs, 1, k) \o Rest(k) = SubSeq(fs, 1, k - 1) \o (<<fs[k]>> \o Rest(k))
      <3>2. PICK r \in Seq(Frame) : r = Rest(k)
        BY <2>2
      <3>3. SubSeq(fs, 1, k) \o r = SubSeq(fs, 1, k - 1) \o (<<fs[k]>> \o r)
        BY PrefixStep, SMTT(40)
      <3> QED
        BY <3>2, <3>3
    <2> QED
      BY <1>3, <2>1, <2>3
  <1> HIDE DEF Ok, Rest
  <1>4. ASSUME T # {} PROVE FALSE
    <2>1. PICK k \in T : \A m \in T : k <= m
      BY <1>4, LeastNat
    <2>2. k \in 1..Len(fs) /\ k - 1 \in Nat /\ k - 1 <= Len(fs)
      BY <1>0, <1>1, <2>1
    <2>3. k - 1 \notin T
      BY <2>1, <2>2
    <2>4. Ok(k - 1)
      BY <2>2, <2>3
    <2> QED
      BY <1>3, <2>1, <2>2, <2>4
  <1>5. Ok(Len(fs)) /\ Rest(Len(fs)) \in Seq(Frame)
    BY <1>0, <1>2, <1>4
  <1>6. SubSeq(fs, 1, Len(fs)) = fs
    BY SubSeqFull
  <1> QED
    BY <1>5, <1>6 DEF Ok, Rest

\* A frame stays one when the client writes more.
LEMMA FrameAtGrows ==
    ASSUME NEW s \in Seq(Nat), NEW t \in Seq(Nat), NEW i \in Nat \ {0}, FrameAt(s, i)
    PROVE  FrameAt(s \o t, i) /\ FrameEnd(s \o t, i) = FrameEnd(s, i)
  <1>1. i + 3 <= Len(s) /\ Len(s) \in Nat /\ Len(t) \in Nat /\ Len(s \o t) = Len(s) + Len(t)
    BY ConcatProperties, SMTT(40) DEF FrameAt
  <1>2. (s \o t)[i + 1] = s[i + 1] /\ (s \o t)[i + 2] = s[i + 2]
    BY <1>1, ConcatProperties, SMTT(40)
  <1>3. PICK n \in Nat : n = s[i + 2]
    BY FrameAtBounds
  <1>4. s[i + 1] = 0 /\ n \in 2..MaxMbapLength /\ i + 2 + n <= Len(s)
    BY <1>3 DEF FrameAt
  <1>5. i + 3 <= Len(s \o t) /\ i + 2 + n <= Len(s \o t)
    BY <1>1, <1>4
  <1> QED
    BY <1>2, <1>3, <1>4, <1>5 DEF FrameAt, FrameEnd

\* What the client writes later changes none of the frames.
LEMMA CutsGrow ==
    ASSUME NEW s \in Seq(Nat), NEW t \in Seq(Nat), NEW fs \in Seq(Frame), NEW cut,
           Cuts(s, fs, cut)
    PROVE  Cuts(s \o t, fs, cut)
  <1>1. ASSUME NEW k \in 1..Len(fs)
        PROVE  /\ FrameAt(s \o t, cut[k - 1] + 1)
               /\ cut[k] = FrameEnd(s \o t, cut[k - 1] + 1)
               /\ fs[k] = SubSeq(s \o t, cut[k - 1] + 1, cut[k])
    <2>0. PICK a \in Nat, e \in Nat : CutAt(s, fs, cut, k, a, e)
      BY CutsAt, Zenon
    <2>1. /\ a = cut[k - 1] /\ e = cut[k] /\ a + 5 <= e /\ e <= Len(s)
          /\ FrameAt(s, a + 1) /\ e = FrameEnd(s, a + 1) /\ fs[k] = SubSeq(s, a + 1, e)
      BY <2>0, Zenon DEF CutAt
    <2>a. a + 5 <= e /\ e <= Len(s) /\ Len(s) \in Nat
      BY <2>1, LenProperties, Zenon
    <2>3. a + 1 \in 1..Len(s) /\ e \in 1..Len(s) /\ a + 1 \in Nat \ {0}
      BY <2>a
    <2>2. FrameAt(s \o t, a + 1) /\ FrameEnd(s \o t, a + 1) = FrameEnd(s, a + 1)
      BY <2>1, <2>3, FrameAtGrows, Zenon
    <2>4. SubSeq(s \o t, a + 1, e) = SubSeq(s, a + 1, e)
      BY <2>3, SubSeqOfConcat1
    <2> QED
      BY <2>1, <2>2, <2>4
  <1> QED
    BY <1>1 DEF Cuts

CutsUpTo(s, fs, e) == \E cut : Cuts(s, fs, cut) /\ cut[Len(fs)] = e

\* One more frame is cut off.
LEMMA CutsAppend ==
    ASSUME NEW s \in Seq(Nat), NEW fs \in Seq(Frame), NEW cut, Cuts(s, fs, cut),
           NEW p \in Nat, p = cut[Len(fs)], FrameAt(s, p + 1),
           NEW f \in Frame, f = SubSeq(s, p + 1, FrameEnd(s, p + 1))
    PROVE  CutsUpTo(s, Append(fs, f), FrameEnd(s, p + 1))
  <1>1. PICK n \in Nat : n = Len(fs)
    OBVIOUS
  <1>2. PICK e \in Nat : e = FrameEnd(s, p + 1)
    BY FrameAtBounds
  <1>3. /\ Append(fs, f) \in Seq(Frame) /\ Len(Append(fs, f)) = n + 1
        /\ Append(fs, f)[n + 1] = f /\ \A k \in 1..n : Append(fs, f)[k] = fs[k]
    BY ONLY <1>1, fs \in Seq(Frame), f \in Frame, n \in Nat, AppendAt
  <1> DEFINE fs2 == Append(fs, f)
             cut2 == [k \in 0..(n + 1) |-> IF k = n + 1 THEN e ELSE cut[k]]
  <1>a. Len(fs2) = n + 1 /\ fs2[n + 1] = f /\ \A k \in 1..n : fs2[k] = fs[k]
    BY <1>3
  <1>4. cut \in [0..n -> Nat] /\ cut[0] = 0 /\ p = cut[n]
    BY <1>1 DEF Cuts
  <1>5. cut2 \in [0..(n + 1) -> Nat] /\ cut2[0] = 0 /\ cut2[n + 1] = e /\ cut2[n] = p
        /\ \A k \in 0..n : cut2[k] = cut[k]
    BY <1>4
  <1> HIDE DEF fs2, cut2
  <1>6. ASSUME NEW k \in 1..(n + 1)
        PROVE  /\ FrameAt(s, cut2[k - 1] + 1)
               /\ cut2[k] = FrameEnd(s, cut2[k - 1] + 1)
               /\ fs2[k] = SubSeq(s, cut2[k - 1] + 1, cut2[k])
    <2>1. CASE k = n + 1
      <3>1. cut2[k - 1] = p /\ cut2[k] = e /\ fs2[k] = f
        BY <1>a, <1>5, <2>1
      <3> QED
        BY <1>2, <3>1
    <2>2. CASE k # n + 1
      <3>1. k \in 1..n /\ k \in 0..n /\ k - 1 \in 0..n
        BY <2>2
      <3>2. cut2[k - 1] = cut[k - 1] /\ cut2[k] = cut[k] /\ fs2[k] = fs[k]
        BY <1>a, <1>5, <3>1
      <3>3. /\ FrameAt(s, cut[k - 1] + 1) /\ cut[k] = FrameEnd(s, cut[k - 1] + 1)
            /\ fs[k] = SubSeq(s, cut[k - 1] + 1, cut[k])
        BY <1>1, <3>1 DEF Cuts
      <3> QED
        BY <3>2, <3>3
    <2> QED
      BY <2>1, <2>2
  <1>7. Cuts(s, fs2, cut2) /\ cut2[Len(fs2)] = e
    BY <1>a, <1>5, <1>6 DEF Cuts
  <1> QED
    BY <1>2, <1>7, Zenon DEF fs2, CutsUpTo

----------------------------------------------------------------------------
(* The buffer and the wire against the stream *)

\* A header in the buffer b with length n, and behind it, there or on the wire, as
\* many cells as it announces.
FrameLeft(b, w, n) ==
    b[2] = 0 /\ n \in 2..MaxMbapLength /\ 3 + n <= Len(b) + Len(w)

\* Whether a frame begins where the buffer does, read from the buffer.
LEMMA NextFrame ==
    ASSUME NEW s \in Seq(Nat), NEW b \in Seq(Nat), NEW w \in Seq(Nat), NEW p \in Nat,
           Unread(s, p, b, w), Len(b) >= 4, NEW n \in Nat, n = b[3]
    PROVE  /\ FrameEnd(s, p + 1) = p + (3 + n)
           /\ FrameAt(s, p + 1) <=> FrameLeft(b, w, n)
  <1>1. Len(s) = p + Len(b) + Len(w) /\ Len(b) \in Nat /\ Len(w) \in Nat /\ Len(s) \in Nat
    BY SMTT(40) DEF Unread
  <1>2. b[2] = s[p + 2] /\ b[3] = s[p + 3]
    <2>1. 2 \in 1..Len(b) /\ 3 \in 1..Len(b)
      BY ONLY <1>1, Len(b) >= 4
    <2> QED
      BY <2>1, Zenon DEF Unread
  <1>3. (p + 1) + 1 = p + 2 /\ (p + 1) + 2 = p + 3 /\ (p + 1) + 3 = p + 4
    OBVIOUS
  <1>4. FrameEnd(s, p + 1) = (p + 3) + n
    BY <1>2, <1>3 DEF FrameEnd
  <1>5. FrameAt(s, p + 1) <=> /\ p + 4 <= Len(s) /\ b[2] = 0
                              /\ n \in 2..MaxMbapLength /\ (p + 3) + n <= Len(s)
    BY <1>2, <1>3 DEF FrameAt
  <1>6. p + 4 <= Len(s) /\ ((p + 3) + n <= Len(s) <=> 3 + n <= Len(b) + Len(w))
    BY ONLY <1>1, Len(b) >= 4, p \in Nat, n \in Nat, SMTT(40)
  <1>7. (p + 3) + n = p + (3 + n)
    BY ONLY p \in Nat, n \in Nat
  <1> QED
    BY <1>4, <1>5, <1>6, <1>7 DEF FrameLeft

\* A stream that ends before the next header is complete holds no further frame.
LEMMA NoFrameLeft ==
    ASSUME NEW s \in Seq(Nat), NEW p \in Nat, Len(s) < p + 4
    PROVE  ~FrameAt(s, p + 1)
  <1>1. ~((p + 1) + 3 <= Len(s))
    OBVIOUS
  <1> QED
    BY <1>1 DEF FrameAt

\* The elements of a piece of a stream.
LEMMA SubSeqAt ==
    ASSUME NEW s \in Seq(Nat), NEW m \in Nat, NEW n \in Nat, m >= 1, n <= Len(s), m <= n + 1
    PROVE  /\ SubSeq(s, m, n) \in Seq(Nat) /\ Len(SubSeq(s, m, n)) = n + 1 - m
           /\ \A j \in 1..(n + 1 - m) : SubSeq(s, m, n)[j] = s[m + j - 1]
  <1>1. \A j \in m..n : s[j] \in Nat
    OBVIOUS
  <1> QED
    BY <1>1, SubSeqProperties

\* The first t cells of the buffer are cut off.
LEMMA CutOff ==
    ASSUME NEW s \in Seq(Nat), NEW b \in Seq(Nat), NEW w \in Seq(Nat), NEW p \in Nat,
           Unread(s, p, b, w), NEW t \in 1..Len(b)
    PROVE  /\ SubSeq(b, 1, t) = SubSeq(s, p + 1, p + t)
           /\ Unread(s, p + t, SubSeq(b, t + 1, Len(b)), w)
  <1>1. Len(s) = p + Len(b) + Len(w) /\ Len(b) \in Nat /\ Len(w) \in Nat /\ Len(s) \in Nat
    BY DEF Unread
  <1>2. t \in Nat /\ t >= 1 /\ t <= Len(b)
    BY <1>1
  <1> DEFINE f == SubSeq(b, 1, t)
             g == SubSeq(s, p + 1, p + t)
             r == SubSeq(b, t + 1, Len(b))
  <1>3. f \in Seq(Nat) /\ Len(f) = t /\ \A j \in 1..t : f[j] = b[j]
    <2>1. f \in Seq(Nat) /\ Len(f) = t + 1 - 1 /\ \A j \in 1..(t + 1 - 1) : f[j] = b[1 + j - 1]
      BY <1>2, SubSeqAt
    <2> HIDE DEF f
    <2> QED
      BY <1>2, <2>1
  <1>4. g \in Seq(Nat) /\ Len(g) = t /\ \A j \in 1..t : g[j] = s[p + j]
    <2>0. p + 1 \in Nat /\ p + t \in Nat /\ p + 1 >= 1 /\ p + t <= Len(s) /\ p + 1 <= (p + t) + 1
      BY <1>1, <1>2
    <2>1. /\ g \in Seq(Nat) /\ Len(g) = (p + t) + 1 - (p + 1)
          /\ \A j \in 1..((p + t) + 1 - (p + 1)) : g[j] = s[(p + 1) + j - 1]
      BY <2>0, SubSeqAt
    <2>2. (p + t) + 1 - (p + 1) = t /\ \A j \in 1..t : (p + 1) + j - 1 = p + j
      BY <1>2
    <2> HIDE DEF g
    <2> QED
      BY <2>1, <2>2
  <1>5. r \in Seq(Nat) /\ Len(r) = Len(b) - t /\ \A j \in 1..(Len(b) - t) : r[j] = b[t + j]
    <2>0. t + 1 \in Nat /\ t + 1 >= 1 /\ t + 1 <= Len(b) + 1
      BY <1>1, <1>2
    <2>1. /\ r \in Seq(Nat) /\ Len(r) = Len(b) + 1 - (t + 1)
          /\ \A j \in 1..(Len(b) + 1 - (t + 1)) : r[j] = b[(t + 1) + j - 1]
      BY <1>1, <2>0, SubSeqAt, SMTT(40)
    <2>2. Len(b) + 1 - (t + 1) = Len(b) - t /\ \A j \in 1..(Len(b) - t) : (t + 1) + j - 1 = t + j
      BY <1>1, <1>2
    <2> HIDE DEF r
    <2> QED
      BY <2>1, <2>2
  <1> HIDE DEF f, g, r
  <1>6. ASSUME NEW j \in 1..t PROVE f[j] = g[j]
    <2>1. j \in 1..Len(b)
      BY <1>1, <1>2
    <2>2. b[j] = s[p + j]
      BY <2>1, Zenon DEF Unread
    <2> QED
      BY <1>3, <1>4, <2>2
  <1>7. f = g
    BY <1>3, <1>4, <1>6, SeqEqual
  <1>8. Len(s) = (p + t) + Len(r) + Len(w)
    BY <1>1, <1>2, <1>5
  <1>9. ASSUME NEW j \in 1..Len(r) PROVE r[j] = s[(p + t) + j]
    <2>0. Len(r) = Len(b) - t
      BY <1>5
    <2>1. t + j \in 1..Len(b) /\ j \in 1..(Len(b) - t)
      BY ONLY <1>1, <1>2, <2>0, j \in 1..Len(r)
    <2>2. b[t + j] = s[p + (t + j)]
      BY <2>1, Zenon DEF Unread
    <2>3. p + (t + j) = (p + t) + j
      BY <1>2, <2>1
    <2> QED
      BY <1>5, <2>1, <2>2, <2>3
  <1>10. ASSUME NEW j \in 1..Len(w) PROVE w[j] = s[(p + t) + Len(r) + j]
    <2>1. w[j] = s[p + Len(b) + j]
      BY DEF Unread
    <2>2. p + Len(b) + j = (p + t) + Len(r) + j
      BY <1>1, <1>2, <1>5
    <2> QED
      BY <2>1, <2>2
  <1>11. Unread(s, p + t, r, w)
    BY <1>8, <1>9, <1>10 DEF Unread
  <1> QED
    BY <1>7, <1>11 DEF f, g, r

\* The elements of two streams put together.
LEMMA ConcatAt ==
    ASSUME NEW s \in Seq(Nat), NEW t \in Seq(Nat)
    PROVE  /\ s \o t \in Seq(Nat) /\ Len(s \o t) = Len(s) + Len(t)
           /\ \A j \in 1..Len(s) : (s \o t)[j] = s[j]
           /\ \A j \in 1..Len(t) : (s \o t)[Len(s) + j] = t[j]
  <1>1. Len(s) \in Nat /\ Len(t) \in Nat
    OBVIOUS
  <1>2. /\ s \o t \in Seq(Nat) /\ Len(s \o t) = Len(s) + Len(t)
        /\ \A i \in 1..(Len(s) + Len(t)) : (s \o t)[i] = IF i <= Len(s) THEN s[i] ELSE t[i - Len(s)]
    BY ConcatProperties
  <1>3. ASSUME NEW j \in 1..Len(s) PROVE (s \o t)[j] = s[j]
    <2>1. j \in 1..(Len(s) + Len(t)) /\ j <= Len(s)
      BY <1>1
    <2> QED
      BY <1>2, <2>1
  <1>4. ASSUME NEW j \in 1..Len(t) PROVE (s \o t)[Len(s) + j] = t[j]
    <2>1. Len(s) + j \in 1..(Len(s) + Len(t)) /\ ~(Len(s) + j <= Len(s)) /\ (Len(s) + j) - Len(s) = j
      BY <1>1
    <2>2. (s \o t)[Len(s) + j] = t[(Len(s) + j) - Len(s)]
      BY <1>2, <2>1, Zenon
    <2> QED
      BY <2>1, <2>2
  <1> QED
    BY <1>2, <1>3, <1>4

\* recv moves the first m cells from the wire to the buffer.
LEMMA UnreadMove ==
    ASSUME NEW s \in Seq(Nat), NEW b \in Seq(Nat), NEW w \in Seq(Nat), NEW p \in Nat,
           Unread(s, p, b, w), NEW m \in 1..Len(w)
    PROVE  Unread(s, p, b \o SubSeq(w, 1, m), SubSeq(w, m + 1, Len(w)))
  <1>1. Len(s) = p + Len(b) + Len(w) /\ Len(b) \in Nat /\ Len(w) \in Nat /\ Len(s) \in Nat
    BY DEF Unread
  <1>2. m \in Nat /\ m >= 1 /\ m <= Len(w)
    BY <1>1
  <1> DEFINE f == SubSeq(w, 1, m)
             r == SubSeq(w, m + 1, Len(w))
             b2 == b \o f
  <1>3. f \in Seq(Nat) /\ Len(f) = m /\ \A j \in 1..m : f[j] = w[j]
    <2>1. f \in Seq(Nat) /\ Len(f) = m + 1 - 1 /\ \A j \in 1..(m + 1 - 1) : f[j] = w[1 + j - 1]
      BY <1>2, SubSeqAt
    <2> HIDE DEF f
    <2> QED
      BY <1>2, <2>1
  <1>5. r \in Seq(Nat) /\ Len(r) = Len(w) - m /\ \A j \in 1..(Len(w) - m) : r[j] = w[m + j]
    <2>0. m + 1 \in Nat /\ m + 1 >= 1 /\ m + 1 <= Len(w) + 1
      BY <1>1, <1>2
    <2>1. /\ r \in Seq(Nat) /\ Len(r) = Len(w) + 1 - (m + 1)
          /\ \A j \in 1..(Len(w) + 1 - (m + 1)) : r[j] = w[(m + 1) + j - 1]
      BY <1>1, <2>0, SubSeqAt, SMTT(40)
    <2>2. Len(w) + 1 - (m + 1) = Len(w) - m /\ \A j \in 1..(Len(w) - m) : (m + 1) + j - 1 = m + j
      BY <1>1, <1>2
    <2> HIDE DEF r
    <2> QED
      BY <2>1, <2>2
  <1> HIDE DEF f, r
  <1>6. /\ Len(b2) = Len(b) + m
        /\ \A j \in 1..Len(b) : b2[j] = b[j]
        /\ \A j \in 1..m : b2[Len(b) + j] = f[j]
    BY <1>3, ConcatAt
  <1> HIDE DEF b2
  <1>7. Len(s) = p + Len(b2) + Len(r)
    <2>1. Len(b2) = Len(b) + m /\ Len(r) = Len(w) - m
      BY <1>5, <1>6
    <2> QED
      BY ONLY <1>1, <1>2, <2>1, p \in Nat
  <1>8. ASSUME NEW j \in 1..Len(b2) PROVE b2[j] = s[p + j]
    <2>0. Len(b2) = Len(b) + m
      BY <1>6
    <2>1. CASE j <= Len(b)
      <3>1. j \in 1..Len(b)
        BY ONLY <1>1, <2>1, <2>0, <1>2, j \in 1..Len(b2)
      <3>2. b[j] = s[p + j]
        BY <3>1, Zenon DEF Unread
      <3> QED
        BY <1>6, <3>1, <3>2
    <2>2. CASE ~(j <= Len(b))
      <3>1. PICK i \in 1..m : j = Len(b) + i
        <4>1. j - Len(b) \in 1..m /\ j = Len(b) + (j - Len(b))
          BY ONLY <1>1, <2>2, <2>0, <1>2, j \in 1..Len(b2)
        <4> QED
          BY <4>1
      <3>2. i \in 1..Len(w)
        BY ONLY <1>1, <1>2, i \in 1..m
      <3>3. w[i] = s[p + Len(b) + i]
        BY <3>2, Zenon DEF Unread
      <3>4. p + Len(b) + i = p + (Len(b) + i)
        BY ONLY <1>1, i \in 1..m, p \in Nat, <1>2
      <3> QED
        BY <1>3, <1>6, <3>1, <3>3, <3>4
    <2> QED
      BY <2>1, <2>2
  <1>9. ASSUME NEW j \in 1..Len(r) PROVE r[j] = s[p + Len(b2) + j]
    <2>0. Len(b2) = Len(b) + m /\ Len(r) = Len(w) - m
      BY <1>5, <1>6
    <2>1. /\ m + j \in 1..Len(w) /\ j \in 1..(Len(w) - m)
          /\ p + Len(b) + (m + j) = p + Len(b2) + j
      BY ONLY <1>1, <1>2, <2>0, j \in 1..Len(r), p \in Nat
    <2>2. w[m + j] = s[p + Len(b) + (m + j)]
      BY <2>1, Zenon DEF Unread
    <2> QED
      BY <1>5, <2>1, <2>2
  <1>10. Unread(s, p, b2, r)
    BY <1>7, <1>8, <1>9 DEF Unread
  <1> QED
    BY <1>10 DEF b2, f, r

\* recv returns n cells, or all there are.
LEMMA UnreadRecv ==
    ASSUME NEW s \in Seq(Nat), NEW b \in Seq(Nat), NEW w \in Seq(Nat), NEW p \in Nat,
           Unread(s, p, b, w), NEW n \in Nat \ {0}, w # <<>>
    PROVE  /\ Take(w, n) \in Seq(Nat) /\ SubSeq(w, n + 1, Len(w)) \in Seq(Nat)
           /\ Unread(s, p, b \o Take(w, n), SubSeq(w, n + 1, Len(w)))
  <1>1. Len(w) \in Nat /\ Len(w) >= 1
    BY EmptySeq
  <1>2. CASE n <= Len(w)
    <2>1. n \in 1..Len(w) /\ n + 1 \in Nat /\ n + 1 >= 1 /\ n + 1 <= Len(w) + 1 /\ 1 <= n + 1
      BY <1>1, <1>2
    <2>2. Take(w, n) = SubSeq(w, 1, n)
      BY <1>2 DEF Take
    <2>3. Unread(s, p, b \o SubSeq(w, 1, n), SubSeq(w, n + 1, Len(w)))
      BY <2>1, UnreadMove
    <2>4. SubSeq(w, 1, n) \in Seq(Nat) /\ SubSeq(w, n + 1, Len(w)) \in Seq(Nat)
      BY <1>1, <1>2, <2>1, SubSeqAt
    <2> QED
      BY <2>2, <2>3, <2>4
  <1>3. CASE ~(n <= Len(w))
    <2>1. Take(w, n) = SubSeq(w, 1, Len(w))
      BY <1>3 DEF Take
    <2>2. Len(w) \in 1..Len(w) /\ Len(w) + 1 > Len(w) /\ n + 1 > Len(w)
      BY <1>1, <1>3
    <2>3. Unread(s, p, b \o SubSeq(w, 1, Len(w)), SubSeq(w, Len(w) + 1, Len(w)))
      BY <2>2, UnreadMove
    <2>4. SubSeq(w, n + 1, Len(w)) = <<>> /\ SubSeq(w, Len(w) + 1, Len(w)) = <<>>
      BY <1>1, <2>2, SubSeqEmpty
    <2>5. SubSeq(w, 1, Len(w)) = w
      BY SubSeqFull
    <2>6. <<>> \in Seq(Nat)
      OBVIOUS
    <2>7. Unread(s, p, b \o w, <<>>)
      BY <2>3, <2>4, <2>5, Zenon
    <2>8. Take(w, n) = w
      BY <2>1, <2>5, Zenon
    <2> QED
      BY <2>4, <2>6, <2>7, <2>8, Zenon
  <1> QED
    BY <1>2, <1>3

\* The client writes t.
LEMMA UnreadSend ==
    ASSUME NEW s \in Seq(Nat), NEW b \in Seq(Nat), NEW w \in Seq(Nat), NEW p \in Nat,
           Unread(s, p, b, w), NEW t \in Seq(Nat)
    PROVE  Unread(s \o t, p, b, w \o t)
  <1>1. /\ Len(s) = p + Len(b) + Len(w)
        /\ Len(b) \in Nat /\ Len(w) \in Nat /\ Len(s) \in Nat /\ Len(t) \in Nat
    BY DEF Unread
  <1> DEFINE s2 == s \o t
             w2 == w \o t
  <1>2. /\ Len(s2) = Len(s) + Len(t)
        /\ \A j \in 1..Len(s) : s2[j] = s[j]
        /\ \A i \in 1..Len(t) : s2[Len(s) + i] = t[i]
    BY ConcatAt
  <1>3. /\ Len(w2) = Len(w) + Len(t)
        /\ \A j \in 1..Len(w) : w2[j] = w[j]
        /\ \A i \in 1..Len(t) : w2[Len(w) + i] = t[i]
    BY ConcatAt
  <1> HIDE DEF s2, w2
  <1>4. Len(s2) = p + Len(b) + Len(w2)
    BY <1>1, <1>2, <1>3
  <1>5. ASSUME NEW j \in 1..Len(b) PROVE b[j] = s2[p + j]
    <2>1. p + j \in 1..Len(s)
      BY <1>1
    <2>2. b[j] = s[p + j]
      BY Zenon DEF Unread
    <2> QED
      BY <1>2, <2>1, <2>2
  <1>6. ASSUME NEW j \in 1..Len(w2) PROVE w2[j] = s2[p + Len(b) + j]
    <2>0. Len(w2) = Len(w) + Len(t)
      BY <1>3
    <2>1. CASE j <= Len(w)
      <3>1. j \in 1..Len(w) /\ p + Len(b) + j \in 1..Len(s)
        BY ONLY <1>1, <2>0, <2>1, j \in 1..Len(w2), p \in Nat
      <3>2. w[j] = s[p + Len(b) + j]
        BY <3>1, Zenon DEF Unread
      <3> QED
        BY <1>2, <1>3, <3>1, <3>2
    <2>2. CASE ~(j <= Len(w))
      <3>1. /\ j - Len(w) \in 1..Len(t) /\ j = Len(w) + (j - Len(w))
            /\ p + Len(b) + j = Len(s) + (j - Len(w))
        BY ONLY <1>1, <2>0, <2>2, j \in 1..Len(w2), p \in Nat
      <3>2. PICK i \in 1..Len(t) : j = Len(w) + i /\ p + Len(b) + j = Len(s) + i
        BY <3>1
      <3> QED
        BY <1>2, <1>3, <3>2
    <2> QED
      BY <2>1, <2>2
  <1>7. Unread(s2, p, b, w2)
    BY <1>4, <1>5, <1>6 DEF Unread
  <1> QED
    BY <1>7 DEF s2, w2

----------------------------------------------------------------------------
(* The invariant of a connection.  Its parts are operators of the values of  *)
(* the connection's variables: label l, stream s, wire w, buffer b, handled  *)
(* frames h, replies r.                                                      *)

\* Nothing has happened on a connection that nobody has opened.
NoneOk(l, s, w, b, h, r) ==
    l = "none" => s = <<>> /\ w = <<>> /\ b = <<>> /\ h = <<>> /\ r = <<>>

\* The handled frames are cut from the front of the stream, and the buffer and the
\* wire hold the rest of it.
StreamOk(l, s, h, b, w) ==
    \E cut : /\ Cuts(s, h, cut)
             /\ l # "closed" => Unread(s, cut[Len(h)], b, w)

\* A buffer that the inner loop has left.
Drained(b) == Len(b) >= 4 => ValidHeader(Header(b)) /\ Len(b) < TotalFrameLen(Header(b))

DrainOk(l, b) == l = "recv" => Drained(b)

Critical(f) == Writes(Pdu(f)) /\ IsCritical(f[6])

\* Each handled frame is answered, in order, and a critical write not before its alert.
AlertOk(c, l, h, r, al) ==
    /\ Len(r) <= Len(h)
    /\ l \in {"none", "recv", "drain"} => Len(r) = Len(h)
    /\ l \in {"alert", "send"} => Len(h) = Len(r) + 1
    /\ \A i \in 1..Len(r) : Critical(h[i]) => <<c, i>> \in al
    /\ l = "send" /\ Critical(h[Len(h)]) => <<c, Len(h)>> \in al

ConnOk(c, l, s, w, b, h, r, al) ==
    /\ NoneOk(l, s, w, b, h, r) /\ StreamOk(l, s, h, b, w)
    /\ DrainOk(l, b) /\ AlertOk(c, l, h, r, al)

ConnInv(c) == ConnOk(c, pc[c], sent[c], wire[c], buffer[c], handled[c], replies[c], alerts)

\* A connection nobody has written to is consistent.
LEMMA StreamOkStart ==
    ASSUME NEW l
    PROVE  StreamOk(l, <<>>, <<>>, <<>>, <<>>)
  <1> DEFINE cut == [k \in 0..0 |-> 0]
  <1>1. Cuts(<<>>, <<>>, cut)
    BY DEF Cuts
  <1>2. Unread(<<>>, 0, <<>>, <<>>) /\ Len(<<>>) = 0 /\ cut[0] = 0
    BY DEF Unread
  <1> HIDE DEF cut
  <1> QED
    BY <1>1, <1>2 DEF StreamOk

\* The position behind the handled frames.
LEMMA StreamAt ==
    ASSUME NEW s \in Seq(Nat), NEW h \in Seq(Frame), NEW b \in Seq(Nat), NEW w \in Seq(Nat),
           NEW l, StreamOk(l, s, h, b, w)
    PROVE  \E cut, p : /\ p \in Nat /\ p <= Len(s) /\ p = cut[Len(h)] /\ Cuts(s, h, cut)
                       /\ l # "closed" => Unread(s, p, b, w)
  <1>1. PICK cut : Cuts(s, h, cut) /\ (l # "closed" => Unread(s, cut[Len(h)], b, w))
    BY DEF StreamOk
  <1>2. Len(h) \in 0..Len(h)
    OBVIOUS
  <1>3. cut[Len(h)] \in Nat /\ cut[Len(h)] <= Len(s)
    BY <1>1, <1>2, CutsBound
  <1> QED
    BY <1>1, <1>3

\* What the client writes goes to the end of what is unread.
LEMMA StreamOkSend ==
    ASSUME NEW s \in Seq(Nat), NEW h \in Seq(Frame), NEW b \in Seq(Nat), NEW w \in Seq(Nat),
           NEW l, StreamOk(l, s, h, b, w), NEW t \in Seq(Nat)
    PROVE  StreamOk(l, s \o t, h, b, w \o t)
  <1>1. PICK cut, p : /\ p \in Nat /\ p <= Len(s) /\ p = cut[Len(h)] /\ Cuts(s, h, cut)
                      /\ l # "closed" => Unread(s, p, b, w)
    BY StreamAt
  <1>2. Cuts(s \o t, h, cut)
    BY <1>1, CutsGrow
  <1>3. l # "closed" => Unread(s \o t, p, b, w \o t)
    BY <1>1, UnreadSend
  <1> QED
    BY <1>1, <1>2, <1>3, Zenon DEF StreamOk

\* Consistency does not depend on where an open handler is.
LEMMA StreamOkGoto ==
    ASSUME NEW s, NEW h, NEW b, NEW w, NEW l, StreamOk(l, s, h, b, w), l # "closed", NEW m
    PROVE  StreamOk(m, s, h, b, w)
  BY DEF StreamOk

\* A closed connection keeps the frames it dispatched and may drop the rest.
LEMMA StreamOkClose ==
    ASSUME NEW s, NEW h, NEW b, NEW w, NEW l, StreamOk(l, s, h, b, w), NEW b2, NEW w2
    PROVE  StreamOk("closed", s, h, b2, w2)
  BY DEF StreamOk

\* A recv moves a piece of the stream to the end of the buffer and loses nothing.
LEMMA StreamOkRecv ==
    ASSUME NEW s \in Seq(Nat), NEW h \in Seq(Frame), NEW b \in Seq(Nat), NEW w \in Seq(Nat),
           NEW l, StreamOk(l, s, h, b, w), l # "closed", NEW m, NEW n \in Nat \ {0}, w # <<>>
    PROVE  /\ Take(w, n) \in Seq(Nat) /\ SubSeq(w, n + 1, Len(w)) \in Seq(Nat)
           /\ StreamOk(m, s, h, b \o Take(w, n), SubSeq(w, n + 1, Len(w)))
  <1>1. PICK cut, p : /\ p \in Nat /\ p <= Len(s) /\ p = cut[Len(h)] /\ Cuts(s, h, cut)
                      /\ l # "closed" => Unread(s, p, b, w)
    BY StreamAt
  <1>2. /\ Take(w, n) \in Seq(Nat) /\ SubSeq(w, n + 1, Len(w)) \in Seq(Nat)
        /\ Unread(s, p, b \o Take(w, n), SubSeq(w, n + 1, Len(w)))
    BY <1>1, UnreadRecv
  <1> QED
    BY <1>1, <1>2, Zenon DEF StreamOk

\* What the header of a buffer says, cell by cell (parse_mbap).
LEMMA HeaderOf ==
    ASSUME NEW b \in Seq(Nat), Len(b) >= 4
    PROVE  /\ b[1] \in Nat /\ b[2] \in Nat /\ b[3] \in Nat /\ b[4] \in Nat
           /\ TotalFrameLen(Header(b)) = 3 + b[3]
           /\ ValidHeader(Header(b)) <=> b[2] = 0 /\ b[3] \in 2..MaxMbapLength
  <1>1. b[1] \in Nat /\ b[2] \in Nat /\ b[3] \in Nat /\ b[4] \in Nat
    OBVIOUS
  <1>2. MaxMbapLength \in Nat
    BY SizesAssumption
  <1> QED
    BY <1>1, <1>2 DEF TotalFrameLen, Header, ValidHeader, MBAP_HEADER_LEN, MODBUS_PROTOCOL_ID,
       MIN_MBAP_LENGTH

\* Nothing is left to dispatch when the wire is empty and the buffer drained, or when
\* the buffer begins with a malformed header.
LEMMA StreamDone ==
    ASSUME NEW s \in Seq(Nat), NEW h \in Seq(Frame), NEW b \in Seq(Nat), NEW w \in Seq(Nat),
           NEW l, StreamOk(l, s, h, b, w), l # "closed",
           \/ w = <<>> /\ Drained(b)
           \/ Len(b) >= 4 /\ ~ValidHeader(Header(b))
    PROVE  h = Frames(s)
  <1>1. PICK cut, p : /\ p \in Nat /\ p <= Len(s) /\ p = cut[Len(h)] /\ Cuts(s, h, cut)
                      /\ l # "closed" => Unread(s, p, b, w)
    BY StreamAt
  <1>2. Unread(s, p, b, w) /\ p \in Nat /\ p <= Len(s) /\ Len(s) \in Nat
    BY <1>1
  <1>3. ~FrameAt(s, p + 1)
    <2>1. CASE ~(Len(b) >= 4)
      <3>1. w = <<>>
        BY <2>1
      <3>2. Len(s) < p + 4
        BY <1>2, <2>1, <3>1 DEF Unread
      <3> QED
        BY <1>2, <3>2, NoFrameLeft
    <2>2. CASE Len(b) >= 4
      <3>1. PICK n \in Nat : n = b[3]
        BY <2>2, HeaderOf
      <3>2. FrameAt(s, p + 1) <=> FrameLeft(b, w, n)
        BY ONLY s \in Seq(Nat), b \in Seq(Nat), w \in Seq(Nat), n \in Nat, <1>2, <2>2, <3>1,
           NextFrame, SMTT(40)
      <3>3. /\ TotalFrameLen(Header(b)) = 3 + n
            /\ ValidHeader(Header(b)) <=> b[2] = 0 /\ n \in 2..MaxMbapLength
        BY <2>2, <3>1, HeaderOf
      <3>4. CASE w = <<>> /\ Drained(b)
        <4>1. Len(b) < 3 + n /\ Len(w) = 0
          BY <2>2, <3>3, <3>4 DEF Drained
        <4>2. ~(3 + n <= Len(b) + Len(w))
          BY ONLY <4>1, n \in Nat, Len(b) \in Nat
        <4> QED
          BY <3>2, <4>2 DEF FrameLeft
      <3>5. CASE ~ValidHeader(Header(b))
        BY <3>2, <3>3, <3>5 DEF FrameLeft
      <3> QED
        BY <2>2, <3>4, <3>5
    <2> QED
      BY <2>1, <2>2
  <1>4. p + 1 \in 1..(Len(s) + 1)
    BY ONLY <1>2
  <1>5. FramesFrom(s)[p + 1] = <<>>
    BY <1>3, <1>4, FramesFromDef
  <1>6. Frames(s) = h \o FramesFrom(s)[p + 1]
    BY <1>1, CutsFrames
  <1> QED
    BY <1>5, <1>6, ConcatEmptySeq

\* The dispatched frames are the first frames of what the client wrote.
LEMMA StreamPrefix ==
    ASSUME NEW s \in Seq(Nat), NEW h \in Seq(Frame), NEW b \in Seq(Nat), NEW w \in Seq(Nat),
           NEW l, StreamOk(l, s, h, b, w)
    PROVE  IsPrefix(h, Frames(s))
  <1>1. PICK cut, p : /\ p \in Nat /\ p <= Len(s) /\ p = cut[Len(h)] /\ Cuts(s, h, cut)
                      /\ l # "closed" => Unread(s, p, b, w)
    BY StreamAt
  <1>2. PICK r \in Seq(Frame) : Frames(s) = h \o r
    BY <1>1, CutsFrames
  <1>3. Len(h \o r) = Len(h) + Len(r) /\ Len(h) \in Nat /\ Len(r) \in Nat
    BY ConcatProperties
  <1>4. SubSeq(h \o r, 1, Len(h)) = SubSeq(h, 1, Len(h))
    <2>1. CASE Len(h) = 0
      BY <2>1, SubSeqEmpty
    <2>2. CASE Len(h) # 0
      <3>1. 1 \in 1..Len(h) /\ Len(h) \in 1..Len(h)
        BY ONLY <1>3, <2>2
      <3> QED
        BY <3>1, SubSeqOfConcat1
    <2> QED
      BY <2>1, <2>2
  <1> QED
    BY <1>2, <1>3, <1>4 DEF IsPrefix

----------------------------------------------------------------------------
(* DrainFrame: the frame that is cut from the buffer *)

\* A complete frame with a valid header at the front of the buffer b, t cells long.
Whole(b, t) ==
    /\ Len(b) >= 4 /\ ValidHeader(Header(b))
    /\ t = TotalFrameLen(Header(b)) /\ t <= Len(b)

\* The frame behind the first p cells of the stream.
NextCut(s, h, b, w, t, cut, p) ==
    /\ Cuts(s, h, cut) /\ p = cut[Len(h)] /\ FrameAt(s, p + 1) /\ FrameEnd(s, p + 1) = p + t
    /\ SubSeq(b, 1, t) = SubSeq(s, p + 1, p + t)
    /\ Unread(s, p + t, SubSeq(b, t + 1, Len(b)), w)

\* The buffer's first frame and what is left of the buffer after it.
LEMMA WholeFrame ==
    ASSUME NEW b \in Seq(Nat), NEW t, Whole(b, t)
    PROVE  /\ t \in 5..Len(b) /\ t = 3 + b[3] /\ b[2] = 0 /\ b[3] \in 2..MaxMbapLength
           /\ SubSeq(b, 1, t) \in Frame /\ Len(SubSeq(b, 1, t)) = t
           /\ \A j \in 1..t : SubSeq(b, 1, t)[j] = b[j]
           /\ SubSeq(b, t + 1, Len(b)) \in Seq(Nat)
           /\ Len(SubSeq(b, t + 1, Len(b))) <= Len(b)
  <1>1. b[3] \in Nat /\ t = 3 + b[3] /\ b[2] = 0 /\ b[3] \in 2..MaxMbapLength
    BY HeaderOf DEF Whole
  <1>2. Len(b) \in Nat /\ t <= Len(b)
    BY DEF Whole
  <1>3. t \in 5..Len(b) /\ t \in Nat
    <2>1. PICK n \in Nat : n = b[3]
      BY <1>1
    <2>2. n >= 2 /\ t = 3 + n
      BY <1>1, <2>1, SizesAssumption
    <2> QED
      BY ONLY <1>2, <2>2, n \in Nat
  <1>4. t >= 1 /\ t <= Len(b) /\ 1 <= t + 1 /\ t + 1 \in Nat /\ t + 1 >= 1 /\ t + 1 <= Len(b) + 1
    BY ONLY <1>2, <1>3
  <1>5. /\ SubSeq(b, 1, t) \in Seq(Nat) /\ Len(SubSeq(b, 1, t)) = t + 1 - 1
        /\ \A j \in 1..(t + 1 - 1) : SubSeq(b, 1, t)[j] = b[1 + j - 1]
    BY ONLY b \in Seq(Nat), <1>3, <1>4, SubSeqAt
  <1>6. t + 1 - 1 = t /\ \A j \in 1..t : 1 + j - 1 = j
    BY ONLY <1>3
  <1>7. /\ SubSeq(b, t + 1, Len(b)) \in Seq(Nat)
        /\ Len(SubSeq(b, t + 1, Len(b))) = Len(b) + 1 - (t + 1)
    BY ONLY b \in Seq(Nat), <1>2, <1>4, SubSeqAt
  <1>8. Len(b) + 1 - (t + 1) <= Len(b)
    BY ONLY <1>2, <1>3
  <1>9. /\ SubSeq(b, 1, t) \in Seq(Nat) /\ Len(SubSeq(b, 1, t)) = t
        /\ \A j \in 1..t : SubSeq(b, 1, t)[j] = b[j]
    BY ONLY <1>5, <1>6
  <1>10. Len(SubSeq(b, t + 1, Len(b))) <= Len(b)
    BY ONLY <1>7, <1>8
  <1> QED
    BY <1>1, <1>3, <1>7, <1>9, <1>10, Zenon DEF Frame

\* If the buffer begins with a whole frame, so does the unread part of the stream.
LEMMA FrameCut ==
    ASSUME NEW s \in Seq(Nat), NEW h \in Seq(Frame), NEW b \in Seq(Nat), NEW w \in Seq(Nat),
           NEW l, StreamOk(l, s, h, b, w), l # "closed", NEW t, Whole(b, t)
    PROVE  \E cut : \E p \in Nat : NextCut(s, h, b, w, t, cut, p)
  <1>1. PICK cut, p : /\ p \in Nat /\ p <= Len(s) /\ p = cut[Len(h)] /\ Cuts(s, h, cut)
                      /\ l # "closed" => Unread(s, p, b, w)
    BY StreamAt
  <1>2. Unread(s, p, b, w) /\ p \in Nat /\ Len(b) >= 4 /\ Len(w) \in Nat
    BY <1>1 DEF Whole
  <1>3. t \in 5..Len(b) /\ t = 3 + b[3] /\ b[2] = 0 /\ b[3] \in 2..MaxMbapLength
    BY WholeFrame
  <1>4. PICK n \in Nat : n = b[3]
    BY <1>2, HeaderOf
  <1>5. t = 3 + n /\ n \in 2..MaxMbapLength /\ b[2] = 0
    BY <1>3, <1>4
  <1>6. FrameEnd(s, p + 1) = p + (3 + n) /\ (FrameAt(s, p + 1) <=> FrameLeft(b, w, n))
    BY ONLY s \in Seq(Nat), b \in Seq(Nat), w \in Seq(Nat), n \in Nat, <1>2, <1>4, NextFrame,
       SMTT(40)
  <1>7. 3 + n <= Len(b) + Len(w)
    BY ONLY <1>2, <1>3, <1>5, n \in Nat, b \in Seq(Nat)
  <1>8. FrameLeft(b, w, n)
    BY <1>5, <1>7, Zenon DEF FrameLeft
  <1>9. t \in 1..Len(b)
    BY ONLY <1>3, b \in Seq(Nat)
  <1>10. /\ SubSeq(b, 1, t) = SubSeq(s, p + 1, p + t)
         /\ Unread(s, p + t, SubSeq(b, t + 1, Len(b)), w)
    BY ONLY s \in Seq(Nat), b \in Seq(Nat), w \in Seq(Nat), <1>2, <1>9, CutOff
  <1>11. FrameAt(s, p + 1) /\ FrameEnd(s, p + 1) = p + t
    BY <1>5, <1>6, <1>8
  <1>12. NextCut(s, h, b, w, t, cut, p)
    BY <1>1, <1>10, <1>11, Zenon DEF NextCut
  <1> QED
    BY <1>2, <1>12, Zenon

\* Dispatching that frame keeps the connection consistent.
LEMMA StreamOkFrame ==
    ASSUME NEW s \in Seq(Nat), NEW h \in Seq(Frame), NEW b \in Seq(Nat), NEW w \in Seq(Nat),
           NEW l, StreamOk(l, s, h, b, w), l # "closed", NEW t, Whole(b, t), NEW m
    PROVE  StreamOk(m, s, Append(h, SubSeq(b, 1, t)), SubSeq(b, t + 1, Len(b)), w)
  <1>1. PICK cut : \E p \in Nat : NextCut(s, h, b, w, t, cut, p)
    BY FrameCut
  <1>2. PICK p \in Nat : NextCut(s, h, b, w, t, cut, p)
    BY <1>1, Zenon
  <1>3. PICK f \in Frame : f = SubSeq(b, 1, t)
    BY WholeFrame
  <1>4. /\ Cuts(s, h, cut) /\ p = cut[Len(h)] /\ FrameAt(s, p + 1) /\ FrameEnd(s, p + 1) = p + t
        /\ f = SubSeq(s, p + 1, FrameEnd(s, p + 1))
    BY <1>2, <1>3, Zenon DEF NextCut
  <1>5. Unread(s, p + t, SubSeq(b, t + 1, Len(b)), w)
    BY <1>2, Zenon DEF NextCut
  <1>a. CutsUpTo(s, Append(h, f), FrameEnd(s, p + 1))
    BY <1>4, CutsAppend
  <1>6. PICK cut2 : /\ Cuts(s, Append(h, f), cut2)
                    /\ cut2[Len(Append(h, f))] = FrameEnd(s, p + 1)
    BY <1>a, Zenon DEF CutsUpTo
  <1>7. Unread(s, cut2[Len(Append(h, f))], SubSeq(b, t + 1, Len(b)), w)
    BY <1>4, <1>5, <1>6
  <1>8. StreamOk(m, s, Append(h, f), SubSeq(b, t + 1, Len(b)), w)
    BY <1>6, <1>7, Zenon DEF StreamOk
  <1> QED
    BY <1>3, <1>8

\* A read request, as the PLC builds it.
Request(x) == BuildResponse(x, 1, <<FC_READ_HOLDING_REGISTERS, Address, Quantity>>)

IsResponse(r, x, u, d) ==
    /\ r \in Seq(Nat) /\ Len(r) = 4 + Len(d) /\ Pdu(r) = d
    /\ r[1] = x /\ r[2] = 0 /\ r[3] = Len(d) + 1 /\ r[4] = u

\* The fields of a response (build_response).
LEMMA BuildResponseIs ==
    ASSUME NEW x \in Nat, NEW u \in Nat, NEW d \in Seq(Nat), Len(d) >= 1
    PROVE  IsResponse(BuildResponse(x, u, d), x, u, d)
  <1>0. PICK r : r = BuildResponse(x, u, d)
    OBVIOUS
  <1>1. Len(d) \in Nat /\ Len(d) >= 1
    OBVIOUS
  <1>a. PICK n \in Nat : n = Len(d) + 1
    BY <1>1
  <1>b. <<x, 0, n, u>> \in Seq(Nat)
    OBVIOUS
  <1>2. PICK a \in Seq(Nat) : a = <<x, 0, Len(d) + 1, u>>
    BY <1>a, <1>b, Zenon
  <1>3. Len(a) = 4 /\ a[1] = x /\ a[2] = 0 /\ a[3] = Len(d) + 1 /\ a[4] = u
    BY <1>2
  <1>4. r = a \o d
    BY <1>0, <1>2 DEF BuildResponse, MODBUS_PROTOCOL_ID
  <1>5. /\ r \in Seq(Nat) /\ Len(r) = Len(a) + Len(d) /\ \A j \in 1..Len(a) : r[j] = a[j]
    BY ONLY a \in Seq(Nat), d \in Seq(Nat), <1>4, ConcatAt
  <1>6. Pdu(r) = d
    <2>1. /\ 5 \in (Len(a) + 1)..(Len(a) + Len(d))
          /\ Len(a) + Len(d) \in (Len(a) + 1)..(Len(a) + Len(d))
          /\ 5 - Len(a) = 1 /\ (Len(a) + Len(d)) - Len(a) = Len(d)
      BY ONLY <1>1, <1>3
    <2>2. SubSeq(a \o d, 5, Len(a) + Len(d))
             = SubSeq(d, 5 - Len(a), (Len(a) + Len(d)) - Len(a))
      BY ONLY a \in Seq(Nat), d \in Seq(Nat), <2>1, SubSeqOfConcat2
    <2>3. SubSeq(d, 1, Len(d)) = d
      BY SubSeqFull
    <2>4. Pdu(r) = SubSeq(a \o d, 5, Len(a) + Len(d))
      BY <1>4, <1>5 DEF Pdu, MBAP_HEADER_LEN
    <2> QED
      BY ONLY <2>1, <2>2, <2>3, <2>4
  <1>7. r[1] = a[1] /\ r[2] = a[2] /\ r[3] = a[3] /\ r[4] = a[4] /\ Len(r) = 4 + Len(d)
    BY ONLY <1>1, <1>3, <1>5
  <1> QED
    BY <1>0, <1>3, <1>5, <1>6, <1>7, Zenon DEF IsResponse

\* The fields of the fake PLC's request.
LEMMA RequestIs ==
    ASSUME NEW x \in Nat
    PROVE  /\ Request(x) \in Seq(Nat) /\ Len(Request(x)) = 7 /\ Request(x)[3] = 4
           /\ Pdu(Request(x)) = <<3, Address, Quantity>>
           /\ Request(x)[1] = x /\ Request(x)[4] = 1
  <1>1. Address \in Nat /\ Quantity \in Nat
    BY PlcAssumption, SizesAssumption
  <1>a. <<3, Address, Quantity>> \in Seq(Nat)
    BY <1>1
  <1>2. PICK d \in Seq(Nat) : d = <<3, Address, Quantity>>
    BY <1>a, Zenon
  <1>3. Len(d) >= 1 /\ Len(d) = 3 /\ 4 + 3 = 7 /\ 3 + 1 = 4 /\ 1 \in Nat
    BY <1>2
  <1>4. Request(x) = BuildResponse(x, 1, d)
    BY <1>2 DEF Request, FC_READ_HOLDING_REGISTERS
  <1>b. PICK q : q = Request(x)
    OBVIOUS
  <1>d. PICK u \in Nat : u = 1
    OBVIOUS
  <1>c. q = BuildResponse(x, u, d)
    BY <1>4, <1>b, <1>d
  <1>5. /\ q \in Seq(Nat) /\ Len(q) = 4 + Len(d) /\ Pdu(q) = d
        /\ q[1] = x /\ q[2] = 0 /\ q[3] = Len(d) + 1 /\ q[4] = u
    <2>1. IsResponse(q, x, u, d)
      BY <1>3, <1>c, BuildResponseIs, Zenon
    <2> QED
      BY <2>1, Zenon DEF IsResponse
  <1>6. Len(q) = 7 /\ q[3] = 4
    BY ONLY <1>3, <1>5
  <1> QED
    BY <1>2, <1>b, <1>d, <1>5, <1>6, Zenon

\* On the connection of a poll the only frame there can be is the request.
LEMMA RequestFrame ==
    ASSUME NEW x \in Nat, NEW s, s = Request(x), NEW h \in Seq(Frame), NEW b \in Seq(Nat),
           NEW w \in Seq(Nat), NEW l, StreamOk(l, s, h, b, w), l # "closed",
           NEW t, Whole(b, t)
    PROVE  SubSeq(b, 1, t) = Request(x)
  <1>1. s \in Seq(Nat) /\ Len(s) = 7 /\ s[3] = 4
    BY RequestIs
  <1>2. PICK cut : \E p \in Nat : NextCut(s, h, b, w, t, cut, p)
    BY <1>1, FrameCut
  <1>3. PICK p \in Nat : NextCut(s, h, b, w, t, cut, p)
    BY <1>2, Zenon
  <1>4. /\ Cuts(s, h, cut) /\ p = cut[Len(h)] /\ FrameAt(s, p + 1) /\ FrameEnd(s, p + 1) = p + t
        /\ SubSeq(b, 1, t) = SubSeq(s, p + 1, p + t)
    BY <1>3, Zenon DEF NextCut
  <1>5. p <= 3
    <2>1. (p + 1) + 3 <= Len(s)
      BY <1>4, Zenon DEF FrameAt
    <2> QED
      BY ONLY <1>1, <2>1, p \in Nat
  <1>6. Len(h) = 0
    <2>1. SUFFICES ASSUME Len(h) # 0 PROVE FALSE
      OBVIOUS
    <2>2. Len(h) \in 1..Len(h)
      BY ONLY <2>1, h \in Seq(Frame)
    <2>3. PICK a \in Nat, e \in Nat : CutAt(s, h, cut, Len(h), a, e)
      BY ONLY <1>1, <1>4, <2>2, h \in Seq(Frame), CutsAt
    <2>4. a + 5 <= e /\ e = p
      BY <1>4, <2>3, Zenon DEF CutAt
    <2> QED
      BY ONLY <1>5, <2>4, a \in Nat, e \in Nat
  <1>7. p = 0
    BY <1>4, <1>6, Zenon DEF Cuts
  <1>8. t = 7
    <2>1. FrameEnd(s, 1) = 1 + 2 + s[1 + 2]
      BY Zenon DEF FrameEnd
    <2>2. FrameEnd(s, 1) = 7
      BY ONLY <1>1, <2>1
    <2>3. p + 1 = 1
      BY ONLY <1>7
    <2>4. t \in Nat
      BY WholeFrame
    <2>5. FrameEnd(s, p + 1) = p + t
      BY <1>4
    <2>6. 7 = p + t
      BY ONLY <2>2, <2>3, <2>5
    <2> QED
      BY ONLY <1>7, <2>4, <2>6
  <1>9. SubSeq(b, 1, t) = SubSeq(s, 1, Len(s))
    BY ONLY <1>1, <1>4, <1>7, <1>8
  <1> QED
    BY ONLY <1>1, <1>9, s = Request(x), SubSeqFull

----------------------------------------------------------------------------
(* dispatch *)

Bank == [0..(BankSize - 1) -> Nat]

\* A function on 1..n is a sequence of length n.
LEMMA FunctionIsSeq ==
    ASSUME NEW n \in Nat, NEW f \in [1..n -> Nat]
    PROVE  f \in Seq(Nat) /\ Len(f) = n
  OBVIOUS

\* Reading within the bank yields as many registers as were asked for.
LEMMA BankReadType ==
    ASSUME NEW v \in Bank, NEW a \in Nat, NEW q \in Nat, a + q <= BankSize
    PROVE  BankRead(v, a, q) \in Seq(Nat) /\ Len(BankRead(v, a, q)) = q
  <1>1. BankSize \in Nat
    BY SizesAssumption
  <1>2. \A i \in 1..q : a + i - 1 \in 0..(BankSize - 1)
    BY <1>1
  <1>3. BankRead(v, a, q) \in [1..q -> Nat]
    BY <1>2 DEF BankRead, Bank
  <1> QED
    BY <1>3, FunctionIsSeq

\* An exception answer: its function code is not the one of a read.
LEMMA ExceptionIs ==
    ASSUME NEW h, h.tid \in Nat, h.unit \in Nat, NEW fc \in Nat, NEW code \in Nat
    PROVE  /\ BuildException(h, fc, code) \in Seq(Nat)
           /\ Pdu(BuildException(h, fc, code))[1] # 3
  <1>1. PICK k \in Nat : k = IF fc < 128 THEN fc + 128 ELSE fc
    OBVIOUS
  <1>2. k # 3
    BY <1>1
  <1>3. <<k, code>> \in Seq(Nat) /\ Len(<<k, code>>) >= 1 /\ <<k, code>>[1] = k
    OBVIOUS
  <1>4. PICK d \in Seq(Nat) : d = <<k, code>>
    BY <1>3, Zenon
  <1>5. Len(d) >= 1 /\ d[1] # 3
    BY <1>2, <1>3, <1>4
  <1>6. BuildException(h, fc, code) = BuildResponse(h.tid, h.unit, d)
    BY <1>1, <1>4 DEF BuildException
  <1>7. IsResponse(BuildResponse(h.tid, h.unit, d), h.tid, h.unit, d)
    BY <1>5, BuildResponseIs, Zenon
  <1> QED
    BY <1>5, <1>6, <1>7, Zenon DEF IsResponse

\* The answer to a read of q registers from a on, in the bank.
LEMMA ReadIs ==
    ASSUME NEW h, h.tid \in Nat, h.unit \in Nat, NEW v \in Bank, NEW a \in Nat,
           NEW q \in Nat, a + q <= BankSize, NEW r,
           r = BuildResponse(h.tid, h.unit, <<3, q>> \o BankRead(v, a, q))
    PROVE  /\ r \in Seq(Nat) /\ Len(Pdu(r)) = 2 + q /\ Pdu(r)[2] = q
           /\ SubSeq(Pdu(r), 3, 2 + q) = BankRead(v, a, q)
  <1>1. PICK z \in Seq(Nat) : z = BankRead(v, a, q)
    BY BankReadType
  <1>2. Len(z) = q
    BY <1>1, BankReadType
  <1>a. <<3, q>> \in Seq(Nat)
    OBVIOUS
  <1>3. PICK y \in Seq(Nat) : y = <<3, q>>
    BY <1>a, Zenon
  <1>4. Len(y) = 2 /\ y[1] = 3 /\ y[2] = q
    BY <1>3
  <1>5. PICK d \in Seq(Nat) : d = y \o z
    BY ConcatProperties
  <1>6. Len(d) = Len(y) + Len(z) /\ \A j \in 1..Len(y) : d[j] = y[j]
    BY ONLY y \in Seq(Nat), z \in Seq(Nat), <1>5, ConcatAt
  <1>7. Len(d) = 2 + q /\ d[2] = q /\ Len(d) >= 1
    BY ONLY <1>2, <1>4, <1>6, q \in Nat
  <1>8. IsResponse(BuildResponse(h.tid, h.unit, d), h.tid, h.unit, d)
    BY <1>7, BuildResponseIs, Zenon
  <1>9. r = BuildResponse(h.tid, h.unit, d)
    BY <1>1, <1>3, <1>5, Zenon
  <1>10. r \in Seq(Nat) /\ Pdu(r) = d
    BY <1>8, <1>9, Zenon DEF IsResponse
  <1>11. SubSeq(d, 3, 2 + q) = z
    <2>1. CASE q = 0
      <3>1. z = <<>>
        BY <1>2, <2>1
      <3>2. SubSeq(d, 3, 2 + q) = <<>>
        BY <2>1, SubSeqEmpty
      <3> QED
        BY <3>1, <3>2
    <2>2. CASE q # 0
      <3>1. /\ 3 \in (Len(y) + 1)..(Len(y) + Len(z))
            /\ 2 + q \in (Len(y) + 1)..(Len(y) + Len(z))
            /\ 3 - Len(y) = 1 /\ (2 + q) - Len(y) = Len(z)
        BY ONLY <1>2, <1>4, <2>2, q \in Nat
      <3>2. SubSeq(y \o z, 3, 2 + q) = SubSeq(z, 3 - Len(y), (2 + q) - Len(y))
        BY ONLY y \in Seq(Nat), z \in Seq(Nat), <3>1, SubSeqOfConcat2
      <3>3. SubSeq(z, 1, Len(z)) = z
        BY SubSeqFull
      <3> QED
        BY ONLY <1>5, <3>1, <3>2, <3>3
    <2> QED
      BY <2>1, <2>2
  <1> QED
    BY <1>1, <1>7, <1>10, <1>11, Zenon

\* A read answer is a sequence of cells, and it decodes to what the bank holds.
ReadsAs(r, v) == Decode(r).ok => Decode(r).registers = BankRead(v, Address, Quantity)

\* The fake PLC refuses an exception response.
LEMMA DecodeException ==
    ASSUME NEW r, Pdu(r)[1] # 3
    PROVE  Decode(r) = Failure
  BY DEF Decode, FC_READ_HOLDING_REGISTERS

\* The answer to a read request is a frame.
LEMMA ReadRegistersType ==
    ASSUME NEW h, h.tid \in Nat, h.unit \in Nat, bank \in Bank, NEW d \in Seq(Nat)
    PROVE  ReadRegisters(h, d) \in Seq(Nat)
  <1>0. 3 \in Nat /\ 2 \in Nat /\ MaxQuantity \in Nat /\ BankSize \in Nat
    BY SizesAssumption
  <1>1. CASE Len(d) # 3 \/ d[3] = 0 \/ d[3] > MaxQuantity
    <2>1. ReadRegisters(h, d) = BuildException(h, 3, 3)
      BY <1>0, <1>1 DEF ReadRegisters, FC_READ_HOLDING_REGISTERS, EXC_ILLEGAL_DATA_VALUE
    <2> QED
      BY <1>0, <2>1, ExceptionIs
  <1>2. CASE ~(Len(d) # 3 \/ d[3] = 0 \/ d[3] > MaxQuantity)
    <2>1. PICK a \in Nat, q \in Nat : a = d[2] /\ q = d[3]
      BY <1>2
    <2>2. Len(d) = 3 /\ d[3] \in 1..MaxQuantity
      BY <1>0, <1>2
    <2>3. CASE a + q > BankSize
      <3>1. ReadRegisters(h, d) = BuildException(h, 3, 2)
        BY <1>0, <1>2, <2>1, <2>2, <2>3
        DEF ReadRegisters, FC_READ_HOLDING_REGISTERS, EXC_ILLEGAL_DATA_ADDRESS
      <3> QED
        BY <1>0, <3>1, ExceptionIs
    <2>4. CASE ~(a + q > BankSize)
      <3>1. ReadRegisters(h, d)
               = BuildResponse(h.tid, h.unit, <<3, q>> \o BankRead(bank, a, q))
        BY <1>0, <1>2, <2>1, <2>2, <2>4 DEF ReadRegisters, FC_READ_HOLDING_REGISTERS
      <3>2. a + q <= BankSize
        BY <1>0, <2>4
      <3> QED
        BY <3>1, <3>2, ReadIs
    <2> QED
      BY <2>3, <2>4
  <1> QED
    BY <1>1, <1>2

\* The answer to a write request is a frame.
LEMMA WriteRegisterType ==
    ASSUME NEW h, h.tid \in Nat, h.unit \in Nat, NEW d \in Seq(Nat)
    PROVE  WriteRegister(h, d) \in Seq(Nat)
  <1>0. 3 \in Nat /\ 2 \in Nat /\ 6 \in Nat /\ BankSize \in Nat
    BY SizesAssumption
  <1>1. CASE Len(d) # 3
    <2>1. WriteRegister(h, d) = BuildException(h, 6, 3)
      BY <1>1 DEF WriteRegister, FC_WRITE_SINGLE_REGISTER, EXC_ILLEGAL_DATA_VALUE
    <2> QED
      BY <1>0, <2>1, ExceptionIs
  <1>2. CASE Len(d) = 3 /\ d[2] >= BankSize
    <2>1. WriteRegister(h, d) = BuildException(h, 6, 2)
      BY <1>2 DEF WriteRegister, FC_WRITE_SINGLE_REGISTER, EXC_ILLEGAL_DATA_ADDRESS
    <2> QED
      BY <1>0, <2>1, ExceptionIs
  <1>3. CASE Len(d) = 3 /\ ~(d[2] >= BankSize)
    <2>1. WriteRegister(h, d) = BuildResponse(h.tid, h.unit, d)
      BY <1>3 DEF WriteRegister
    <2>2. IsResponse(BuildResponse(h.tid, h.unit, d), h.tid, h.unit, d)
      <3>1. Len(d) >= 1
        BY <1>3
      <3> QED
        BY <3>1, BuildResponseIs, Zenon
    <2> QED
      BY <2>1, <2>2 DEF IsResponse
  <1> QED
    BY <1>1, <1>2, <1>3

\* Every answer is a frame.
LEMMA DispatchType ==
    ASSUME NEW h, h.tid \in Nat, h.unit \in Nat, bank \in Bank, NEW d \in Seq(Nat), Len(d) >= 1
    PROVE  Dispatch(h, d) \in Seq(Nat)
  <1>0. d[1] \in Nat /\ 1 \in Nat
    OBVIOUS
  <1>1. CASE d[1] = 3
    <2>1. Dispatch(h, d) = ReadRegisters(h, d)
      BY <1>1 DEF Dispatch, FC_READ_HOLDING_REGISTERS, FC_WRITE_SINGLE_REGISTER
    <2> QED
      BY <2>1, ReadRegistersType
  <1>2. CASE d[1] = 6
    BY <1>2, WriteRegisterType
    DEF Dispatch, FC_READ_HOLDING_REGISTERS, FC_WRITE_SINGLE_REGISTER
  <1>3. CASE d[1] # 3 /\ d[1] # 6
    <2>1. Dispatch(h, d) = BuildException(h, d[1], 1)
      BY <1>3 DEF Dispatch, FC_READ_HOLDING_REGISTERS, FC_WRITE_SINGLE_REGISTER,
         EXC_ILLEGAL_FUNCTION
    <2> QED
      BY <1>0, <2>1, ExceptionIs
  <1> QED
    BY <1>1, <1>2, <1>3

\* What the PLC decodes from the answer to its request is what the bank holds.
LEMMA DispatchRequest ==
    ASSUME NEW h, h.tid \in Nat, h.unit \in Nat, bank \in Bank,
           NEW d, d = <<3, Address, Quantity>>
    PROVE  ReadsAs(Dispatch(h, d), bank)
  <1>0. /\ Address \in Nat /\ Quantity \in Nat /\ Quantity \in 1..MaxQuantity
        /\ MaxQuantity \in Nat /\ BankSize \in Nat
    BY PlcAssumption, SizesAssumption
  <1>1. Len(d) = 3 /\ d[1] = 3 /\ d[2] = Address /\ d[3] = Quantity
    OBVIOUS
  <1>2. Dispatch(h, d) = ReadRegisters(h, d)
    BY <1>1 DEF Dispatch, FC_READ_HOLDING_REGISTERS, FC_WRITE_SINGLE_REGISTER
  <1>3. CASE Address + Quantity > BankSize
    <2>1. ReadRegisters(h, d) = BuildException(h, 3, 2)
      BY <1>0, <1>1, <1>3 DEF ReadRegisters, FC_READ_HOLDING_REGISTERS, EXC_ILLEGAL_DATA_ADDRESS
    <2>2. Pdu(BuildException(h, 3, 2))[1] # 3
      BY ExceptionIs
    <2>3. Decode(Dispatch(h, d)) = Failure
      BY <1>2, <2>1, <2>2, DecodeException
    <2> QED
      BY <2>3 DEF ReadsAs, Failure
  <1>4. CASE ~(Address + Quantity > BankSize)
    <2>1. PICK r : r = BuildResponse(h.tid, h.unit, <<3, Quantity>> \o BankRead(bank, Address, Quantity))
      OBVIOUS
    <2>2. ReadRegisters(h, d) = r
      BY <1>0, <1>1, <1>4, <2>1 DEF ReadRegisters, FC_READ_HOLDING_REGISTERS
    <2>3. Address + Quantity <= BankSize
      BY <1>0, <1>4
    <2>4. Pdu(r)[2] = Quantity /\ SubSeq(Pdu(r), 3, 2 + Quantity) = BankRead(bank, Address, Quantity)
      BY ONLY <1>0, <2>1, <2>3, h.tid \in Nat, h.unit \in Nat, bank \in Bank, ReadIs
    <2>5. Decode(r).ok => Decode(r).registers = SubSeq(Pdu(r), 3, 2 + Pdu(r)[2])
      BY DEF Decode, Reading, Failure
    <2> QED
      BY <1>2, <2>2, <2>4, <2>5 DEF ReadsAs
  <1> QED
    BY <1>3, <1>4

\* What the fake PLC decodes is a reading, whole.
LEMMA DecodeType ==
    ASSUME NEW r \in Seq(Nat)
    PROVE  /\ Decode(r) \in [ok : BOOLEAN, registers : Seq(Nat)]
           /\ Decode(r) # Part
  <1>0. 5 \in Nat /\ Len(r) \in Nat
    OBVIOUS
  <1>1. Pdu(r) \in Seq(Nat)
    <2>1. CASE Len(r) >= 4
      BY <1>0, <2>1, SubSeqAt DEF Pdu, MBAP_HEADER_LEN
    <2>2. CASE ~(Len(r) >= 4)
      BY <1>0, <2>2, SubSeqEmpty DEF Pdu, MBAP_HEADER_LEN
    <2> QED
      BY <2>1, <2>2
  <1>2. PICK d \in Seq(Nat) : d = Pdu(r)
    BY <1>1
  <1>3. CASE Decode(r) = Failure
    <2>1. <<>> \in Seq(Nat) /\ <<>> # <<1>>
      OBVIOUS
    <2>2. Failure.registers = <<>> /\ Part.registers = <<1>>
      BY DEF Failure, Part
    <2>3. Failure \in [ok : BOOLEAN, registers : Seq(Nat)]
      BY <2>1 DEF Failure
    <2> QED
      BY <1>3, <2>1, <2>2, <2>3, Zenon
  <1>4. CASE Decode(r) # Failure
    <2>1. Len(d) >= 2 /\ Len(d) >= 2 + d[2] /\ Decode(r) = Reading(SubSeq(d, 3, 2 + d[2]))
      BY <1>2, <1>4 DEF Decode
    <2>2. PICK n \in Nat : n = d[2]
      BY <2>1
    <2>3. 3 \in Nat /\ 2 + n \in Nat /\ 3 >= 1 /\ 2 + n <= Len(d) /\ 3 <= (2 + n) + 1
      BY <2>1, <2>2
    <2>4. SubSeq(d, 3, 2 + n) \in Seq(Nat)
      BY <2>3, SubSeqAt
    <2> QED
      BY <2>1, <2>2, <2>4, SMTT(40) DEF Reading, Part
  <1> QED
    BY <1>3, <1>4

----------------------------------------------------------------------------
(* What each step of a handler does to the invariant of its connection *)

\* Closing keeps a connection consistent.
LEMMA ConnOkClose ==
    ASSUME NEW c, NEW l, NEW s, NEW w, NEW b, NEW h, NEW r, NEW al,
           ConnOk(c, l, s, w, b, h, r, al)
    PROVE  ConnOk(c, "closed", s, <<>>, <<>>, h, r, al)
  <1>1. StreamOk("closed", s, h, <<>>, <<>>)
    BY StreamOkClose DEF ConnOk
  <1>2. AlertOk(c, "closed", h, r, al)
    BY DEF ConnOk, AlertOk
  <1> QED
    BY <1>1, <1>2 DEF ConnOk, NoneOk, DrainOk

\* Opening keeps a connection consistent.
LEMMA ConnOkConnect ==
    ASSUME NEW c, NEW s, NEW w, NEW b, NEW h, NEW r, NEW al,
           ConnOk(c, "none", s, w, b, h, r, al)
    PROVE  ConnOk(c, "recv", s, w, b, h, r, al)
  <1>1. StreamOk("recv", s, h, b, w)
    BY StreamOkGoto DEF ConnOk
  <1>2. AlertOk(c, "recv", h, r, al)
    BY DEF ConnOk, AlertOk
  <1>3. DrainOk("recv", b)
    BY DEF ConnOk, NoneOk, DrainOk, Drained
  <1> QED
    BY <1>1, <1>2, <1>3 DEF ConnOk, NoneOk

\* The client's write keeps a connection consistent.
LEMMA ConnOkSend ==
    ASSUME NEW s \in Seq(Nat), NEW w \in Seq(Nat), NEW b \in Seq(Nat), NEW h \in Seq(Frame),
           NEW c, NEW l, NEW r, NEW al, ConnOk(c, l, s, w, b, h, r, al), l # "none",
           NEW t \in Seq(Nat)
    PROVE  ConnOk(c, l, s \o t, w \o t, b, h, r, al)
  <1>1. StreamOk(l, s \o t, h, b, w \o t)
    BY StreamOkSend DEF ConnOk
  <1> QED
    BY <1>1 DEF ConnOk, NoneOk

\* A recv of any size keeps a connection consistent.
LEMMA ConnOkRecv ==
    ASSUME NEW s \in Seq(Nat), NEW w \in Seq(Nat), NEW b \in Seq(Nat), NEW h \in Seq(Frame),
           NEW c, NEW r, NEW al, ConnOk(c, "recv", s, w, b, h, r, al), w # <<>>,
           NEW n \in Nat \ {0}
    PROVE  /\ Take(w, n) \in Seq(Nat) /\ SubSeq(w, n + 1, Len(w)) \in Seq(Nat)
           /\ ConnOk(c, "drain", s, SubSeq(w, n + 1, Len(w)), b \o Take(w, n), h, r, al)
  <1>0. StreamOk("recv", s, h, b, w) /\ "recv" # "closed"
    BY DEF ConnOk
  <1>1. /\ Take(w, n) \in Seq(Nat) /\ SubSeq(w, n + 1, Len(w)) \in Seq(Nat)
        /\ StreamOk("drain", s, h, b \o Take(w, n), SubSeq(w, n + 1, Len(w)))
    BY <1>0, StreamOkRecv
  <1>2. AlertOk(c, "drain", h, r, al)
    BY DEF ConnOk, AlertOk
  <1> QED
    BY <1>1, <1>2 DEF ConnOk, NoneOk, DrainOk

\* The inner loop may be left once no whole frame is in the buffer.
LEMMA ConnOkLoop ==
    ASSUME NEW c, NEW s, NEW w, NEW b, NEW h, NEW r, NEW al,
           ConnOk(c, "drain", s, w, b, h, r, al), Drained(b)
    PROVE  ConnOk(c, "recv", s, w, b, h, r, al)
  <1>1. StreamOk("recv", s, h, b, w)
    BY StreamOkGoto DEF ConnOk
  <1>2. AlertOk(c, "recv", h, r, al)
    BY DEF ConnOk, AlertOk
  <1> QED
    BY <1>1, <1>2 DEF ConnOk, NoneOk, DrainOk

\* The address of a write that AfterDispatch looks at is the one AlertBeforeReply names.
LEMMA AfterDispatchSend ==
    ASSUME NEW f \in Seq(Nat), Len(f) >= 5, AfterDispatch(Pdu(f)) = "send"
    PROVE  ~Critical(f)
  <1>1. SUFFICES ASSUME Critical(f) PROVE FALSE
    OBVIOUS
  <1>2. ~(Writes(Pdu(f)) /\ IsCritical(Pdu(f)[2]))
    BY DEF AfterDispatch
  <1>3. Writes(Pdu(f)) /\ Len(Pdu(f)) = 3
    BY <1>1 DEF Critical, Writes
  <1>4. PICK n \in Nat : n = Len(f)
    OBVIOUS
  <1>5. n >= 5 /\ 5 \in Nat /\ 5 >= 1 /\ n <= Len(f) /\ 5 <= n + 1
    BY <1>4
  <1>6. /\ Len(Pdu(f)) = n + 1 - 5
        /\ \A j \in 1..(n + 1 - 5) : Pdu(f)[j] = f[5 + j - 1]
    BY <1>4, <1>5, SubSeqAt DEF Pdu, MBAP_HEADER_LEN
  <1>7. 2 \in 1..(n + 1 - 5) /\ 5 + 2 - 1 = 6
    <2>1. 3 = n + 1 - 5
      BY ONLY <1>3, <1>6
    <2> QED
      BY ONLY <2>1, n \in Nat
  <1>8. Pdu(f)[2] = f[6]
    BY <1>6, <1>7
  <1> QED
    BY <1>1, <1>2, <1>3, <1>8 DEF Critical

\* A frame is dispatched to its alert, or to its answer if it is no critical write.
LEMMA AlertOkFrame ==
    ASSUME NEW h \in Seq(Frame), NEW f \in Frame, NEW c, NEW r \in Seq(Frame), NEW al, NEW m,
           AlertOk(c, "drain", h, r, al),
           m = "alert" \/ (m = "send" /\ ~Critical(f))
    PROVE  AlertOk(c, m, Append(h, f), r, al)
  <1>1. PICK n \in Nat : n = Len(h)
    OBVIOUS
  <1>2. PICK g : g = Append(h, f)
    OBVIOUS
  <1>3. Len(g) = n + 1 /\ g[n + 1] = f /\ \A k \in 1..n : g[k] = h[k]
    BY ONLY <1>1, <1>2, h \in Seq(Frame), f \in Frame, n \in Nat, AppendAt
  <1>4. Len(r) = n /\ \A i \in 1..n : Critical(h[i]) => <<c, i>> \in al
    BY <1>1 DEF AlertOk
  <1>5. AlertOk(c, m, g, r, al)
    BY <1>3, <1>4 DEF AlertOk
  <1> QED
    BY <1>2, <1>5

\* Dispatching the first frame of the buffer keeps a connection consistent.
LEMMA ConnOkFrame ==
    ASSUME NEW s \in Seq(Nat), NEW w \in Seq(Nat), NEW b \in Seq(Nat), NEW h \in Seq(Frame),
           NEW r \in Seq(Frame), NEW c, NEW al, ConnOk(c, "drain", s, w, b, h, r, al),
           NEW t, Whole(b, t), NEW m, m = AfterDispatch(Pdu(SubSeq(b, 1, t)))
    PROVE  ConnOk(c, m, s, w, SubSeq(b, t + 1, Len(b)), Append(h, SubSeq(b, 1, t)), r, al)
  <1>0. StreamOk("drain", s, h, b, w) /\ AlertOk(c, "drain", h, r, al)
    BY DEF ConnOk
  <1>1. StreamOk(m, s, Append(h, SubSeq(b, 1, t)), SubSeq(b, t + 1, Len(b)), w)
    BY <1>0, StreamOkFrame
  <1>2. PICK f \in Frame : f = SubSeq(b, 1, t)
    BY WholeFrame
  <1>3. f \in Seq(Nat) /\ Len(f) >= 5
    <2>1. Len(f) = t /\ t \in 5..Len(b)
      BY <1>2, WholeFrame
    <2> QED
      BY <2>1 DEF Frame
  <1>4. m = AfterDispatch(Pdu(f)) /\ m \in {"alert", "send"}
    BY <1>2 DEF AfterDispatch
  <1>5. m = "alert" \/ (m = "send" /\ ~Critical(f))
    BY <1>3, <1>4, AfterDispatchSend, Zenon
  <1>6. AlertOk(c, m, Append(h, f), r, al)
    BY <1>0, <1>5, AlertOkFrame
  <1> QED
    BY <1>1, <1>2, <1>4, <1>6 DEF ConnOk, NoneOk, DrainOk

\* Publishing its alert keeps a connection consistent.
LEMMA ConnOkAlert ==
    ASSUME NEW c, NEW s, NEW w, NEW b, NEW h, NEW r, NEW al,
           ConnOk(c, "alert", s, w, b, h, r, al)
    PROVE  ConnOk(c, "send", s, w, b, h, r, al \cup {<<c, Len(h)>>})
  <1>1. StreamOk("send", s, h, b, w)
    BY StreamOkGoto DEF ConnOk
  <1>2. AlertOk(c, "send", h, r, al \cup {<<c, Len(h)>>})
    BY DEF ConnOk, AlertOk
  <1> QED
    BY <1>1, <1>2 DEF ConnOk, NoneOk, DrainOk

\* Sending its answer keeps a connection consistent.
LEMMA ConnOkReply ==
    ASSUME NEW h \in Seq(Frame), NEW r \in Seq(Frame), NEW x \in Frame,
           NEW c, NEW s, NEW w, NEW b, NEW al, ConnOk(c, "send", s, w, b, h, r, al)
    PROVE  ConnOk(c, "drain", s, w, b, h, Append(r, x), al)
  <1>1. StreamOk("drain", s, h, b, w)
    BY StreamOkGoto DEF ConnOk
  <1>2. AlertOk(c, "drain", h, Append(r, x), al)
    <2>1. PICK n \in Nat : n = Len(r)
      OBVIOUS
    <2>2. PICK g : g = Append(r, x)
      OBVIOUS
    <2>3. Len(g) = n + 1
      BY ONLY <2>1, <2>2, r \in Seq(Frame), x \in Frame, n \in Nat, AppendAt
    <2>4. /\ Len(h) = n + 1 /\ \A i \in 1..n : Critical(h[i]) => <<c, i>> \in al
          /\ Critical(h[n + 1]) => <<c, n + 1>> \in al
      BY <2>1 DEF ConnOk, AlertOk
    <2>5. \A i \in 1..(n + 1) : i \in 1..n \/ i = n + 1
      OBVIOUS
    <2>6. AlertOk(c, "drain", h, g, al)
      BY <2>3, <2>4, <2>5, SMTT(40) DEF AlertOk
    <2> QED
      BY <2>2, <2>6
  <1> QED
    BY <1>1, <1>2 DEF ConnOk, NoneOk, DrainOk

\* Alerts of other connections do not disturb it.
LEMMA ConnOkAlerts ==
    ASSUME NEW c, NEW l, NEW s, NEW w, NEW b, NEW h, NEW r, NEW al,
           ConnOk(c, l, s, w, b, h, r, al), NEW al2, al \subseteq al2
    PROVE  ConnOk(c, l, s, w, b, h, r, al2)
  <1>1. AlertOk(c, l, h, r, al2)
    BY DEF ConnOk, AlertOk
  <1> QED
    BY <1>1 DEF ConnOk

----------------------------------------------------------------------------
(* The invariant *)

\* The last content of the history is the bank's.
BankInv == Len(bankHist) >= 1 /\ bankHist[Len(bankHist)] = bank

\* The answer r decodes to what the bank held at some moment since version sn.
Fresh(r, sn, bh) == \E v \in sn..Len(bh) : ReadsAs(r, bh[v])

\* On the connection of a poll there is nothing but its request, and every answer to
\* it, sent or about to be, is a reading of the poll's own time.
PollOk(pl, x, sn, bh, l, s, r, resp) ==
    pl \in {"connected", "sent"} =>
        /\ l # "none" /\ sn \in 1..Len(bh)
        /\ pl = "connected" => s = <<>>
        /\ pl = "sent" => s = Request(x)
        /\ \A i \in 1..Len(r) : Fresh(r[i], sn, bh)
        /\ l \in {"alert", "send"} => Fresh(resp, sn, bh)

PollInv == PollOk(plc, tid, since, bankHist, pc[at], sent[at], replies[at], response[at])

DocInv == doc # Part /\ file # Part /\ (plc = "replace" => tmp = doc)

ServerInv == ServerTypeOK /\ BankInv /\ \A c \in Conn : ConnInv(c)

Inv == TypeOK /\ ServerInv /\ PollInv /\ DocInv

\* The types of one connection's state.
LEMMA TypeFacts ==
    ASSUME ServerTypeOK, NEW c \in Conn
    PROVE  /\ sent[c] \in Seq(Nat) /\ wire[c] \in Seq(Nat) /\ buffer[c] \in Seq(Nat)
           /\ handled[c] \in Seq(Frame) /\ replies[c] \in Seq(Frame) /\ response[c] \in Frame
           /\ bank \in Bank /\ bankHist \in Seq(Bank) /\ Len(bankHist) \in Nat
           /\ pc[c] \in {"none", "recv", "drain", "alert", "send", "closed"}
  BY DEF ServerTypeOK, Frame, Bank

----------------------------------------------------------------------------
(* Steps of the server *)

\* The connections other than c are as they were.
Others(c) ==
    \A d \in Conn \ {c} :
        /\ pc'[d] = pc[d] /\ sent'[d] = sent[d] /\ wire'[d] = wire[d]
        /\ buffer'[d] = buffer[d] /\ handled'[d] = handled[d]
        /\ replies'[d] = replies[d] /\ response'[d] = response[d]

\* The history of the bank only grows.
Grown ==
    Len(bankHist) <= Len(bankHist') /\ \A v \in 1..Len(bankHist) : bankHist'[v] = bankHist[v]

BankSame == bank' = bank /\ bankHist' = bankHist

StepOk(c) == ServerTypeOK' /\ ConnInv(c)' /\ Others(c) /\ alerts \subseteq alerts'

\* d has sent no answer and prepared none.
Quiet(d) ==
    /\ pc[d] # "none" => pc'[d] # "none"
    /\ sent'[d] = sent[d] /\ replies'[d] = replies[d]
    /\ pc'[d] \in {"alert", "send"} =>
           pc[d] \in {"alert", "send"} /\ response'[d] = response[d]

\* A step of one connection keeps every connection consistent.
LEMMA StepConns ==
    ASSUME ServerInv, NEW c \in Conn, StepOk(c), NEW d \in Conn
    PROVE  ConnInv(d)'
  <1>1. CASE d = c
    BY <1>1 DEF StepOk
  <1>2. CASE d # c
    <2>1. /\ pc'[d] = pc[d] /\ sent'[d] = sent[d] /\ wire'[d] = wire[d]
          /\ buffer'[d] = buffer[d] /\ handled'[d] = handled[d] /\ replies'[d] = replies[d]
      BY <1>2 DEF StepOk, Others
    <2>2. ConnOk(d, pc[d], sent[d], wire[d], buffer[d], handled[d], replies[d], alerts)
      BY DEF ServerInv, ConnInv
    <2>3. alerts \subseteq alerts'
      BY DEF StepOk
    <2>4. ConnOk(d, pc[d], sent[d], wire[d], buffer[d], handled[d], replies[d], alerts')
      BY <2>2, <2>3, ConnOkAlerts
    <2> QED
      BY <2>1, <2>4 DEF ConnInv
  <1> QED
    BY <1>1, <1>2

\* Closing is such a step, and writes no register.
LEMMA CloseStep ==
    ASSUME ServerInv, NEW c \in Conn, Close(c)
    PROVE  StepOk(c) /\ BankSame /\ \A d \in Conn : Quiet(d)
  <1>0. ServerTypeOK /\ ConnInv(c)
    BY DEF ServerInv
  <1>1. ServerTypeOK'
    <2>1. <<>> \in Seq(Nat) /\ Len(<<>>) = 0 /\ MaxBuffer \in Nat
      BY SizesAssumption
    <2> QED
      BY <1>0, <2>1, SMTT(40) DEF Close, Goto, ServerTypeOK
  <1>2. /\ pc'[c] = "closed" /\ sent'[c] = sent[c] /\ wire'[c] = <<>> /\ buffer'[c] = <<>>
        /\ handled'[c] = handled[c] /\ replies'[c] = replies[c] /\ alerts' = alerts
    BY <1>0 DEF Close, Goto, ServerTypeOK
  <1>3. ConnInv(c)'
    <2>1. ConnOk(c, "closed", sent[c], <<>>, <<>>, handled[c], replies[c], alerts)
      BY <1>0, ConnOkClose DEF ConnInv
    <2> QED
      BY <1>2, <2>1 DEF ConnInv
  <1>4. Others(c)
    BY <1>0 DEF Close, Goto, ServerTypeOK, Others
  <1>5. \A d \in Conn : Quiet(d)
    BY <1>0 DEF Close, Goto, ServerTypeOK, Quiet
  <1>6. BankSame
    BY DEF Close, BankSame
  <1> QED
    BY <1>1, <1>2, <1>3, <1>4, <1>5, <1>6 DEF StepOk

\* Opening is such a step.
LEMMA ConnectStep ==
    ASSUME ServerInv, NEW c \in Conn, Connect(c)
    PROVE  StepOk(c) /\ BankSame /\ \A d \in Conn : Quiet(d)
  <1>0. ServerTypeOK /\ ConnInv(c) /\ pc[c] = "none"
    BY DEF ServerInv, Connect
  <1>1. ServerTypeOK'
    BY <1>0 DEF Connect, Goto, ServerTypeOK, handlerVars, streamVars
  <1>2. /\ pc'[c] = "recv" /\ sent'[c] = sent[c] /\ wire'[c] = wire[c] /\ buffer'[c] = buffer[c]
        /\ handled'[c] = handled[c] /\ replies'[c] = replies[c] /\ alerts' = alerts
    BY <1>0 DEF Connect, Goto, ServerTypeOK, handlerVars, streamVars
  <1>3. ConnInv(c)'
    <2>1. ConnOk(c, "recv", sent[c], wire[c], buffer[c], handled[c], replies[c], alerts)
      BY <1>0, ConnOkConnect DEF ConnInv
    <2> QED
      BY <1>2, <2>1 DEF ConnInv
  <1>4. Others(c)
    BY <1>0 DEF Connect, Goto, ServerTypeOK, handlerVars, streamVars, Others
  <1>5. \A d \in Conn : Quiet(d)
    BY <1>0 DEF Connect, Goto, ServerTypeOK, handlerVars, streamVars, Quiet
  <1>6. BankSame
    BY DEF Connect, handlerVars, BankSame
  <1> QED
    BY <1>1, <1>2, <1>3, <1>4, <1>5, <1>6 DEF StepOk

\* The client's write is such a step.
LEMMA SendStep ==
    ASSUME ServerInv, NEW c \in Conn, NEW t \in Seq(Nat), Send(c, t)
    PROVE  StepOk(c) /\ BankSame /\ sent'[c] = sent[c] \o t
  <1>0. ServerTypeOK /\ ConnInv(c) /\ pc[c] # "none"
    BY DEF ServerInv, Send
  <1>1. sent[c] \o t \in Seq(Nat) /\ wire[c] \o t \in Seq(Nat)
    BY <1>0, TypeFacts, ConcatProperties
  <1>2. ServerTypeOK'
    BY <1>0, <1>1 DEF Send, ServerTypeOK, handlerVars
  <1>3. /\ pc'[c] = pc[c] /\ sent'[c] = sent[c] \o t /\ wire'[c] = wire[c] \o t
        /\ buffer'[c] = buffer[c] /\ handled'[c] = handled[c] /\ replies'[c] = replies[c]
        /\ alerts' = alerts
    BY <1>0 DEF Send, ServerTypeOK, handlerVars
  <1>4. ConnInv(c)'
    <2>1. ConnOk(c, pc[c], sent[c] \o t, wire[c] \o t, buffer[c], handled[c], replies[c], alerts)
      BY <1>0, TypeFacts, ConnOkSend DEF ConnInv
    <2> QED
      BY <1>3, <2>1 DEF ConnInv
  <1>5. Others(c)
    BY <1>0 DEF Send, ServerTypeOK, handlerVars, Others
  <1>6. BankSame
    BY DEF Send, handlerVars, BankSame
  <1> QED
    BY <1>2, <1>3, <1>4, <1>5, <1>6 DEF StepOk

\* A recv is such a step.
LEMMA RecvStep ==
    ASSUME ServerInv, NEW c \in Conn, NEW n \in Nat \ {0}, Recv(c, n)
    PROVE  StepOk(c) /\ BankSame /\ \A d \in Conn : Quiet(d)
  <1>0. ServerTypeOK /\ ConnInv(c) /\ pc[c] = "recv" /\ wire[c] # <<>>
        /\ Len(buffer[c] \o Take(wire[c], n)) <= MaxBuffer
    BY DEF ServerInv, Recv
  <1>1. /\ Take(wire[c], n) \in Seq(Nat) /\ SubSeq(wire[c], n + 1, Len(wire[c])) \in Seq(Nat)
        /\ ConnOk(c, "drain", sent[c], SubSeq(wire[c], n + 1, Len(wire[c])),
                  buffer[c] \o Take(wire[c], n), handled[c], replies[c], alerts)
    <2>1. ConnOk(c, "recv", sent[c], wire[c], buffer[c], handled[c], replies[c], alerts)
      BY <1>0 DEF ConnInv
    <2> QED
      BY <1>0, <2>1, TypeFacts, ConnOkRecv
  <1>2. buffer[c] \o Take(wire[c], n) \in Seq(Nat)
    BY <1>0, <1>1, TypeFacts, ConcatProperties
  <1>3. ServerTypeOK'
    BY <1>0, <1>1, <1>2 DEF Recv, Goto, ServerTypeOK
  <1>4. /\ pc'[c] = "drain" /\ sent'[c] = sent[c]
        /\ wire'[c] = SubSeq(wire[c], n + 1, Len(wire[c]))
        /\ buffer'[c] = buffer[c] \o Take(wire[c], n)
        /\ handled'[c] = handled[c] /\ replies'[c] = replies[c] /\ alerts' = alerts
    BY <1>0 DEF Recv, Goto, ServerTypeOK
  <1>5. ConnInv(c)'
    BY <1>1, <1>4 DEF ConnInv
  <1>6. Others(c)
    BY <1>0 DEF Recv, Goto, ServerTypeOK, Others
  <1>7. \A d \in Conn : Quiet(d)
    BY <1>0 DEF Recv, Goto, ServerTypeOK, Quiet
  <1>8. BankSame
    BY DEF Recv, BankSame
  <1> QED
    BY <1>3, <1>4, <1>5, <1>6, <1>7, <1>8 DEF StepOk

\* Going back to recv is such a step.
LEMMA GotoRecvStep ==
    ASSUME ServerInv, NEW c \in Conn, DrainWait(c), ~stopping, Goto(c, "recv"),
           UNCHANGED <<stopping, handlerVars, streamVars>>
    PROVE  StepOk(c) /\ BankSame /\ \A d \in Conn : Quiet(d)
  <1>0. ServerTypeOK /\ ConnInv(c) /\ pc[c] = "drain"
    BY DEF ServerInv, DrainWait
  <1>1. Drained(buffer[c])
    <2>1. SUFFICES ASSUME Len(buffer[c]) >= 4
                   PROVE  /\ ValidHeader(Header(buffer[c]))
                          /\ Len(buffer[c]) < TotalFrameLen(Header(buffer[c]))
      BY DEF Drained
    <2>2. /\ ValidHeader(Header(buffer[c]))
          /\ ~(Len(buffer[c]) >= TotalFrameLen(Header(buffer[c])))
      BY <2>1 DEF DrainWait, Complete, HasHeader, MBAP_HEADER_LEN
    <2>3. PICK n \in Nat : n = TotalFrameLen(Header(buffer[c]))
      <3>1. PICK k \in Nat : k = buffer[c][3]
        BY <1>0, <2>1, TypeFacts, HeaderOf
      <3>2. TotalFrameLen(Header(buffer[c])) = 3 + k
        BY <1>0, <2>1, <3>1, TypeFacts, HeaderOf
      <3> QED
        BY <3>2
    <2>4. Len(buffer[c]) \in Nat
      BY <1>0, TypeFacts
    <2> QED
      BY ONLY <2>2, <2>3, <2>4, n \in Nat
  <1>2. ServerTypeOK'
    BY <1>0 DEF Goto, ServerTypeOK, handlerVars, streamVars
  <1>3. /\ pc'[c] = "recv" /\ sent'[c] = sent[c] /\ wire'[c] = wire[c] /\ buffer'[c] = buffer[c]
        /\ handled'[c] = handled[c] /\ replies'[c] = replies[c] /\ alerts' = alerts
    BY <1>0 DEF Goto, ServerTypeOK, handlerVars, streamVars
  <1>4. ConnInv(c)'
    <2>1. ConnOk(c, "recv", sent[c], wire[c], buffer[c], handled[c], replies[c], alerts)
      BY <1>0, <1>1, ConnOkLoop DEF ConnInv
    <2> QED
      BY <1>3, <2>1 DEF ConnInv
  <1>5. Others(c)
    BY <1>0 DEF Goto, ServerTypeOK, handlerVars, streamVars, Others
  <1>6. \A d \in Conn : Quiet(d)
    BY <1>0 DEF Goto, ServerTypeOK, handlerVars, streamVars, Quiet
  <1>7. BankSame
    BY DEF handlerVars, BankSame
  <1> QED
    BY <1>2, <1>3, <1>4, <1>5, <1>6, <1>7 DEF StepOk

\* An alert is such a step.
LEMMA AlertStep ==
    ASSUME ServerInv, NEW c \in Conn, Alert(c)
    PROVE  StepOk(c) /\ BankSame /\ \A d \in Conn : Quiet(d)
  <1>0. ServerTypeOK /\ ConnInv(c) /\ pc[c] = "alert"
    BY DEF ServerInv, Alert
  <1>1. Len(handled[c]) \in Nat
    BY <1>0, TypeFacts
  <1>2. ServerTypeOK'
    <2>1. alerts' \in SUBSET (Conn \X Nat)
      BY <1>0, <1>1 DEF Alert, ServerTypeOK
    <2> QED
      BY <1>0, <2>1 DEF Alert, Goto, ServerTypeOK, streamVars
  <1>3. /\ pc'[c] = "send" /\ sent'[c] = sent[c] /\ wire'[c] = wire[c] /\ buffer'[c] = buffer[c]
        /\ handled'[c] = handled[c] /\ replies'[c] = replies[c]
        /\ alerts' = alerts \cup {<<c, Len(handled[c])>>}
    BY <1>0 DEF Alert, Goto, ServerTypeOK, streamVars
  <1>4. ConnInv(c)'
    <2>1. ConnOk(c, "send", sent[c], wire[c], buffer[c], handled[c], replies[c],
                 alerts \cup {<<c, Len(handled[c])>>})
      BY <1>0, ConnOkAlert DEF ConnInv
    <2> QED
      BY <1>3, <2>1 DEF ConnInv
  <1>5. Others(c)
    BY <1>0 DEF Alert, Goto, ServerTypeOK, streamVars, Others
  <1>6. \A d \in Conn : Quiet(d)
    BY <1>0 DEF Alert, Goto, ServerTypeOK, streamVars, Quiet
  <1>7. BankSame
    BY DEF Alert, BankSame
  <1> QED
    BY <1>2, <1>3, <1>4, <1>5, <1>6, <1>7 DEF StepOk

\* Sending an answer is such a step; the answer is the one dispatch made.
LEMMA ReplyStep ==
    ASSUME ServerInv, NEW c \in Conn, SendReply(c)
    PROVE  /\ StepOk(c) /\ BankSame
           /\ pc[c] = "send" /\ pc'[c] = "drain" /\ sent'[c] = sent[c]
           /\ replies'[c] = Append(replies[c], response[c])
  <1>0. ServerTypeOK /\ ConnInv(c) /\ pc[c] = "send"
    BY DEF ServerInv, SendReply, Answered
  <1>1. /\ replies[c] \in Seq(Frame) /\ response[c] \in Frame /\ handled[c] \in Seq(Frame)
        /\ Append(replies[c], response[c]) \in Seq(Seq(Nat)) /\ <<>> \in Seq(Nat)
    BY <1>0, TypeFacts, AppendAt DEF Frame
  <1>2. ServerTypeOK'
    BY <1>0, <1>1 DEF SendReply, Answered, Goto, ServerTypeOK, streamVars
  <1>3. /\ pc'[c] = "drain" /\ sent'[c] = sent[c] /\ wire'[c] = wire[c] /\ buffer'[c] = buffer[c]
        /\ handled'[c] = handled[c] /\ replies'[c] = Append(replies[c], response[c])
        /\ alerts' = alerts
    BY <1>0 DEF SendReply, Answered, Goto, ServerTypeOK, streamVars
  <1>4. ConnInv(c)'
    <2>1. ConnOk(c, "drain", sent[c], wire[c], buffer[c], handled[c],
                 Append(replies[c], response[c]), alerts)
      BY <1>0, <1>1, ConnOkReply DEF ConnInv
    <2> QED
      BY <1>3, <2>1 DEF ConnInv
  <1>5. Others(c)
    BY <1>0 DEF SendReply, Answered, Goto, ServerTypeOK, streamVars, Others
  <1>6. BankSame
    BY DEF SendReply, Answered, BankSame
  <1> QED
    BY <1>0, <1>2, <1>3, <1>4, <1>5, <1>6 DEF StepOk

\* The bank after a frame with the PDU d, and its history.
LEMMA BankStep ==
    ASSUME bank \in Bank, bankHist \in Seq(Bank), BankInv, NEW d \in Seq(Nat),
           bank' = IF Writes(d) THEN [bank EXCEPT ![d[2]] = d[3]] ELSE bank,
           bankHist' = IF bank' = bank THEN bankHist ELSE Append(bankHist, bank')
    PROVE  bank' \in Bank /\ bankHist' \in Seq(Bank) /\ BankInv' /\ Grown
  <1>1. bank' \in Bank
    <2>1. CASE Writes(d)
      <3>1. Len(d) = 3
        BY <2>1 DEF Writes
      <3>2. d[3] \in Nat /\ d[2] \in Nat
        <4>1. 2 \in 1..Len(d) /\ 3 \in 1..Len(d)
          BY ONLY <3>1
        <4>2. \A i \in 1..Len(d) : d[i] \in Nat
          BY ONLY d \in Seq(Nat)
        <4> QED
          BY <4>1, <4>2, Zenon
      <3> QED
        BY <2>1, <3>2 DEF Bank
    <2>2. CASE ~Writes(d)
      BY <2>2
    <2> QED
      BY <2>1, <2>2
  <1>2. PICK n \in Nat : n = Len(bankHist)
    OBVIOUS
  <1>3. PICK v \in Bank : v = bank'
    BY <1>1
  <1>4. PICK g : g = Append(bankHist, v)
    OBVIOUS
  <1>5. g \in Seq(Bank) /\ Len(g) = n + 1 /\ g[n + 1] = v /\ \A k \in 1..n : g[k] = bankHist[k]
    BY ONLY <1>2, <1>4, bankHist \in Seq(Bank), v \in Bank, n \in Nat, AppendAt
  <1>6. CASE bank' = bank
    BY <1>1, <1>2, <1>6 DEF BankInv, Grown
  <1>7. CASE bank' # bank
    <2>1. bankHist' = g
      BY <1>3, <1>4, <1>7
    <2> QED
      BY <1>1, <1>2, <1>3, <1>5, <2>1 DEF BankInv, Grown
  <1> QED
    BY <1>6, <1>7

\* A frame carries a function code at least.
LEMMA PduOf ==
    ASSUME NEW f \in Seq(Nat), Len(f) >= 5
    PROVE  Pdu(f) \in Seq(Nat) /\ Len(Pdu(f)) >= 1
  <1>1. PICK n \in Nat : n = Len(f)
    OBVIOUS
  <1>2. n >= 5 /\ 5 \in Nat /\ 5 >= 1 /\ n <= Len(f) /\ 5 <= n + 1
    BY <1>1
  <1>3. Pdu(f) \in Seq(Nat) /\ Len(Pdu(f)) = n + 1 - 5
    BY <1>1, <1>2, SubSeqAt DEF Pdu, MBAP_HEADER_LEN
  <1> QED
    BY <1>2, <1>3

\* Dispatching is such a step, and a register write extends the bank's history.
LEMMA FrameStepOk ==
    ASSUME ServerInv, NEW c \in Conn, DrainFrame(c)
    PROVE  /\ StepOk(c) /\ BankInv' /\ Grown
           /\ pc[c] = "drain" /\ pc'[c] \in {"alert", "send"} /\ sent'[c] = sent[c]
           /\ replies'[c] = replies[c]
           /\ \E t : /\ Whole(buffer[c], t)
                     /\ response'[c] = Dispatch(Header(buffer[c]), Pdu(SubSeq(buffer[c], 1, t)))
  <1> DEFINE b == buffer[c]
             t == TotalFrameLen(Header(b))
             f == SubSeq(b, 1, t)
             d == Pdu(f)
  <1>0. ServerTypeOK /\ ConnInv(c) /\ pc[c] = "drain" /\ BankInv
    BY DEF ServerInv, DrainFrame
  <1>1. Whole(b, t)
    BY <1>0 DEF DrainFrame, Complete, HasHeader, MBAP_HEADER_LEN, Whole
  <1>2. /\ f \in Frame /\ Len(f) = t /\ t \in 5..Len(b)
        /\ SubSeq(b, t + 1, Len(b)) \in Seq(Nat) /\ Len(SubSeq(b, t + 1, Len(b))) <= Len(b)
    BY <1>0, <1>1, TypeFacts, WholeFrame
  <1>3. d \in Seq(Nat) /\ Len(d) >= 1
    <2>1. f \in Seq(Nat) /\ Len(f) >= 5
      <3> HIDE DEF f, t
      <3> QED
        BY <1>2 DEF Frame
    <2> HIDE DEF f
    <2> QED
      BY <2>1, PduOf
  <1>4. Header(b).tid \in Nat /\ Header(b).unit \in Nat
    BY <1>0, <1>1, TypeFacts, HeaderOf DEF Header, Whole
  <1>5. Dispatch(Header(b), d) \in Seq(Nat)
    BY <1>0, <1>3, <1>4, TypeFacts, DispatchType
  <1>6. /\ buffer' = [buffer EXCEPT ![c] = SubSeq(b, t + 1, Len(b))]
        /\ handled' = [handled EXCEPT ![c] = Append(handled[c], f)]
        /\ response' = [response EXCEPT ![c] = Dispatch(Header(b), d)]
        /\ pc' = [pc EXCEPT ![c] = AfterDispatch(d)]
        /\ UNCHANGED <<stopping, replies, alerts, sent, wire, eof>>
    BY DEF DrainFrame, Goto, streamVars
  <1>7. bank' \in Bank /\ bankHist' \in Seq(Bank) /\ BankInv' /\ Grown
    <2>1. /\ bank' = IF Writes(d) THEN [bank EXCEPT ![d[2]] = d[3]] ELSE bank
          /\ bankHist' = IF bank' = bank THEN bankHist ELSE Append(bankHist, bank')
      BY DEF DrainFrame
    <2> HIDE DEF d
    <2> QED
      BY <1>0, <1>3, <2>1, TypeFacts, BankStep
  <1>8. AfterDispatch(d) \in {"alert", "send"}
    BY DEF AfterDispatch
  <1>9. handled[c] \in Seq(Frame) /\ Append(handled[c], f) \in Seq(Seq(Nat))
    BY <1>0, <1>2, TypeFacts, AppendAt DEF Frame
  <1>10. ConnOk(c, AfterDispatch(d), sent[c], wire[c], SubSeq(b, t + 1, Len(b)),
                Append(handled[c], f), replies[c], alerts)
    BY <1>0, <1>1, TypeFacts, ConnOkFrame DEF ConnInv
  <1> HIDE DEF t, f, d
  <1>11. ServerTypeOK'
    <2>1. /\ bank' \in [0..(BankSize - 1) -> Nat]
          /\ bankHist' \in Seq([0..(BankSize - 1) -> Nat])
      BY <1>7 DEF Bank
    <2>2. /\ stopping' \in BOOLEAN /\ eof' \in [Conn -> BOOLEAN]
          /\ pc' \in [Conn -> {"none", "recv", "drain", "alert", "send", "closed"}]
          /\ sent' \in [Conn -> Seq(Nat)] /\ wire' \in [Conn -> Seq(Nat)]
          /\ replies' \in [Conn -> Seq(Seq(Nat))] /\ alerts' \in SUBSET (Conn \X Nat)
      BY <1>0, <1>6, <1>8 DEF ServerTypeOK
    <2>3. buffer' \in [Conn -> Seq(Nat)] /\ response' \in [Conn -> Seq(Nat)]
      BY <1>0, <1>2, <1>5, <1>6 DEF ServerTypeOK
    <2>4. handled' \in [Conn -> Seq(Seq(Nat))]
      BY <1>0, <1>6, <1>9 DEF ServerTypeOK
    <2>5. ASSUME NEW x \in Conn PROVE Len(buffer'[x]) <= MaxBuffer
      <3>1. /\ Len(buffer[x]) \in Nat /\ Len(buffer[x]) <= MaxBuffer /\ MaxBuffer \in Nat
            /\ Len(b) \in Nat /\ Len(b) <= MaxBuffer
        <4>1. /\ buffer[x] \in Seq(Nat) /\ Len(buffer[x]) <= MaxBuffer
              /\ b \in Seq(Nat) /\ Len(b) <= MaxBuffer
          BY <1>0 DEF ServerTypeOK
        <4> QED
          BY <4>1, SizesAssumption
      <3>2. CASE x = c
        <4>1. buffer'[x] = SubSeq(b, t + 1, Len(b))
          BY <1>0, <1>6, <3>2 DEF ServerTypeOK
        <4>2. Len(buffer'[x]) \in Nat /\ Len(buffer'[x]) <= Len(b)
          BY <1>2, <4>1
        <4> QED
          BY ONLY <3>1, <4>2
      <3>3. CASE x # c
        BY <1>0, <1>6, <3>1, <3>3 DEF ServerTypeOK
      <3> QED
        BY <3>2, <3>3
    <2> QED
      BY <2>1, <2>2, <2>3, <2>4, <2>5 DEF ServerTypeOK
  <1>12. /\ pc'[c] = AfterDispatch(d) /\ sent'[c] = sent[c] /\ wire'[c] = wire[c]
         /\ buffer'[c] = SubSeq(b, t + 1, Len(b)) /\ handled'[c] = Append(handled[c], f)
         /\ replies'[c] = replies[c] /\ alerts' = alerts
         /\ response'[c] = Dispatch(Header(b), d)
    BY <1>0, <1>6 DEF ServerTypeOK
  <1>13. ConnInv(c)'
    BY <1>10, <1>12 DEF ConnInv
  <1>14. Others(c)
    BY <1>0, <1>6 DEF ServerTypeOK, Others
  <1>15. \E x : /\ Whole(buffer[c], x)
                /\ response'[c] = Dispatch(Header(buffer[c]), Pdu(SubSeq(buffer[c], 1, x)))
    BY <1>1, <1>12 DEF f, d
  <1> QED
    BY <1>0, <1>7, <1>8, <1>11, <1>12, <1>13, <1>14, <1>15 DEF StepOk

----------------------------------------------------------------------------
(* The poll during a step of the server *)

Grows(bh, bh2) ==
    /\ bh \in Seq(Bank) /\ bh2 \in Seq(Bank) /\ Len(bh) <= Len(bh2)
    /\ \A v \in 1..Len(bh) : bh2[v] = bh[v]

\* A reading that was real stays real when the bank's history grows.
LEMMA FreshGrows ==
    ASSUME NEW bh, NEW bh2, Grows(bh, bh2), NEW sn \in 1..Len(bh), NEW r, Fresh(r, sn, bh)
    PROVE  Fresh(r, sn, bh2)
  <1>1. PICK v \in sn..Len(bh) : ReadsAs(r, bh[v])
    BY DEF Fresh
  <1>2. Len(bh) \in Nat /\ Len(bh2) \in Nat /\ Len(bh) <= Len(bh2)
    BY DEF Grows
  <1>3. v \in 1..Len(bh) /\ v \in sn..Len(bh2)
    BY ONLY <1>2, sn \in 1..Len(bh), v \in sn..Len(bh)
  <1>4. bh2[v] = bh[v]
    BY <1>3 DEF Grows
  <1> QED
    BY <1>1, <1>3, <1>4 DEF Fresh

\* What a poll knows survives writes of others and its own connection's progress.
LEMMA PollOkStep ==
    ASSUME NEW pl, NEW x, NEW sn, NEW bh, NEW l, NEW s, NEW r, NEW resp,
           PollOk(pl, x, sn, bh, l, s, r, resp),
           NEW bh2, Grows(bh, bh2), NEW l2, NEW resp2,
           l # "none" => l2 # "none",
           l2 \in {"alert", "send"} => l \in {"alert", "send"} /\ resp2 = resp
    PROVE  PollOk(pl, x, sn, bh2, l2, s, r, resp2)
  <1>1. SUFFICES ASSUME pl \in {"connected", "sent"}
                 PROVE  PollOk(pl, x, sn, bh2, l2, s, r, resp2)
    BY DEF PollOk
  <1>2. /\ l # "none" /\ sn \in 1..Len(bh)
        /\ pl = "connected" => s = <<>>
        /\ pl = "sent" => s = Request(x)
        /\ \A i \in 1..Len(r) : Fresh(r[i], sn, bh)
        /\ l \in {"alert", "send"} => Fresh(resp, sn, bh)
    BY <1>1 DEF PollOk
  <1>3. Len(bh) \in Nat /\ Len(bh2) \in Nat /\ Len(bh) <= Len(bh2)
    BY DEF Grows
  <1>4. sn \in 1..Len(bh2)
    BY ONLY <1>2, <1>3
  <1>5. ASSUME NEW y, Fresh(y, sn, bh) PROVE Fresh(y, sn, bh2)
    BY <1>2, <1>5, FreshGrows
  <1> QED
    BY <1>2, <1>4, <1>5, Zenon DEF PollOk

\* The poll's connection is one of the server's.
LEMMA AtConn ==
    ASSUME Inv
    PROVE  at \in Conn /\ at \in Poll /\ tid \in Nat /\ ServerInv /\ ServerTypeOK
  BY PlcAssumption DEF Inv, TypeOK

\* A step that leaves the poll's connection alone keeps what the poll knows.
LEMMA PollKept ==
    ASSUME Inv, ServerTypeOK', Grown, Quiet(at), UNCHANGED <<plc, at, tid, since>>
    PROVE  PollInv'
  <1>1. Grows(bankHist, bankHist')
    <2>1. ServerTypeOK
      BY AtConn
    <2>2. bankHist \in Seq(Bank) /\ bankHist' \in Seq(Bank)
      BY <2>1 DEF ServerTypeOK, Bank
    <2> QED
      BY <2>2, Zenon DEF Grown, Grows
  <1>2. PollOk(plc, tid, since, bankHist, pc[at], sent[at], replies[at], response[at])
    BY DEF Inv, PollInv
  <1>3. /\ pc[at] # "none" => pc'[at] # "none"
        /\ sent'[at] = sent[at] /\ replies'[at] = replies[at]
        /\ pc'[at] \in {"alert", "send"} =>
               pc[at] \in {"alert", "send"} /\ response'[at] = response[at]
    BY DEF Quiet
  <1>4. PollOk(plc, tid, since, bankHist', pc'[at], sent[at], replies[at], response'[at])
    BY <1>1, <1>2, <1>3, PollOkStep
  <1> QED
    BY <1>3, <1>4 DEF PollInv

\* A step of one connection leaves the others alone.
LEMMA OthersQuiet ==
    ASSUME NEW c, Others(c), NEW d \in Conn \ {c}
    PROVE  Quiet(d)
  BY DEF Others, Quiet

\* A step that writes no register keeps the bank's invariant.
LEMMA BankSameGrown ==
    ASSUME ServerInv, BankSame
    PROVE  BankInv' /\ Grown
  <1>1. Len(bankHist) \in Nat
    BY DEF ServerInv, ServerTypeOK
  <1> QED
    BY <1>1 DEF ServerInv, BankInv, BankSame, Grown

\* A step of the server leaves the fake PLC's own state and files alone.
LEMMA PlcKept ==
    ASSUME Inv, ServerTypeOK', UNCHANGED plcVars
    PROVE  TypeOK' /\ DocInv'
  <1>1. /\ plc' = plc /\ at' = at /\ tid' = tid /\ since' = since /\ doc' = doc
        /\ tmp' = tmp /\ file' = file /\ crashes' = crashes
    BY DEF plcVars
  <1>2. TypeOK /\ DocInv
    BY DEF Inv
  <1>3. /\ plc' \in {"idle", "connected", "sent", "publish", "write", "replace", "dead"}
        /\ at' \in Poll /\ tid' \in 0..(TID_MODULUS - 1) /\ since' \in Nat /\ crashes' \in Nat
    BY <1>1, <1>2, Zenon DEF TypeOK
  <1>4. {doc', tmp', file'} \subseteq [ok : BOOLEAN, registers : Seq(Nat)]
    BY <1>1, <1>2, Zenon DEF TypeOK
  <1>5. TypeOK'
    BY <1>3, <1>4, Zenon DEF TypeOK
  <1>6. DocInv'
    BY <1>1, <1>2, Zenon DEF DocInv
  <1> QED
    BY <1>5, <1>6

\* A step of the server that leaves the PLC alone.
LEMMA ServerStep ==
    ASSUME Inv, NEW c \in Conn, StepOk(c), BankInv', PollInv', UNCHANGED plcVars
    PROVE  Inv'
  <1>1. ServerInv'
    <2>1. \A d \in Conn : ConnInv(d)'
      BY StepConns DEF Inv
    <2> QED
      BY <2>1 DEF ServerInv, StepOk
  <1>2. TypeOK' /\ DocInv'
    BY <1>1, PlcKept DEF ServerInv
  <1> QED
    BY <1>1, <1>2 DEF Inv

\* A step of another connection that writes no register keeps the invariant.
LEMMA QuietStep ==
    ASSUME Inv, NEW c \in Conn, StepOk(c), BankSame, Quiet(at), UNCHANGED plcVars
    PROVE  Inv'
  <1>1. BankInv' /\ Grown
    BY AtConn, BankSameGrown
  <1>2. PollInv'
    BY <1>1, PollKept DEF StepOk, plcVars
  <1> QED
    BY <1>1, <1>2, ServerStep

\* Only eof or stopping changes.
LEMMA FlagStep ==
    ASSUME ServerInv, UNCHANGED <<pc, handlerVars, sent, wire>>,
           eof' \in [Conn -> BOOLEAN], stopping' \in BOOLEAN
    PROVE  ServerInv' /\ BankSame /\ \A d \in Conn : Quiet(d)
  <1>1. ServerTypeOK'
    BY DEF ServerInv, ServerTypeOK, handlerVars
  <1>2. \A d \in Conn : ConnInv(d)'
    BY DEF ServerInv, ConnInv, handlerVars
  <1>3. BankSame /\ BankInv' /\ \A d \in Conn : Quiet(d)
    BY DEF ServerInv, BankInv, BankSame, Quiet, handlerVars
  <1> QED
    BY <1>1, <1>2, <1>3 DEF ServerInv

\* A flag changes and the PLC stays where it is.
LEMMA FlagKeepsInv ==
    ASSUME Inv, UNCHANGED <<pc, handlerVars, sent, wire>>, UNCHANGED plcVars,
           eof' \in [Conn -> BOOLEAN], stopping' \in BOOLEAN
    PROVE  Inv'
  <1>1. ServerInv' /\ BankSame /\ Quiet(at)
    BY AtConn, FlagStep
  <1>2. BankInv' /\ Grown
    BY <1>1, AtConn, BankSameGrown
  <1>3. PollInv'
    BY <1>1, <1>2, PollKept DEF ServerInv, plcVars
  <1>4. TypeOK' /\ DocInv'
    BY <1>1, PlcKept DEF ServerInv
  <1> QED
    BY <1>1, <1>3, <1>4 DEF Inv

----------------------------------------------------------------------------
(* DrainFrame and SendReply on the connection of the poll *)

\* Nothing is dispatched before the client has written something.
LEMMA EmptyNoFrame ==
    ASSUME NEW h \in Seq(Frame), NEW b \in Seq(Nat), NEW w \in Seq(Nat), NEW l,
           StreamOk(l, <<>>, h, b, w), l # "closed", NEW t, Whole(b, t)
    PROVE  FALSE
  <1>1. <<>> \in Seq(Nat) /\ Len(<<>>) = 0
    OBVIOUS
  <1>2. PICK cut : \E p \in Nat : NextCut(<<>>, h, b, w, t, cut, p)
    BY <1>1, FrameCut
  <1>3. PICK p \in Nat : NextCut(<<>>, h, b, w, t, cut, p)
    BY <1>2, Zenon
  <1>4. FrameAt(<<>>, p + 1)
    BY <1>3, Zenon DEF NextCut
  <1>5. (p + 1) + 3 <= Len(<<>>)
    BY <1>4, Zenon DEF FrameAt
  <1> QED
    BY <1>1, <1>5

\* The request dispatched on the poll's connection is the poll's, and so is its answer.
LEMMA PollFrame ==
    ASSUME Inv, NEW c \in Conn, c = at, DrainFrame(c), UNCHANGED plcVars
    PROVE  PollInv'
  <1>0. /\ ServerInv /\ ServerTypeOK /\ ConnInv(c) /\ tid \in Nat
        /\ PollOk(plc, tid, since, bankHist, pc[c], sent[c], replies[c], response[c])
    BY AtConn DEF Inv, ServerInv, PollInv
  <1>1. /\ StepOk(c) /\ BankInv' /\ Grown
        /\ pc[c] = "drain" /\ pc'[c] \in {"alert", "send"} /\ sent'[c] = sent[c]
        /\ replies'[c] = replies[c]
    BY <1>0, FrameStepOk
  <1>2. PICK t : /\ Whole(buffer[c], t)
                 /\ response'[c] = Dispatch(Header(buffer[c]), Pdu(SubSeq(buffer[c], 1, t)))
    BY <1>0, FrameStepOk
  <1>3. SUFFICES ASSUME plc \in {"connected", "sent"} PROVE PollInv'
    BY DEF PollInv, PollOk, plcVars
  <1>4. /\ since \in 1..Len(bankHist) /\ (plc = "connected" => sent[c] = <<>>)
        /\ (plc = "sent" => sent[c] = Request(tid))
        /\ \A i \in 1..Len(replies[c]) : Fresh(replies[c][i], since, bankHist)
    BY <1>0, <1>3 DEF PollOk
  <1>5. StreamOk("drain", sent[c], handled[c], buffer[c], wire[c])
    BY <1>0, <1>1 DEF ConnInv, ConnOk
  <1>6. /\ handled[c] \in Seq(Frame) /\ buffer[c] \in Seq(Nat) /\ wire[c] \in Seq(Nat)
        /\ bank \in Bank /\ bankHist \in Seq(Bank) /\ Len(bankHist) \in Nat
    BY <1>0, TypeFacts
  <1>7. plc = "sent" /\ sent[c] = Request(tid)
    <2>1. plc # "connected"
      BY <1>2, <1>4, <1>5, <1>6, EmptyNoFrame
    <2> QED
      BY <1>3, <1>4, <2>1
  <1>8. SubSeq(buffer[c], 1, t) = Request(tid)
    <2>1. PICK s : s = Request(tid)
      OBVIOUS
    <2>2. StreamOk("drain", s, handled[c], buffer[c], wire[c])
      BY <1>5, <1>7, <2>1
    <2> QED
      BY <1>0, <1>2, <1>6, <2>1, <2>2, RequestFrame
  <1>9. Pdu(SubSeq(buffer[c], 1, t)) = <<3, Address, Quantity>>
    BY <1>0, <1>8, RequestIs
  <1>10. Header(buffer[c]).tid \in Nat /\ Header(buffer[c]).unit \in Nat
    BY <1>2, <1>6, HeaderOf DEF Header, Whole
  <1>11. ReadsAs(response'[c], bank)
    BY <1>2, <1>6, <1>9, <1>10, DispatchRequest
  <1>12. Fresh(response'[c], since, bankHist)
    <2>1. bankHist[Len(bankHist)] = bank
      BY <1>0 DEF ServerInv, BankInv
    <2>2. Len(bankHist) \in since..Len(bankHist)
      BY ONLY <1>4, <1>6
    <2> QED
      BY <1>11, <2>1, <2>2, Zenon DEF Fresh
  <1>13. Grows(bankHist, bankHist')
    BY <1>0, <1>1 DEF StepOk, ServerTypeOK, Grown, Grows, Bank
  <1>14. ASSUME NEW y, Fresh(y, since, bankHist) PROVE Fresh(y, since, bankHist')
    BY <1>4, <1>13, <1>14, FreshGrows
  <1>15. since \in 1..Len(bankHist')
    <2>1. Len(bankHist) <= Len(bankHist') /\ Len(bankHist') \in Nat
      BY <1>13 DEF Grows
    <2> QED
      BY ONLY <1>4, <1>6, <2>1
  <1>16. /\ plc' = plc /\ tid' = tid /\ since' = since /\ at' = c
    BY DEF plcVars
  <1>17. PollOk(plc, tid, since, bankHist', pc'[c], sent[c], replies[c], response'[c])
    BY <1>1, <1>4, <1>7, <1>12, <1>14, <1>15 DEF PollOk
  <1> QED
    BY <1>1, <1>16, <1>17 DEF PollInv

\* The answer sent on the poll's connection is the one the bank gave.
LEMMA PollReply ==
    ASSUME Inv, NEW c \in Conn, c = at, SendReply(c), UNCHANGED plcVars
    PROVE  PollInv'
  <1>0. /\ ServerInv /\ ServerTypeOK
        /\ PollOk(plc, tid, since, bankHist, pc[c], sent[c], replies[c], response[c])
    BY AtConn DEF Inv, ServerInv, PollInv
  <1>1. /\ BankSame /\ pc[c] = "send" /\ pc'[c] = "drain" /\ sent'[c] = sent[c]
        /\ replies'[c] = Append(replies[c], response[c])
    BY <1>0, ReplyStep
  <1>2. SUFFICES ASSUME plc \in {"connected", "sent"} PROVE PollInv'
    BY DEF PollInv, PollOk, plcVars
  <1>3. /\ since \in 1..Len(bankHist) /\ (plc = "connected" => sent[c] = <<>>)
        /\ (plc = "sent" => sent[c] = Request(tid))
        /\ \A i \in 1..Len(replies[c]) : Fresh(replies[c][i], since, bankHist)
        /\ Fresh(response[c], since, bankHist)
    BY <1>0, <1>1, <1>2 DEF PollOk
  <1>4. PICK n \in Nat : n = Len(replies[c])
    BY <1>0, TypeFacts
  <1>5. PICK g : g = Append(replies[c], response[c])
    OBVIOUS
  <1>6. Len(g) = n + 1 /\ g[n + 1] = response[c] /\ \A k \in 1..n : g[k] = replies[c][k]
    <2>1. PICK z \in Seq(Frame), y \in Frame : z = replies[c] /\ y = response[c]
      BY <1>0, TypeFacts
    <2>2. g = Append(z, y) /\ n = Len(z)
      BY <1>4, <1>5, <2>1
    <2>3. Len(g) = n + 1 /\ g[n + 1] = y /\ \A k \in 1..n : g[k] = z[k]
      BY ONLY <2>2, z \in Seq(Frame), y \in Frame, n \in Nat, AppendAt
    <2> QED
      BY <2>1, <2>3
  <1>7. ASSUME NEW i \in 1..Len(g) PROVE Fresh(g[i], since, bankHist)
    <2>1. i \in 1..n \/ i = n + 1
      BY <1>6
    <2>2. CASE i \in 1..n
      BY <1>3, <1>4, <1>6, <2>2
    <2>3. CASE i = n + 1
      BY <1>3, <1>6, <2>3
    <2> QED
      BY <2>1, <2>2, <2>3
  <1>8. /\ plc' = plc /\ tid' = tid /\ since' = since /\ at' = c /\ bankHist' = bankHist
    BY <1>1 DEF plcVars, BankSame
  <1>9. PollOk(plc, tid, since, bankHist, "drain", sent[c], g, response'[c])
    BY <1>3, <1>7 DEF PollOk
  <1> QED
    BY <1>1, <1>5, <1>8, <1>9 DEF PollInv

----------------------------------------------------------------------------
(* The steps of the specification *)

\* The invariant holds initially.
LEMMA InitInv ==
    ASSUME Init
    PROVE  Inv
  <1>0. ServerInit /\ BankSize \in Nat \ {0} /\ MaxBuffer \in Nat
    BY SizesAssumption DEF Init
  <1>1. ServerTypeOK
    <2>1. bank \in Bank
      BY <1>0 DEF ServerInit, Bank
    <2>2. bankHist \in Seq(Bank)
      BY <1>0, <2>1 DEF ServerInit
    <2>3. <<>> \in Seq(Nat) /\ <<>> \in Seq(Seq(Nat)) /\ Len(<<>>) = 0
      OBVIOUS
    <2> QED
      <3>1. /\ bank \in [0..(BankSize - 1) -> Nat]
            /\ bankHist \in Seq([0..(BankSize - 1) -> Nat])
        BY <2>1, <2>2 DEF Bank
      <3>2. \A c \in Conn : Len(buffer[c]) <= MaxBuffer
        BY <1>0, <2>3 DEF ServerInit
      <3>3. /\ stopping \in BOOLEAN /\ eof \in [Conn -> BOOLEAN]
            /\ pc \in [Conn -> {"none", "recv", "drain", "alert", "send", "closed"}]
            /\ sent \in [Conn -> Seq(Nat)] /\ wire \in [Conn -> Seq(Nat)]
            /\ buffer \in [Conn -> Seq(Nat)] /\ response \in [Conn -> Seq(Nat)]
            /\ handled \in [Conn -> Seq(Seq(Nat))] /\ replies \in [Conn -> Seq(Seq(Nat))]
            /\ alerts \in SUBSET (Conn \X Nat)
        BY <1>0, <2>3 DEF ServerInit
      <3> QED
        BY <3>1, <3>2, <3>3 DEF ServerTypeOK
  <1>2. BankInv
    BY <1>0 DEF ServerInit, BankInv
  <1>3. ASSUME NEW c \in Conn PROVE ConnInv(c)
    <2>1. /\ pc[c] = "none" /\ sent[c] = <<>> /\ wire[c] = <<>> /\ buffer[c] = <<>>
          /\ handled[c] = <<>> /\ replies[c] = <<>> /\ alerts = {}
      BY <1>0 DEF ServerInit
    <2>2. ConnOk(c, "none", <<>>, <<>>, <<>>, <<>>, <<>>, {})
      BY StreamOkStart DEF ConnOk, NoneOk, DrainOk, AlertOk
    <2> QED
      BY <2>1, <2>2 DEF ConnInv
  <1>4. at \in Poll
    BY PlcAssumption DEF Init
  <1>5. /\ doc = Absent /\ tmp = Absent /\ file = Absent /\ plc = "idle" /\ tid = 0 /\ since = 0
        /\ crashes = 0
    BY DEF Init
  <1>6. Absent \in [ok : BOOLEAN, registers : Seq(Nat)] /\ Absent # Part
    <2>1. <<0>> \in Seq(Nat) /\ <<0>> # <<1>>
      OBVIOUS
    <2>2. Absent.registers = <<0>> /\ Part.registers = <<1>>
      BY DEF Absent, Part
    <2>3. Absent \in [ok : BOOLEAN, registers : Seq(Nat)]
      BY <2>1 DEF Absent
    <2> QED
      BY <2>1, <2>2, <2>3, Zenon
  <1>7. TypeOK
    <2>1. 0 \in 0..(TID_MODULUS - 1)
      BY DEF TID_MODULUS
    <2> QED
      BY <1>1, <1>4, <1>5, <1>6, <2>1 DEF TypeOK
  <1>8. PollInv /\ DocInv
    BY <1>5, <1>6 DEF PollInv, PollOk, DocInv
  <1> QED
    BY <1>1, <1>2, <1>3, <1>7, <1>8 DEF Inv, ServerInv

\* Other clients keep it.
LEMMA ClientStepInv ==
    ASSUME Inv, NEW c \in Client, ClientStep(c), UNCHANGED plcVars
    PROVE  Inv'
  <1>0. c \in Conn /\ c # at /\ at \in Conn /\ ServerInv /\ ServerTypeOK
    BY AtConn, PlcAssumption
  <1>1. CASE Connect(c)
    BY <1>0, <1>1, ConnectStep, QuietStep
  <1>2. CASE Hangup(c)
    <2>1. UNCHANGED <<pc, handlerVars, sent, wire>> /\ stopping' \in BOOLEAN
          /\ eof' \in [Conn -> BOOLEAN]
      BY <1>0, <1>2 DEF Hangup, ServerTypeOK
    <2> QED
      BY <2>1, FlagKeepsInv
  <1>3. ASSUME NEW s \in ClientStream, Send(c, s) PROVE Inv'
    <2>1. s \in Seq(Nat)
      BY PlcAssumption
    <2>2. StepOk(c) /\ BankSame
      BY <1>0, <1>3, <2>1, SendStep
    <2>3. Quiet(at)
      BY <1>0, <2>2, OthersQuiet DEF StepOk
    <2> QED
      BY <1>0, <2>2, <2>3, QuietStep
  <1> QED
    BY <1>1, <1>2, <1>3 DEF ClientStep

\* Every step of a handler keeps it, on the poll's connection too.
LEMMA HandlerInv ==
    ASSUME Inv, NEW c \in Conn, Handler(c) \/ RecvEnds(c), UNCHANGED plcVars
    PROVE  Inv'
  <1>0. at \in Conn /\ ServerInv /\ Chunk[c] \subseteq Nat \ {0}
    BY AtConn, SizesAssumption
  <1>1. CASE Close(c)
    BY <1>0, <1>1, CloseStep, QuietStep
  <1>2. ASSUME NEW n \in Chunk[c], Recv(c, n) PROVE Inv'
    BY <1>0, <1>2, RecvStep, QuietStep
  <1>3. CASE DrainWait(c)
    <2>1. CASE Goto(c, "recv") /\ ~stopping /\ UNCHANGED <<stopping, handlerVars, streamVars>>
      BY <1>0, <1>3, <2>1, GotoRecvStep, QuietStep
    <2> QED
      BY <1>1, <1>3, <2>1 DEF DrainWait, Loop
  <1>4. CASE Alert(c)
    BY <1>0, <1>4, AlertStep, QuietStep
  <1>5. CASE DrainFrame(c)
    <2>1. StepOk(c) /\ BankInv' /\ Grown
      BY <1>0, <1>5, FrameStepOk
    <2>2. PollInv'
      <3>1. CASE c = at
        BY <1>5, <3>1, PollFrame
      <3>2. CASE c # at
        <4>1. Quiet(at)
          BY <1>0, <2>1, <3>2, OthersQuiet DEF StepOk
        <4> QED
          BY <2>1, <4>1, PollKept DEF StepOk, plcVars
      <3> QED
        BY <3>1, <3>2
    <2> QED
      BY <2>1, <2>2, ServerStep
  <1>6. CASE SendReply(c)
    <2>1. StepOk(c) /\ BankSame
      BY <1>0, <1>6, ReplyStep
    <2>2. CASE c = at
      <3>1. PollInv'
        BY <1>6, <2>2, PollReply
      <3>2. BankInv'
        BY <1>0, <2>1, BankSameGrown
      <3> QED
        BY <2>1, <3>1, <3>2, ServerStep
    <2>3. CASE c # at
      <3>1. Quiet(at)
        BY <1>0, <2>1, <2>3, OthersQuiet DEF StepOk
      <3> QED
        BY <2>1, <3>1, QuietStep
    <2> QED
      BY <2>2, <2>3
  <1> QED
    BY <1>1, <1>2, <1>3, <1>4, <1>5, <1>6
    DEF Handler, RecvEnds, RecvOverflows, DrainMalformed, SendFails, DaemonEnds

\* The server's shutdown keeps it.
LEMMA ShutdownInv ==
    ASSUME Inv, Shutdown, UNCHANGED plcVars
    PROVE  Inv'
  <1>1. ServerTypeOK
    BY AtConn
  <1>2. /\ UNCHANGED <<pc, handlerVars, sent, wire>>
        /\ stopping' \in BOOLEAN /\ eof' \in [Conn -> BOOLEAN]
    BY <1>1 DEF Shutdown, ServerTypeOK, streamVars
  <1> QED
    BY <1>2, FlagKeepsInv

\* A step of the PLC away from a poll, or to its end, that touches no more of the server
\* than the socket.
LEMMA PlcMoves ==
    ASSUME Inv, UNCHANGED <<stopping, pc, handlerVars, sent, wire>>,
           eof' \in [Conn -> BOOLEAN], plc' \in {"idle", "publish", "write", "replace", "dead"},
           at' \in Poll, tid' \in 0..(TID_MODULUS - 1), since' \in Nat, crashes' \in Nat,
           doc' \in [ok : BOOLEAN, registers : Seq(Nat)], doc' # Part, file' # Part,
           file' \in [ok : BOOLEAN, registers : Seq(Nat)],
           tmp' \in [ok : BOOLEAN, registers : Seq(Nat)], plc' = "replace" => tmp' = doc'
    PROVE  Inv'
  <1>1. ServerInv' /\ ServerTypeOK'
    <2>1. ServerTypeOK /\ ServerInv
      BY AtConn
    <2>2. stopping' \in BOOLEAN
      BY <2>1 DEF ServerTypeOK
    <2> QED
      BY <2>1, <2>2, FlagStep DEF ServerInv
  <1>3. plc' \notin {"connected", "sent"}
        /\ plc' \in {"idle", "connected", "sent", "publish", "write", "replace", "dead"}
    OBVIOUS
  <1>4. TypeOK'
    BY <1>1, <1>3, Zenon DEF TypeOK
  <1>5. PollInv'
    BY <1>3 DEF PollInv, PollOk
  <1>6. DocInv'
    BY DEF DocInv
  <1> QED
    BY <1>1, <1>4, <1>5, <1>6 DEF Inv

\* The documents that stand for a failed reading and for no file.
LEMMA DocFacts ==
    /\ Failure \in [ok : BOOLEAN, registers : Seq(Nat)] /\ Failure # Part /\ ~Failure.ok
    /\ Part \in [ok : BOOLEAN, registers : Seq(Nat)]
    /\ Absent \in [ok : BOOLEAN, registers : Seq(Nat)] /\ Absent # Part /\ ~Absent.ok
  <1>1. /\ <<>> \in Seq(Nat) /\ <<0>> \in Seq(Nat) /\ <<1>> \in Seq(Nat)
        /\ <<>> # <<1>> /\ <<0>> # <<1>>
    OBVIOUS
  <1>2. /\ Failure.registers = <<>> /\ Absent.registers = <<0>> /\ Part.registers = <<1>>
        /\ ~Failure.ok /\ ~Absent.ok
    BY DEF Failure, Absent, Part
  <1>3. /\ Failure \in [ok : BOOLEAN, registers : Seq(Nat)]
        /\ Absent \in [ok : BOOLEAN, registers : Seq(Nat)]
        /\ Part \in [ok : BOOLEAN, registers : Seq(Nat)]
    BY <1>1 DEF Failure, Absent, Part
  <1> QED
    BY <1>1, <1>2, <1>3, Zenon

\* The modulus of the transaction identifiers is a number above 1.
LEMMA TidModulus == TID_MODULUS \in Nat /\ TID_MODULUS > 1
  BY SMT DEF TID_MODULUS

\* The transaction identifier stays below its modulus.
LEMMA NextTidType ==
    ASSUME NEW x \in 0..(TID_MODULUS - 1)
    PROVE  NextTid(x) \in 0..(TID_MODULUS - 1)
  <1>1. PICK n \in Nat : n = TID_MODULUS /\ n > 1
    BY TidModulus
  <1>2. x + 1 \in Nat
    BY SMT
  <1>3. (x + 1) % n \in 0..(n - 1)
    BY <1>1, <1>2, SMT
  <1>4. 1 \in 0..(n - 1)
    BY <1>1, SMT
  <1> QED
    BY <1>1, <1>3, <1>4, SMT DEF NextTid

\* A fresh connection, while there is one.
LEMMA UnusedPick ==
    ASSUME Unused # {}
    PROVE  (CHOOSE p \in Unused : TRUE) \in Unused
  OBVIOUS

\* A poll starts on a connection of its own, and its own time begins there.
LEMMA PollConnectsInv ==
    ASSUME Inv, PollConnects
    PROVE  Inv'
  <1>1. PICK q \in Unused : q = at'
    BY UnusedPick DEF PollConnects
  <1>2. q \in Poll /\ q \in Conn /\ pc[q] = "none"
    BY <1>1, PlcAssumption DEF Unused
  <1>3. Connect(q)
    BY <1>1 DEF PollConnects
  <1>4. ServerInv /\ ServerTypeOK /\ BankInv /\ ConnInv(q) /\ TypeOK /\ DocInv
    BY <1>2, AtConn DEF Inv, ServerInv
  <1>5. StepOk(q) /\ BankSame
    BY <1>2, <1>3, <1>4, ConnectStep
  <1>6. BankInv'
    BY <1>4, <1>5, BankSameGrown
  <1>7. ServerInv' /\ ServerTypeOK'
    <2>1. \A d \in Conn : ConnInv(d)'
      BY <1>2, <1>4, <1>5, StepConns
    <2> QED
      BY <1>5, <1>6, <2>1 DEF ServerInv, StepOk
  <1>8. /\ plc' = "connected" /\ tid' = NextTid(tid) /\ since' = Len(bankHist)
        /\ UNCHANGED <<doc, tmp, file, crashes>>
    BY DEF PollConnects
  <1>9. Len(bankHist) \in Nat /\ Len(bankHist) >= 1
    BY <1>4 DEF ServerTypeOK, BankInv
  <1>10. TypeOK'
    <2>1. NextTid(tid) \in 0..(TID_MODULUS - 1)
      BY <1>4, NextTidType DEF TypeOK
    <2>2. since' \in Nat /\ at' \in Poll /\ tid' \in 0..(TID_MODULUS - 1) /\ crashes' \in Nat
      BY <1>1, <1>2, <1>4, <1>8, <1>9, <2>1 DEF TypeOK
    <2>3. {doc', tmp', file'} \subseteq [ok : BOOLEAN, registers : Seq(Nat)]
      BY <1>4, <1>8 DEF TypeOK
    <2> QED
      BY <1>7, <1>8, <2>2, <2>3 DEF TypeOK
  <1>11. PollInv'
    <2>1. sent[q] = <<>> /\ replies[q] = <<>>
      BY <1>2, <1>4 DEF ConnInv, ConnOk, NoneOk
    <2>2. pc'[q] = "recv" /\ sent'[q] = <<>> /\ replies'[q] = <<>> /\ bankHist' = bankHist
      BY <1>2, <1>3, <1>4, <2>1 DEF Connect, Goto, ServerTypeOK, handlerVars, streamVars
    <2>3. since' \in 1..Len(bankHist) /\ Len(<<>>) = 0
      BY <1>8, <1>9
    <2>4. PollOk("connected", tid', since', bankHist, "recv", <<>>, <<>>, response'[q])
      BY <2>3 DEF PollOk
    <2> QED
      BY <1>1, <1>8, <2>2, <2>4 DEF PollInv
  <1>12. DocInv'
    BY <1>4, <1>8 DEF DocInv
  <1> QED
    BY <1>7, <1>10, <1>11, <1>12 DEF Inv

\* A poll sends its request, the only thing it writes to its connection.
LEMMA PollSendsInv ==
    ASSUME Inv, PollSends
    PROVE  Inv'
  <1>1. /\ at \in Conn /\ tid \in Nat /\ ServerInv /\ ServerTypeOK /\ TypeOK /\ DocInv
        /\ plc = "connected"
    BY AtConn DEF Inv, PollSends
  <1>2. PICK c \in Conn : c = at
    BY <1>1
  <1>3. PICK t \in Seq(Nat) : t = Request(tid)
    BY <1>1, RequestIs
  <1>4. Send(c, t)
    BY <1>2, <1>3 DEF PollSends, Request
  <1>5. StepOk(c) /\ BankSame /\ sent'[c] = sent[c] \o t
    BY <1>1, <1>4, SendStep
  <1>6. BankInv'
    BY <1>1, <1>5, BankSameGrown
  <1>7. ServerInv' /\ ServerTypeOK'
    <2>1. \A d \in Conn : ConnInv(d)'
      BY <1>1, <1>5, StepConns
    <2> QED
      BY <1>5, <1>6, <2>1 DEF ServerInv, StepOk
  <1>8. plc' = "sent" /\ UNCHANGED <<at, tid, since, doc, tmp, file, crashes>>
    BY DEF PollSends
  <1>9. TypeOK'
    BY <1>1, <1>7, <1>8 DEF TypeOK
  <1>10. PollInv'
    <2>1. PollOk("connected", tid, since, bankHist, pc[c], sent[c], replies[c], response[c])
      BY <1>1, <1>2 DEF Inv, PollInv
    <2>2. sent[c] = <<>>
      BY <2>1 DEF PollOk
    <2>3. sent'[c] = Request(tid)
      BY <1>3, <1>5, <2>2, ConcatEmptySeq
    <2>4. /\ pc'[c] = pc[c] /\ replies'[c] = replies[c] /\ response'[c] = response[c]
          /\ bankHist' = bankHist
      BY <1>4 DEF Send, handlerVars
    <2>5. PollOk("sent", tid, since, bankHist, pc[c], Request(tid), replies[c], response[c])
      BY <2>1 DEF PollOk
    <2> QED
      BY <1>2, <1>8, <2>3, <2>4, <2>5 DEF PollInv
  <1>11. DocInv'
    BY <1>1, <1>8 DEF DocInv
  <1> QED
    BY <1>7, <1>9, <1>10, <1>11 DEF Inv

\* A poll takes the answer only from its own connection.
LEMMA PollReceivesInv ==
    ASSUME Inv, PollReceives
    PROVE  Inv'
  <1>1. at \in Conn /\ ServerTypeOK /\ TypeOK /\ at \in Poll
    BY AtConn DEF Inv
  <1>2. Head(replies[at]) \in Seq(Nat)
    <2>1. replies[at] \in Seq(Frame) /\ replies[at] # <<>>
      BY <1>1, TypeFacts DEF PollReceives
    <2> QED
      BY <2>1, HeadTailProperties DEF Frame
  <1>3. doc' \in [ok : BOOLEAN, registers : Seq(Nat)] /\ doc' # Part
    BY <1>2, DecodeType DEF PollReceives
  <1>4. /\ UNCHANGED <<stopping, pc, handlerVars, sent, wire>> /\ eof' \in [Conn -> BOOLEAN]
        /\ plc' = "publish" /\ since' = 0 /\ UNCHANGED <<at, tid, tmp, file, crashes>>
    BY <1>1 DEF PollReceives, ServerTypeOK
  <1>5. at' \in Poll /\ tid' \in 0..(TID_MODULUS - 1) /\ since' \in Nat /\ crashes' \in Nat
    BY <1>1, <1>4 DEF TypeOK
  <1>6. /\ {tmp', file'} \subseteq [ok : BOOLEAN, registers : Seq(Nat)] /\ file' # Part
    BY <1>1, <1>4, Zenon DEF TypeOK, Inv, DocInv
  <1> QED
    BY <1>3, <1>4, <1>5, <1>6, PlcMoves

\* Time-outs, the file's writes and kills keep the invariant.
LEMMA PlcOthersInv ==
    ASSUME Inv, PollRefused \/ PollFails \/ CreateTemp \/ FillTemp \/ Replace
               \/ WriteFails \/ Restarted \/ Killed
    PROVE  Inv'
  <1>1. /\ at \in Conn /\ at \in Poll /\ ServerTypeOK /\ eof \in [Conn -> BOOLEAN]
        /\ tid \in 0..(TID_MODULUS - 1) /\ since \in Nat /\ crashes \in Nat
        /\ {doc, tmp, file} \subseteq [ok : BOOLEAN, registers : Seq(Nat)]
        /\ doc # Part /\ file # Part /\ (plc = "replace" => tmp = doc)
    BY AtConn DEF Inv, TypeOK, ServerTypeOK, DocInv
  <1>2. /\ UNCHANGED <<stopping, pc, handlerVars, sent, wire>> /\ eof' \in [Conn -> BOOLEAN]
    BY <1>1 DEF PollRefused, PollFails, CreateTemp, FillTemp, Replace, Rename, WriteFails,
       Restarted, Killed,
                serverVars, handlerVars, streamVars
  <1>3. plc' \in {"idle", "publish", "write", "replace", "dead"}
    BY DEF PollRefused, PollFails, CreateTemp, FillTemp, Replace, Rename, WriteFails,
       Restarted, Killed
  <1>4. at' \in Poll /\ since' \in Nat /\ crashes' \in Nat
    <2>1. CASE PollRefused
      <3>1. at' \in Unused /\ since' = since /\ crashes' = crashes
        BY <2>1, UnusedPick DEF PollRefused
      <3> QED
        BY <1>1, <3>1 DEF Unused
    <2>2. CASE ~PollRefused
      BY <1>1, <2>2 DEF PollFails, CreateTemp, FillTemp, Replace, Rename, WriteFails,
         Restarted, Killed
    <2> QED
      BY <2>1, <2>2
  <1>5. tid' \in 0..(TID_MODULUS - 1)
    <2>1. CASE PollRefused
      BY <1>1, <2>1, NextTidType DEF PollRefused
    <2>2. CASE Restarted
      BY <2>2 DEF Restarted, TID_MODULUS
    <2>3. CASE ~PollRefused /\ ~Restarted
      BY <1>1, <2>3 DEF PollFails, CreateTemp, FillTemp, Replace, Rename, WriteFails, Killed
    <2> QED
      BY <2>1, <2>2, <2>3
  <1>6. /\ doc' \in {doc, Failure, Absent} /\ tmp' \in {tmp, doc, Part, Absent}
        /\ file' \in {file, doc}
    BY <1>1 DEF PollRefused, PollFails, CreateTemp, FillTemp, Replace, Rename, WriteFails,
                Restarted, Killed
  <1>7. plc' = "replace" => tmp' = doc'
    BY DEF PollRefused, PollFails, CreateTemp, FillTemp, Replace, Rename, WriteFails,
           Restarted, Killed
  <1>8. doc' \in [ok : BOOLEAN, registers : Seq(Nat)] /\ doc' # Part
    BY <1>1, <1>6, DocFacts, Zenon
  <1>9. /\ tmp' \in [ok : BOOLEAN, registers : Seq(Nat)]
        /\ file' \in [ok : BOOLEAN, registers : Seq(Nat)] /\ file' # Part
    BY <1>1, <1>6, DocFacts, Zenon
  <1> QED
    BY <1>2, <1>3, <1>4, <1>5, <1>7, <1>8, <1>9, PlcMoves

\* A stutter keeps it.
LEMMA StutterInv ==
    ASSUME Inv, UNCHANGED vars
    PROVE  Inv'
  <1>1. /\ UNCHANGED <<pc, handlerVars, sent, wire>> /\ UNCHANGED plcVars
        /\ eof' = eof /\ stopping' = stopping
    BY DEF vars, serverVars, streamVars
  <1>2. eof' \in [Conn -> BOOLEAN] /\ stopping' \in BOOLEAN
    BY <1>1, AtConn DEF ServerTypeOK
  <1> QED
    BY <1>1, <1>2, FlagKeepsInv

\* Every step keeps it.
LEMMA NextInv ==
    ASSUME Inv, [Next]_vars
    PROVE  Inv'
  <1>1. ASSUME NEW c \in Client, ClientStep(c), UNCHANGED plcVars PROVE Inv'
    BY <1>1, ClientStepInv
  <1>2. ASSUME NEW c \in Conn, Handler(c) \/ RecvEnds(c), UNCHANGED plcVars PROVE Inv'
    BY <1>2, HandlerInv
  <1>3. CASE Shutdown /\ UNCHANGED plcVars
    BY <1>3, ShutdownInv
  <1>4. CASE PlcStep
    BY <1>4, PollConnectsInv, PollSendsInv, PollReceivesInv, PlcOthersInv DEF PlcStep
  <1>5. CASE Killed
    BY <1>5, PlcOthersInv
  <1>6. CASE UNCHANGED vars
    BY <1>6, StutterInv
  <1> QED
    BY <1>1, <1>2, <1>3, <1>4, <1>5, <1>6 DEF Next

\* It holds in every reachable state.
LEMMA Invariance == Spec => []Inv
  <1>1. Init => Inv
    BY InitInv
  <1>2. Inv /\ [Next]_vars => Inv'
    BY NextInv
  <1> QED
    BY <1>1, <1>2, PTL DEF Spec

----------------------------------------------------------------------------
(* Theorems *)

\* In every reachable state the variables have their types, and no connection makes the
\* server keep more than MAX_BUFFER cells (_Handler.handle, poll_once).
THEOREM TypeCorrect == Spec => []TypeOK
  <1>1. Inv => TypeOK
    BY DEF Inv
  <1> QED
    BY <1>1, Invariance, PTL

\* Frames are as sent, since the dispatched ones are a prefix and none is left in a drained
\* buffer.
LEMMA InvFrames ==
    ASSUME Inv
    PROVE  FramesAsSent
  <1>1. ASSUME NEW c \in Conn
        PROVE  /\ IsPrefix(handled[c], Frames(sent[c]))
               /\ \/ pc[c] = "recv" /\ wire[c] = <<>>
                  \/ pc[c] = "drain" /\ HasHeader(c) /\ ~ValidHeader(Header(buffer[c]))
                  => handled[c] = Frames(sent[c])
    <2>1. /\ sent[c] \in Seq(Nat) /\ wire[c] \in Seq(Nat) /\ buffer[c] \in Seq(Nat)
          /\ handled[c] \in Seq(Frame)
      BY AtConn, TypeFacts
    <2>2. /\ StreamOk(pc[c], sent[c], handled[c], buffer[c], wire[c])
          /\ DrainOk(pc[c], buffer[c])
      BY DEF Inv, ServerInv, ConnInv, ConnOk
    <2>3. IsPrefix(handled[c], Frames(sent[c]))
      BY <2>1, <2>2, StreamPrefix
    <2>4. CASE pc[c] = "recv" /\ wire[c] = <<>>
      <3>1. Drained(buffer[c]) /\ pc[c] # "closed"
        BY <2>2, <2>4 DEF DrainOk
      <3>2. handled[c] = Frames(sent[c])
        BY <2>1, <2>2, <2>4, <3>1, StreamDone
      <3> QED
        BY <2>3, <3>2
    <2>5. CASE pc[c] = "drain" /\ HasHeader(c) /\ ~ValidHeader(Header(buffer[c]))
      <3>1. Len(buffer[c]) >= 4 /\ pc[c] # "closed"
        BY <2>5 DEF HasHeader, MBAP_HEADER_LEN
      <3>2. handled[c] = Frames(sent[c])
        BY <2>1, <2>2, <2>5, <3>1, StreamDone
      <3> QED
        BY <2>3, <3>2
    <2> QED
      BY <2>3, <2>4, <2>5
  <1> QED
    BY <1>1 DEF FramesAsSent

\* For any stream and any way of cutting it, the handler dispatches the frames the client
\* wrote, in order, and overlooks none (_Handler.handle, parse_mbap).
THEOREM FramesReassembled == Spec => []FramesAsSent
  <1>1. Inv => FramesAsSent
    BY InvFrames
  <1> QED
    BY <1>1, Invariance, PTL

\* Between two recv the buffer holds less than the largest frame (MAX_BUFFER).
THEOREM ResidueBounded == Spec => []ResidueBelowOneFrame
  <1>1. ASSUME Inv, NEW c \in Conn, pc[c] = "recv"
        PROVE  Len(buffer[c]) < MBAP_HEADER_LEN - 1 + MaxMbapLength
    <2>1. Drained(buffer[c]) /\ ServerTypeOK
      BY <1>1, AtConn DEF Inv, ServerInv, ConnInv, ConnOk, DrainOk
    <2>2. PICK b \in Seq(Nat) : b = buffer[c]
      BY <2>1, TypeFacts
    <2>3. MaxMbapLength \in Nat /\ MaxMbapLength >= 2 /\ MBAP_HEADER_LEN = 4 /\ Len(b) \in Nat
      BY SizesAssumption DEF MIN_MBAP_LENGTH, MBAP_HEADER_LEN
    <2>4. CASE ~(Len(b) >= 4)
      BY ONLY <2>2, <2>3, <2>4
    <2>5. CASE Len(b) >= 4
      <3>1. PICK n \in Nat : n = b[3]
        BY <2>5, HeaderOf
      <3>2. /\ TotalFrameLen(Header(b)) = 3 + n
            /\ ValidHeader(Header(b)) <=> b[2] = 0 /\ n \in 2..MaxMbapLength
        BY <2>5, <3>1, HeaderOf
      <3>3. Len(b) < 3 + n /\ n <= MaxMbapLength
        BY <2>1, <2>2, <2>3, <2>5, <3>2 DEF Drained
      <3> QED
        BY ONLY <2>2, <2>3, <3>3, n \in Nat
    <2> QED
      BY <2>4, <2>5
  <1>2. Inv => ResidueBelowOneFrame
    BY <1>1 DEF ResidueBelowOneFrame
  <1> QED
    BY <1>2, Invariance, PTL

\* No acknowledgement of a write to a critical register precedes its sabotage_detected event
\* (_write_single_register).
THEOREM AlertsFirst == Spec => []AlertBeforeReply
  <1>1. ASSUME Inv, NEW c \in Conn, NEW i \in 1..Len(replies[c]),
               Writes(Pdu(handled[c][i])), IsCritical(handled[c][i][MBAP_HEADER_LEN + 2])
        PROVE  <<c, i>> \in alerts
    <2>1. \A j \in 1..Len(replies[c]) : Critical(handled[c][j]) => <<c, j>> \in alerts
      BY <1>1 DEF Inv, ServerInv, ConnInv, ConnOk, AlertOk
    <2>2. MBAP_HEADER_LEN + 2 = 6
      BY DEF MBAP_HEADER_LEN
    <2>3. Critical(handled[c][i])
      BY <1>1, <2>2 DEF Critical
    <2> QED
      BY <2>1, <2>3
  <1>2. Inv => AlertBeforeReply
    BY <1>1 DEF AlertBeforeReply
  <1> QED
    BY <1>2, Invariance, PTL

\* The state file is never half written: what os.replace puts there is the temporary
\* file after its last byte, wherever the PLC is killed (write_state_atomically).
THEOREM StateFileIsWhole == Spec => []StateFileWhole
  <1>1. Inv => StateFileWhole
    BY DEF Inv, DocInv, StateFileWhole
  <1> QED
    BY <1>1, Invariance, PTL

\* The step that publishes a reading publishes one the registers held during the poll.
LEMMA ReadingStep ==
    ASSUME Inv, [Next]_vars, doc'.ok, ~doc.ok
    PROVE  \E v \in since..Len(bankHist) :
               doc'.registers = BankRead(bankHist[v], Address, Quantity)
  <1>1. PollReceives
    <2>1. CASE UNCHANGED plcVars
      BY <2>1 DEF plcVars
    <2>2. CASE UNCHANGED vars
      BY <2>2 DEF vars, plcVars
    <2>3. ASSUME doc' \in {doc, Failure, Absent} PROVE FALSE
      BY <2>3, DocFacts
    <2>4. ASSUME PlcStep \/ Killed, ~PollReceives PROVE FALSE
      BY <2>3, <2>4
      DEF PlcStep, Killed, PollConnects, PollRefused, PollSends, PollFails, CreateTemp,
      FillTemp, Replace, Rename,
          WriteFails, Restarted
    <2> QED
      BY <2>1, <2>2, <2>4 DEF Next
  <1>2. /\ PollOk(plc, tid, since, bankHist, pc[at], sent[at], replies[at], response[at])
        /\ plc = "sent" /\ replies[at] # <<>> /\ doc' = Decode(Head(replies[at]))
    BY <1>1 DEF Inv, PollInv, PollReceives
  <1>3. replies[at] \in Seq(Frame)
    BY AtConn, TypeFacts
  <1>4. 1 \in 1..Len(replies[at]) /\ Head(replies[at]) = replies[at][1]
    <2>1. Len(replies[at]) \in Nat \ {0}
      BY <1>2, <1>3, EmptySeq
    <2> QED
      BY <1>2, <1>3, <2>1
  <1>5. Fresh(replies[at][1], since, bankHist)
    BY <1>2, <1>4 DEF PollOk
  <1> QED
    BY <1>2, <1>4, <1>5 DEF Fresh, ReadsAs

\* What the PLC publishes is what the registers held, all at once, during the very poll
\* that published it (poll_once, RegisterBank.read).
THEOREM ReadingsReal == Spec => ReadingIsReal
  <1>1. Inv /\ [Next]_vars =>
            [doc'.ok /\ ~doc.ok =>
                \E v \in since..Len(bankHist) :
                    doc'.registers = BankRead(bankHist[v], Address, Quantity)]_vars
    BY ReadingStep
  <1> QED
    BY <1>1, Invariance, PTL DEF Spec, ReadingIsReal
=============================================================================
