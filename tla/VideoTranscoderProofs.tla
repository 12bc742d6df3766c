----------------------- MODULE VideoTranscoderProofs -----------------------
(***************************************************************************)
(* Proofs about VideoTranscoder for every pool size, every set of          *)
(* presentation times and any number of frames, whether or not the encoder *)
(* fails.                                                                  *)
(***************************************************************************)
EXTENDS VideoTranscoder, SequenceTheorems, FiniteSetTheorems, TLAPS

LEMMA InductiveInit == Init => InductiveInv
<1> SUFFICES ASSUME Init PROVE InductiveInv
  OBVIOUS
<1> USE VideoTranscoderAssumption
<1>1. pts = <<>> /\ encoded = <<>> /\ size = 0
  BY DEF Init
<1>2. TypeOK
  <2>1. pool \in [Slots -> Buffers] /\ size \in Slots /\ current \in Buffers
    BY DEF Init, Slots, Buffers
  <2>2. content \in [Buffers -> 0 .. Len(pts)] /\ encoder \in BOOLEAN
    <3>1. 0 \in 0 .. Len(pts)
      BY <1>1
    <3> QED BY <3>1 DEF Init
  <2>3. pts \in Seq(Times) /\ Len(pts) <= MaxFrames /\ encoded \in Seq(1 .. Len(pts))
        /\ discarded \subseteq 1 .. Len(pts)
    BY <1>1 DEF Init
  <2>4. failed \in BOOLEAN
    BY DEF Init
  <2> QED BY <2>1, <2>2, <2>3, <2>4 DEF TypeOK
<1>3. NoAliasing
  BY DEF Init, NoAliasing, Slots
<1>4. PoolSorted /\ Pending \subseteq 1 .. Len(pts)
  BY <1>1 DEF PoolSorted, Pending
<1> QED BY <1>2, <1>3, <1>4 DEF InductiveInv

\* There is a free object behind the frames insertFrame keeps.
LEMMA KeptRange ==
  ASSUME TypeOK
  PROVE  Kept \in Nat /\ Kept <= size /\ Kept + 1 \in Slots /\ Kept \in Slots
  BY VideoTranscoderAssumption DEF TypeOK, Kept, Slots

\* What decoding a frame leaves of the times and of the frame objects.
LEMMA DecodeStep ==
  ASSUME InductiveInv, NEW t \in Times, Decode(t)
  PROVE  /\ pts' \in Seq(Times) /\ Len(pts') = Len(pts) + 1 /\ Len(pts') <= MaxFrames
         /\ Len(pts) \in Nat
         /\ pts'[Len(pts) + 1] = t /\ \A n \in 1 .. Len(pts) : pts'[n] = pts[n]
         /\ content' \in [Buffers -> 0 .. Len(pts')]
         /\ content'[current] = Len(pts) + 1
         /\ \A i \in Slots : content'[pool[i]] = Frame(i)
<1> USE VideoTranscoderAssumption
<1>1. TypeOK /\ NoAliasing /\ pts \in Seq(Times) /\ Len(pts) \in Nat
  BY DEF InductiveInv, TypeOK
<1>2. pts' = Append(pts, t) /\ Len(pts) < MaxFrames
      /\ content' = [content EXCEPT ![current] = Len(pts) + 1]
  BY DEF Decode
<1>3. /\ pts' \in Seq(Times) /\ Len(pts') = Len(pts) + 1 /\ Len(pts') <= MaxFrames
      /\ pts'[Len(pts) + 1] = t /\ \A n \in 1 .. Len(pts) : pts'[n] = pts[n]
  BY <1>1, <1>2
<1>4. content' \in [Buffers -> 0 .. Len(pts')] /\ content'[current] = Len(pts) + 1
  BY <1>1, <1>2, <1>3 DEF TypeOK
<1>5. \A i \in Slots : content'[pool[i]] = Frame(i)
  BY <1>1, <1>2 DEF TypeOK, NoAliasing, Frame
<1> QED BY <1>1, <1>3, <1>4, <1>5

\* insertFrame permutes the frame objects and keeps the waiting ones sorted.
LEMMA InsertStep ==
  ASSUME InductiveInv, NEW t \in Times, Decode(t), InsertFrame(t)
  PROVE  /\ pool' \in [Slots -> Buffers] /\ current' \in Buffers
         /\ NoAliasing'
         /\ \E index \in 0 .. Kept :
              /\ Found(t, index)
              /\ \A i \in 0 .. Kept : content'[pool'[i]] =
                   IF i < index THEN Frame(i)
                   ELSE IF i = index THEN Len(pts) + 1 ELSE Frame(i - 1)
<1> USE VideoTranscoderAssumption
<1>1. TypeOK /\ NoAliasing
  BY DEF InductiveInv
<1>2. Kept \in Nat /\ Kept + 1 \in Slots /\ Kept + 1 <= PoolSize - 1
  BY <1>1, KeptRange DEF Slots
<1>3. PICK index \in 0 .. Kept : Found(t, index) /\ pool' = Inserted(index)
  BY DEF InsertFrame
<1>4. current' = pool[Kept + 1]
  BY DEF InsertFrame
<1>5. \A k \in Slots : pool'[k] = IF k < index \/ k > Kept + 1 THEN pool[k]
                                  ELSE IF k = index THEN current ELSE pool[k - 1]
  BY <1>3 DEF Inserted
<1>6. \A k \in Slots : k > index => k - 1 \in Slots
  BY <1>2, <1>3 DEF Slots
<1>7. pool' \in [Slots -> Buffers] /\ current' \in Buffers
  BY <1>1, <1>2, <1>3, <1>4, <1>6 DEF Inserted, TypeOK, Slots
<1>8. NoAliasing'
  <2>1. ASSUME NEW i \in Slots, NEW j \in Slots, i < j PROVE pool'[i] # pool'[j]
    BY <1>1, <1>2, <1>3, <1>5, <1>6, <2>1 DEF NoAliasing, Slots
  <2>2. ASSUME NEW i \in Slots PROVE pool'[i] # current'
    BY <1>1, <1>2, <1>3, <1>4, <1>5, <1>6 DEF NoAliasing, Slots
  <2>3. \A i, j \in Slots : i # j => i < j \/ j < i
    BY DEF Slots
  <2> QED BY <2>1, <2>2, <2>3 DEF NoAliasing
<1>9. \A i \in 0 .. Kept : content'[pool'[i]] =
        IF i < index THEN Frame(i)
        ELSE IF i = index THEN Len(pts) + 1 ELSE Frame(i - 1)
  <2> SUFFICES ASSUME NEW i \in 0 .. Kept
               PROVE  content'[pool'[i]] = IF i < index THEN Frame(i)
                        ELSE IF i = index THEN Len(pts) + 1 ELSE Frame(i - 1)
    OBVIOUS
  <2>1. i \in Slots /\ (i > index => i - 1 \in Slots)
    BY <1>2, <1>6 DEF Slots
  <2>2. pool'[i] = IF i < index THEN pool[i] ELSE IF i = index THEN current ELSE pool[i - 1]
    BY <1>2, <1>3, <1>5, <2>1
  <2>3. content'[current] = Len(pts) + 1 /\ \A k \in Slots : content'[pool[k]] = Frame(k)
    BY DecodeStep
  <2> QED BY <1>3, <2>1, <2>2, <2>3
<1> QED BY <1>3, <1>7, <1>8, <1>9

\* After insertFrame the kept frames and the new one are decoded frames in
\* presentation order, whatever the time of the new one.
LEMMA SortedStep ==
  ASSUME InductiveInv, NEW t \in Times, Decode(t), InsertFrame(t)
  PROVE  /\ \A i \in 0 .. Kept : content'[pool'[i]] \in 1 .. Len(pts')
         /\ \A i, j \in 0 .. Kept : i < j =>
              LET m == content'[pool'[i]]  n == content'[pool'[j]] IN
              pts'[m] < pts'[n] \/ (pts'[m] = pts'[n] /\ m < n)
<1> USE VideoTranscoderAssumption
<1> DEFINE F(i) == content'[pool'[i]]
           new  == Len(pts) + 1
<1>1. TypeOK /\ PoolSorted /\ Kept \in Nat /\ Kept <= size /\ size \in Nat
  BY KeptRange DEF InductiveInv, TypeOK, Slots
<1>2. PICK index \in 0 .. Kept :
        /\ Found(t, index)
        /\ \A i \in 0 .. Kept : F(i) = IF i < index THEN Frame(i)
                                       ELSE IF i = index THEN new ELSE Frame(i - 1)
  BY InsertStep
<1>3. /\ Len(pts') = new /\ Len(pts) \in Nat /\ pts'[new] = t
      /\ \A n \in 1 .. Len(pts) : pts'[n] = pts[n] /\ pts[n] \in Nat
  <2>1. \A n \in 1 .. Len(pts) : pts[n] \in Times
    BY <1>1 DEF TypeOK
  <2> QED BY <2>1, DecodeStep
<1>4. \A i \in 0 .. Kept - 1 : Frame(i) \in 1 .. Len(pts)
  BY <1>1 DEF InductiveInv, Pending
<1>5. \A i, j \in 0 .. Kept - 1 : i < j =>
        \/ pts[Frame(i)] < pts[Frame(j)]
        \/ pts[Frame(i)] = pts[Frame(j)] /\ Frame(i) < Frame(j)
  BY <1>1 DEF PoolSorted
<1>6. \A i \in 0 .. index - 1 : pts[Frame(i)] <= t
  BY <1>2 DEF Found
<1>7. \A i \in index .. Kept - 1 : t < pts[Frame(i)]
  <2> SUFFICES ASSUME NEW i \in index .. Kept - 1 PROVE t < pts[Frame(i)]
    OBVIOUS
  <2>1. t < pts[Frame(index)] /\ index \in 0 .. Kept - 1 /\ i \in 0 .. Kept - 1
    BY <1>1, <1>2 DEF Found
  <2>2. pts[Frame(index)] \in Nat /\ pts[Frame(i)] \in Nat /\ t \in Nat
    BY <1>3, <1>4, <2>1
  <2>3. pts[Frame(index)] <= pts[Frame(i)]
    <3>1. CASE i = index
      BY <2>2, <3>1
    <3>2. CASE index < i
      BY <1>5, <2>1, <2>2, <3>2
    <3> QED BY <1>1, <1>2, <3>1, <3>2
  <2> QED BY <2>1, <2>2, <2>3
<1> HIDE DEF F, new
<1>8. \A i \in 0 .. Kept : F(i) \in 1 .. Len(pts')
  BY <1>1, <1>2, <1>3, <1>4 DEF new
<1>9. ASSUME NEW i \in 0 .. Kept, NEW j \in 0 .. Kept, i < j
      PROVE  pts'[F(i)] < pts'[F(j)] \/ (pts'[F(i)] = pts'[F(j)] /\ F(i) < F(j))
  <2>1. CASE j < index
    <3>1. F(i) = Frame(i) /\ F(j) = Frame(j) /\ i \in 0 .. Kept - 1 /\ j \in 0 .. Kept - 1
      BY <1>1, <1>2, <1>9, <2>1
    <3> QED BY <1>3, <1>4, <1>5, <1>9, <3>1
  <2>2. CASE j = index
    <3>1. F(i) = Frame(i) /\ F(j) = new /\ i \in 0 .. index - 1 /\ i \in 0 .. Kept - 1
      BY <1>1, <1>2, <1>9, <2>2
    <3>2. pts[Frame(i)] <= t /\ Frame(i) \in 1 .. Len(pts) /\ t \in Nat
      BY <1>4, <1>6, <3>1
    <3> QED BY <1>3, <3>1, <3>2 DEF new
  <2>3. CASE j > index /\ i = index
    <3>1. F(i) = new /\ F(j) = Frame(j - 1) /\ j - 1 \in index .. Kept - 1
          /\ j - 1 \in 0 .. Kept - 1
      BY <1>1, <1>2, <2>3
    <3> QED BY <1>3, <1>4, <1>7, <3>1
  <2>4. CASE j > index /\ i < index
    <3>1. F(i) = Frame(i) /\ F(j) = Frame(j - 1) /\ j - 1 \in index .. Kept - 1
          /\ j - 1 \in 0 .. Kept - 1 /\ i \in 0 .. index - 1 /\ i \in 0 .. Kept - 1
      BY <1>1, <1>2, <2>4
    <3>2. pts[Frame(i)] <= t /\ t < pts[Frame(j - 1)] /\ t \in Nat
      BY <1>6, <1>7, <3>1
    <3> QED BY <1>3, <1>4, <3>1, <3>2
  <2>5. CASE i > index
    <3>1. F(i) = Frame(i - 1) /\ F(j) = Frame(j - 1) /\ i - 1 < j - 1
          /\ i - 1 \in 0 .. Kept - 1 /\ j - 1 \in 0 .. Kept - 1
      BY <1>1, <1>2, <1>9, <2>5
    <3> QED BY <1>3, <1>4, <1>5, <3>1
  <2> QED BY <1>1, <1>2, <1>9, <2>1, <2>2, <2>3, <2>4, <2>5
<1> QED BY <1>8, <1>9 DEF F

\* The part of InductiveInv that a call of supplyFrame has to re-establish
\* after the insertion: encoding the first n frames keeps the types.
LEMMA EncodeStep ==
  ASSUME InductiveInv, NEW t \in Times, Decode(t), InsertFrame(t),
         NEW n \in Nat, n <= Kept + 1, encoded' = encoded \o FirstFrames(n)
  PROVE  encoded' \in Seq(1 .. Len(pts'))
<1>1. Kept \in Nat /\ encoded \in Seq(1 .. Len(pts))
      /\ Len(pts') = Len(pts) + 1 /\ Len(pts) \in Nat
  BY KeptRange, DecodeStep DEF InductiveInv, TypeOK
<1>2. \A k \in 1 .. n : content'[pool'[k - 1]] \in 1 .. Len(pts')
  BY <1>1, SortedStep
<1>3. FirstFrames(n) \in Seq(1 .. Len(pts'))
  BY <1>2 DEF FirstFrames
<1>4. encoded \in Seq(1 .. Len(pts'))
  BY <1>1
<1> QED BY <1>3, <1>4

LEMMA Below ==
  ASSUME NEW k \in Nat, NEW s, s = 0 \/ s = k + 1, NEW i \in 0 .. s - 1
  PROVE  i \in 0 .. k
  OBVIOUS

LEMMA OneMore ==
  ASSUME NEW m \in Nat, NEW S, S \subseteq 1 .. m
  PROVE  S \cup {m + 1} \subseteq 1 .. (m + 1)
  OBVIOUS

\* A call that inserts keeps the invariant if it leaves size at 0 or Kept + 1.
LEMMA InsertKeepsInv ==
  ASSUME InductiveInv, NEW t \in Times, Decode(t), InsertFrame(t),
         size' = 0 \/ size' = Kept + 1, encoder' = TRUE, failed' \in {failed, TRUE},
         encoded' \in Seq(1 .. Len(pts'))
  PROVE  InductiveInv'
<1> USE VideoTranscoderAssumption
<1>1. TypeOK /\ Pending \subseteq 1 .. Len(pts)
  BY DEF InductiveInv
<1>2. Kept \in Nat /\ Kept + 1 \in Slots /\ 0 \in Slots
  BY <1>1, KeptRange DEF Slots
<1>3. /\ pts' \in Seq(Times) /\ Len(pts') <= MaxFrames
      /\ Len(pts') = Len(pts) + 1 /\ Len(pts) \in Nat
      /\ content' \in [Buffers -> 0 .. Len(pts')]
  BY DecodeStep
<1>4. discarded' \subseteq 1 .. Len(pts')
  BY <1>1, <1>3 DEF InsertFrame, Overwritten, TypeOK
<1>5. pool' \in [Slots -> Buffers] /\ current' \in Buffers /\ NoAliasing'
  BY InsertStep
<1>6. size' \in Slots /\ size' - 1 <= Kept /\ size' \in Nat
  BY <1>2
<1>7. TypeOK'
  <2>1. failed' \in BOOLEAN
    BY <1>1 DEF TypeOK
  <2> QED BY <1>3, <1>4, <1>5, <1>6, <2>1 DEF TypeOK
<1>8. ASSUME NEW i \in 0 .. size' - 1 PROVE i \in 0 .. Kept
  BY <1>2, Below
<1>9. PoolSorted'
  BY <1>8, SortedStep DEF PoolSorted, Frame
<1>10. Pending' \subseteq 1 .. Len(pts')
  BY <1>8, SortedStep DEF Pending, Frame
<1> QED BY <1>5, <1>7, <1>9, <1>10 DEF InductiveInv

\* A call that loses the new frame leaves the pool as it was.
LEMMA RejectKeepsInv ==
  ASSUME InductiveInv, NEW t \in Times, Decode(t),
         encoder' \in {encoder, TRUE}, discarded' = discarded \cup {Len(pts) + 1},
         UNCHANGED <<pool, size, current, encoded, failed>>
  PROVE  InductiveInv'
<1> USE VideoTranscoderAssumption
<1>1. TypeOK /\ NoAliasing /\ PoolSorted /\ Pending \subseteq 1 .. Len(pts)
  BY DEF InductiveInv
<1>2. /\ pts' \in Seq(Times) /\ Len(pts') <= MaxFrames
      /\ Len(pts') = Len(pts) + 1 /\ Len(pts) \in Nat
      /\ content' \in [Buffers -> 0 .. Len(pts')]
      /\ \A n \in 1 .. Len(pts) : pts'[n] = pts[n]
      /\ \A i \in Slots : content'[pool[i]] = Frame(i)
  BY DecodeStep
<1>3. encoded' \in Seq(1 .. Len(pts'))
  BY <1>1, <1>2 DEF TypeOK
<1>4. discarded' \subseteq 1 .. Len(pts') /\ encoder' \in BOOLEAN
  <2>1. discarded' \subseteq 1 .. Len(pts')
    <3>1. Len(pts) \in Nat /\ Len(pts') = Len(pts) + 1
      BY <1>2
    <3>2. discarded \subseteq 1 .. Len(pts) /\ discarded' = discarded \cup {Len(pts) + 1}
      BY <1>1 DEF TypeOK
    <3>3. discarded' \subseteq 1 .. (Len(pts) + 1)
      BY <3>1, <3>2, OneMore, Zenon
    <3> QED BY <3>1, <3>3
  <2>2. encoder' \in BOOLEAN
    BY <1>1 DEF TypeOK
  <2> QED BY <2>1, <2>2
<1>5. TypeOK'
  BY <1>1, <1>2, <1>3, <1>4 DEF TypeOK
<1>6. \A i \in 0 .. size - 1 : i \in Slots /\ Frame(i)' = Frame(i) /\ Frame(i) \in 1 .. Len(pts)
  BY <1>1, <1>2 DEF TypeOK, Slots, Frame, Pending
<1>7. PoolSorted'
  BY <1>1, <1>2, <1>6 DEF PoolSorted
<1>8. Pending' \subseteq 1 .. Len(pts')
  BY <1>2, <1>6 DEF Pending
<1> QED BY <1>1, <1>5, <1>7, <1>8 DEF InductiveInv, NoAliasing

LEMMA ResetKeepsInv == ASSUME InductiveInv, Reset PROVE InductiveInv'
<1> USE VideoTranscoderAssumption
<1>1. TypeOK /\ Pending \subseteq 1 .. Len(pts)
  BY DEF InductiveInv
<1>2. size' = 0 /\ UNCHANGED <<pool, current, content, encoder, pts, encoded, failed>>
      /\ discarded' = discarded \cup Pending
  BY DEF Reset
<1>3. TypeOK'
  BY <1>1, <1>2 DEF TypeOK, Slots
<1>4. PoolSorted' /\ Pending' = {}
  BY <1>2 DEF PoolSorted, Pending
<1> QED BY <1>2, <1>3, <1>4 DEF InductiveInv, NoAliasing

\* InductiveInv holds initially and every call keeps it.
THEOREM Invariance == Spec => []InductiveInv
<1>1. InductiveInv /\ [Next]_vars => InductiveInv'
  <2> SUFFICES ASSUME InductiveInv, [Next]_vars PROVE InductiveInv'
    OBVIOUS
  <2> USE VideoTranscoderAssumption
  <2>1. Kept \in Nat /\ Kept + 1 \in Nat
    BY KeptRange DEF InductiveInv
  <2>2. CASE RejectFrame
    BY <2>2, RejectKeepsInv DEF RejectFrame
  <2>3. CASE HoldFrame
    <3>1. PICK t \in Times : Decode(t) /\ InsertFrame(t) /\ size' = Kept + 1
                             /\ encoder' = TRUE /\ UNCHANGED <<encoded, failed>>
      BY <2>3 DEF HoldFrame
    <3>2. FirstFrames(0) = <<>>
      BY DEF FirstFrames
    <3>3. encoded \in Seq(1 .. Len(pts))
      BY DEF InductiveInv, TypeOK
    <3>4. encoded' = encoded \o FirstFrames(0)
      BY <3>1, <3>2, <3>3
    <3>5. 0 \in Nat /\ 0 <= Kept + 1
      BY <2>1
    <3>6. encoded' \in Seq(1 .. Len(pts'))
      BY <3>1, <3>4, <3>5, EncodeStep, Zenon
    <3> QED BY <3>1, <3>6, InsertKeepsInv
  <2>4. CASE FlushFrames
    <3>1. PICK t \in Times : Decode(t) /\ InsertFrame(t) /\ size' = 0
                             /\ encoder' = TRUE /\ failed' = failed
                             /\ encoded' = encoded \o FirstFrames(Kept + 1)
      BY <2>4 DEF FlushFrames
    <3>2. encoded' \in Seq(1 .. Len(pts'))
      BY <2>1, <3>1, EncodeStep
    <3> QED BY <3>1, <3>2, InsertKeepsInv
  <2>5. CASE FlushFails
    <3>1. PICK t \in Times, n \in 0 .. PoolSize - 1 :
                 n <= Kept + 1 /\ Decode(t) /\ InsertFrame(t) /\ size' = Kept + 1
                 /\ encoder' = TRUE /\ failed' = TRUE /\ encoded' = encoded \o FirstFrames(n)
      BY <2>5 DEF FlushFails
    <3>2. n \in Nat
      OBVIOUS
    <3>3. encoded' \in Seq(1 .. Len(pts'))
      BY <3>1, <3>2, EncodeStep, Zenon
    <3> QED BY <3>1, <3>3, InsertKeepsInv
  <2>6. CASE Reset
    BY <2>6, ResetKeepsInv
  <2>7. CASE UNCHANGED vars
    BY <2>7 DEF vars, InductiveInv, TypeOK, NoAliasing, PoolSorted, Pending, Frame
  <2> QED BY <2>2, <2>3, <2>4, <2>5, <2>6, <2>7 DEF Next
<1> QED BY <1>1, InductiveInit, PTL DEF Spec

\* The types hold in every reachable state, so no pool access is out of range.
THEOREM TypeCorrect == Spec => []TypeOK
  BY Invariance, PTL DEF InductiveInv

\* The decoder never writes into a frame object that waits for the encoder.
THEOREM FramesNotAliased == Spec => []NoAliasing
  BY Invariance, PTL DEF InductiveInv

\* The comment of insertFrame holds: the waiting frames are sorted.
THEOREM SortedPool == Spec => []PoolSorted
  BY Invariance, PTL DEF InductiveInv

-----------------------------------------------------------------------------
(* what became of each frame *)

\* The first n frames that wait after the insertion.
FirstWaiting(n) == {content'[pool'[i]] : i \in 0 .. n - 1}

\* insertFrame keeps what waited, or overwrites all of it, and adds the new frame.
LEMMA WaitingStep ==
  ASSUME InductiveInv, NEW t \in Times, Decode(t), InsertFrame(t)
  PROVE  /\ Overwritten \subseteq Pending
         /\ FirstWaiting(Kept + 1) = (Pending \ Overwritten) \cup {Len(pts) + 1}
<1> DEFINE F(i) == content'[pool'[i]]
           new  == Len(pts) + 1
<1>1. Kept \in Nat /\ (Kept = size \/ Kept = 0)
  BY KeptRange DEF InductiveInv, Kept
<1>2. PICK index \in 0 .. Kept :
        \A i \in 0 .. Kept : F(i) = IF i < index THEN Frame(i)
                                    ELSE IF i = index THEN new ELSE Frame(i - 1)
  BY InsertStep
<1>3. Pending \ Overwritten = {Frame(i) : i \in 0 .. Kept - 1}
  <2>1. CASE Kept = size
    BY <2>1 DEF Overwritten, Pending
  <2>2. CASE Kept # size
    BY <1>1, <2>2 DEF Overwritten
  <2> QED BY <2>1, <2>2
<1>4. FirstWaiting(Kept + 1) = {F(i) : i \in 0 .. Kept}
  BY <1>1 DEF FirstWaiting
<1> HIDE DEF F, new
<1>5. {F(i) : i \in 0 .. Kept} \subseteq {Frame(i) : i \in 0 .. Kept - 1} \cup {new}
  <2> SUFFICES ASSUME NEW i \in 0 .. Kept
               PROVE  F(i) = new \/ \E k \in 0 .. Kept - 1 : F(i) = Frame(k)
    OBVIOUS
  <2>1. i < index => i \in 0 .. Kept - 1
    BY <1>1, <1>2
  <2>2. i > index => i - 1 \in 0 .. Kept - 1
    BY <1>1, <1>2
  <2> QED BY <1>1, <1>2, <2>1, <2>2
<1>6. ASSUME NEW k \in 0 .. Kept - 1 PROVE \E i \in 0 .. Kept : F(i) = Frame(k)
  <2>1. CASE k < index
    BY <1>1, <1>2, <2>1
  <2>2. CASE k >= index
    <3>1. k + 1 \in 0 .. Kept /\ ~(k + 1 < index) /\ k + 1 # index /\ (k + 1) - 1 = k
      BY <1>1, <1>2, <2>2
    <3> QED BY <1>2, <3>1
  <2> QED BY <1>1, <1>2, <2>1, <2>2
<1>7. F(index) = new
  BY <1>1, <1>2
<1>8. {Frame(i) : i \in 0 .. Kept - 1} \cup {new} \subseteq {F(i) : i \in 0 .. Kept}
  BY <1>6, <1>7
<1>9. Overwritten \subseteq Pending
  BY DEF Overwritten
<1> QED BY <1>3, <1>4, <1>5, <1>8, <1>9 DEF new

\* What is waiting after a call.
LEMMA PendingAfter ==
  ASSUME Kept \in Nat, size' = 0 \/ size' = Kept + 1
  PROVE  Pending' = IF size' = 0 THEN {} ELSE FirstWaiting(Kept + 1)
<1>1. Pending' = {content'[pool'[i]] : i \in 0 .. size' - 1}
  BY DEF Pending, Frame
<1> QED BY <1>1 DEF FirstWaiting

\* The encoder gets the first n waiting frames behind what it already got.
LEMMA EncodedStep ==
  ASSUME InductiveInv, NEW t \in Times, Decode(t), InsertFrame(t),
         NEW n \in Nat, n <= Kept + 1, encoded' = encoded \o FirstFrames(n)
  PROVE  /\ Len(encoded) \in Nat /\ Len(encoded') = Len(encoded) + n
         /\ \A k \in 1 .. Len(encoded) : encoded'[k] = encoded[k]
         /\ \A k \in 1 .. Len(encoded') : k > Len(encoded) =>
              /\ k - Len(encoded) - 1 \in 0 .. n - 1
              /\ encoded'[k] = content'[pool'[k - Len(encoded) - 1]]
         /\ EncodedFrames' = EncodedFrames \cup FirstWaiting(n)
<1> DEFINE F(i) == content'[pool'[i]]
           m    == Len(encoded)
<1>1. Kept \in Nat /\ encoded \in Seq(1 .. Len(pts))
      /\ Len(pts') = Len(pts) + 1 /\ Len(pts) \in Nat
  BY KeptRange, DecodeStep DEF InductiveInv, TypeOK
<1>2. \A k \in 1 .. n : content'[pool'[k - 1]] \in 1 .. Len(pts')
  BY <1>1, SortedStep
<1>3. FirstFrames(n) \in Seq(1 .. Len(pts')) /\ Len(FirstFrames(n)) = n
      /\ \A k \in 1 .. n : FirstFrames(n)[k] = F(k - 1)
  BY <1>2 DEF FirstFrames
<1>4. encoded \in Seq(1 .. Len(pts'))
  BY <1>1
<1> HIDE DEF F
<1>5. /\ m \in Nat /\ Len(encoded') = m + n
      /\ \A k \in 1 .. m : encoded'[k] = encoded[k]
      /\ \A k \in (m + 1) .. (m + n) : encoded'[k] = FirstFrames(n)[k - m]
  <2> DEFINE f == FirstFrames(n)
  <2> HIDE DEF f
  <2>1. encoded \in Seq(1 .. Len(pts')) /\ f \in Seq(1 .. Len(pts')) /\ Len(f) = n
        /\ encoded' = encoded \o f
    BY <1>3, <1>4 DEF f
  <2>2. /\ Len(encoded \o f) = Len(encoded) + Len(f)
        /\ \A k \in 1 .. Len(encoded) + Len(f) :
             (encoded \o f)[k] = IF k <= Len(encoded) THEN encoded[k] ELSE f[k - Len(encoded)]
    BY ONLY <2>1, ConcatProperties, Zenon
  <2>3. m \in Nat
    BY <2>1
  <2>4. /\ Len(encoded') = m + n
        /\ \A k \in 1 .. m + n : encoded'[k] = IF k <= m THEN encoded[k] ELSE f[k - m]
    BY <2>1, <2>2, Zenon
  <2> QED BY <2>3, <2>4 DEF f
<1>6. ASSUME NEW k \in 1 .. Len(encoded'), k > m
      PROVE  k - m - 1 \in 0 .. n - 1 /\ encoded'[k] = F(k - m - 1)
  <2>1. k \in (m + 1) .. (m + n) /\ k - m \in 1 .. n /\ k - m - 1 \in 0 .. n - 1
    BY <1>5, <1>6
  <2> QED BY <1>3, <1>5, <2>1
<1>7. EncodedFrames' \subseteq EncodedFrames \cup FirstWaiting(n)
  <2> SUFFICES ASSUME NEW k \in 1 .. Len(encoded')
               PROVE  encoded'[k] \in EncodedFrames \cup FirstWaiting(n)
    BY DEF EncodedFrames
  <2>1. CASE k > m
    BY <1>6, <2>1 DEF FirstWaiting, F
  <2>2. CASE ~(k > m)
    <3>1. k \in 1 .. m
      BY <1>5, <2>2
    <3> QED BY <1>5, <3>1 DEF EncodedFrames
  <2> QED BY <2>1, <2>2
<1>8. EncodedFrames \subseteq EncodedFrames'
  <2>1. \A k \in 1 .. m : k \in 1 .. Len(encoded') /\ encoded'[k] = encoded[k]
    BY <1>5
  <2> QED BY <2>1 DEF EncodedFrames
<1>9. FirstWaiting(n) \subseteq EncodedFrames'
  <2> SUFFICES ASSUME NEW i \in 0 .. n - 1 PROVE F(i) \in EncodedFrames'
    BY DEF FirstWaiting, F
  <2>1. m + i + 1 \in 1 .. Len(encoded') /\ m + i + 1 > m /\ (m + i + 1) - m - 1 = i
    BY <1>5
  <2>2. encoded'[m + i + 1] = F(i)
    BY <1>6, <2>1
  <2> QED BY <2>1, <2>2 DEF EncodedFrames
<1> QED BY <1>5, <1>6, <1>7, <1>8, <1>9 DEF F

\* The times decoded so far stay sorted.
LEMMA TimesStep ==
  ASSUME InductiveInv, TimesSorted, NEW t \in Times, Decode(t)
  PROVE  TimesSorted' /\ (DecodedInOrder' => DecodedInOrder)
<1>1. /\ Len(pts') = Len(pts) + 1 /\ Len(pts) \in Nat
      /\ \A n \in 1 .. Len(pts) : pts'[n] = pts[n]
  BY DecodeStep
<1>2. \A n \in 1 .. Len(pts') : pts'[n] \in Nat
  <2>1. pts' \in Seq(Times)
    BY DecodeStep
  <2>2. \A n \in 1 .. Len(pts') : pts'[n] \in Times
    BY <2>1
  <2> QED BY <2>2, VideoTranscoderAssumption
<1>3. ASSUME DecodedInOrder' PROVE DecodedInOrder
  <2> SUFFICES ASSUME NEW n \in 2 .. Len(pts) PROVE pts[n - 1] <= pts[n]
    BY DEF DecodedInOrder
  <2>1. n \in 2 .. Len(pts') /\ n \in 1 .. Len(pts) /\ n - 1 \in 1 .. Len(pts)
    BY <1>1
  <2>2. pts'[n - 1] <= pts'[n]
    BY <1>3, <2>1 DEF DecodedInOrder
  <2> QED BY <1>1, <2>1, <2>2
<1>4. ASSUME DecodedInOrder', NEW m \in 1 .. Len(pts'), NEW n \in 1 .. Len(pts'), m <= n
      PROVE  pts'[m] <= pts'[n]
  <2>1. \A i, k \in 1 .. Len(pts) : i <= k => pts[i] <= pts[k]
    BY <1>3, <1>4 DEF TimesSorted
  <2>2. CASE n \in 1 .. Len(pts)
    <3>1. m \in 1 .. Len(pts)
      BY <1>1, <1>4, <2>2
    <3> QED BY <1>1, <1>4, <2>1, <2>2, <3>1
  <2>3. CASE n \notin 1 .. Len(pts) /\ m = n
    BY <1>2, <2>3
  <2>4. CASE n \notin 1 .. Len(pts) /\ m # n
    <3>1. n = Len(pts) + 1 /\ m \in 1 .. Len(pts) /\ Len(pts) \in 1 .. Len(pts)
          /\ n \in 2 .. Len(pts') /\ n - 1 = Len(pts) /\ Len(pts) \in 1 .. Len(pts')
      BY <1>1, <1>4, <2>4
    <3>2. pts'[m] = pts[m] /\ pts'[Len(pts)] = pts[Len(pts)] /\ pts[m] <= pts[Len(pts)]
      BY <1>1, <2>1, <3>1
    <3>3. pts'[n - 1] <= pts'[n]
      BY <1>4, <3>1 DEF DecodedInOrder
    <3>4. pts'[Len(pts)] <= pts'[n]
      BY <3>1, <3>3
    <3>5. pts'[m] \in Nat /\ pts'[n] \in Nat /\ pts'[Len(pts)] \in Nat
      BY <1>2, <3>1
    <3> QED BY <3>2, <3>4, <3>5
  <2> QED BY <2>2, <2>3, <2>4
<1> QED BY <1>3, <1>4 DEF TimesSorted

\* Where every frame is, as sets.
LEMMA Whereabouts ==
  ASSUME InductiveInv
  PROVE  /\ Pending \subseteq 1 .. Len(pts) /\ discarded \subseteq 1 .. Len(pts)
         /\ EncodedFrames \subseteq 1 .. Len(pts)
         /\ \A k \in 1 .. Len(encoded) : encoded[k] \in EncodedFrames
         /\ Len(pts) \in Nat /\ Len(pts) + 1 \notin 1 .. Len(pts)
         /\ 1 .. (Len(pts) + 1) = 1 .. Len(pts) \cup {Len(pts) + 1}
<1>1. encoded \in Seq(1 .. Len(pts)) /\ Len(pts) \in Nat
  BY DEF InductiveInv, TypeOK
<1>2. EncodedFrames \subseteq 1 .. Len(pts)
  BY <1>1 DEF EncodedFrames
<1> QED BY <1>1, <1>2 DEF InductiveInv, TypeOK, EncodedFrames

LEMMA FirstWaitingGrows ==
  ASSUME NEW m \in Nat, NEW n \in Nat, n <= m
  PROVE  FirstWaiting(n) \subseteq FirstWaiting(m)
  BY DEF FirstWaiting

\* A call that inserts a frame and encodes the first n, which are all or, if it
\* fails, some, or none.
Call(t, n) ==
  /\ Decode(t) /\ InsertFrame(t)
  /\ n \in Nat /\ n <= Kept + 1 /\ encoded' = encoded \o FirstFrames(n)
  /\ \/ size' = 0 /\ n = Kept + 1
     \/ size' = Kept + 1 /\ (n = 0 \/ failed')
  /\ failed' \in {failed, TRUE}

LEMMA CallSets ==
  ASSUME InductiveInv, NEW t \in Times, NEW n, Call(t, n)
  PROVE  LET new == Len(pts) + 1
             all == FirstWaiting(Kept + 1)
         IN  /\ Overwritten \subseteq Pending /\ discarded' = discarded \cup Overwritten
             /\ all = (Pending \ Overwritten) \cup {new}
             /\ Pending' = IF size' = 0 THEN {} ELSE all
             /\ EncodedFrames' = EncodedFrames \cup FirstWaiting(n)
             /\ FirstWaiting(n) \subseteq all
             /\ size' = 0 => FirstWaiting(n) = all
             /\ n = 0 => FirstWaiting(n) = {}
             /\ Len(pts') = new
<1>1. Kept \in Nat /\ Kept + 1 \in Nat
  BY KeptRange DEF InductiveInv
<1>2. n \in Nat /\ n <= Kept + 1 /\ (size' = 0 \/ size' = Kept + 1) /\ (size' = 0 => n = Kept + 1)
      /\ Decode(t) /\ InsertFrame(t) /\ encoded' = encoded \o FirstFrames(n)
  BY <1>1 DEF Call
<1>3. Len(pts') = Len(pts) + 1
  BY <1>2, DecodeStep
<1>4. discarded' = discarded \cup Overwritten
  BY <1>2 DEF InsertFrame
<1>5. Pending' = IF size' = 0 THEN {} ELSE FirstWaiting(Kept + 1)
  BY <1>1, <1>2, PendingAfter
<1>6. EncodedFrames' = EncodedFrames \cup FirstWaiting(n)
  BY <1>2, EncodedStep
<1>7. n = 0 => FirstWaiting(n) = {}
  BY DEF FirstWaiting
<1> QED BY <1>1, <1>2, <1>3, <1>4, <1>5, <1>6, <1>7, WaitingStep, FirstWaitingGrows

LEMMA CallKeepsAccount ==
  ASSUME InductiveInv, FramesAccounted, NEW t \in Times, NEW n, Call(t, n)
  PROVE  FramesAccounted'
<1> DEFINE new == Len(pts) + 1
           all == FirstWaiting(Kept + 1)
           took == FirstWaiting(n)
           D   == 1 .. Len(pts)
<1>1. /\ Overwritten \subseteq Pending /\ discarded' = discarded \cup Overwritten
      /\ all = (Pending \ Overwritten) \cup {new}
      /\ Pending' = IF size' = 0 THEN {} ELSE all
      /\ EncodedFrames' = EncodedFrames \cup took
      /\ took \subseteq all /\ (size' = 0 => took = all)
      /\ Len(pts') = new
  BY CallSets
<1>2. /\ Pending \subseteq D /\ discarded \subseteq D /\ EncodedFrames \subseteq D
      /\ new \notin D /\ 1 .. new = D \cup {new}
  BY Whereabouts
<1>3. D = Pending \cup EncodedFrames \cup discarded /\ Pending \cap discarded = {}
  BY DEF FramesAccounted
<1> HIDE DEF new, all, took, D
<1>4. D \cup {new} = Pending' \cup EncodedFrames' \cup discarded'
  BY <1>1, <1>2, <1>3
<1>5. Pending' \cap discarded' = {}
  BY <1>1, <1>2, <1>3
<1>6. 1 .. Len(pts') = D \cup {new}
  BY <1>1, <1>2
<1> QED BY <1>4, <1>5, <1>6 DEF FramesAccounted

\* What a call hands to the encoder was waiting or is new, and is sorted.
LEMMA CallFrames ==
  ASSUME InductiveInv, NEW t \in Times, NEW n, Call(t, n)
  PROVE  LET m == Len(encoded) IN
         /\ \A k \in 1 .. Len(encoded') :
              IF k <= m THEN k \in 1 .. m /\ encoded'[k] = encoded[k]
              ELSE encoded'[k] \in FirstWaiting(n) /\ encoded'[k] \in 1 .. Len(pts')
         /\ \A j, k \in 1 .. Len(encoded') : j < k /\ ~(j <= m) =>
              LET a == encoded'[j]  b == encoded'[k] IN
              pts'[a] < pts'[b] \/ (pts'[a] = pts'[b] /\ a < b)
         /\ n = 0 => Len(encoded') = m
<1> DEFINE F(i) == content'[pool'[i]]
           m    == Len(encoded)
<1>1. /\ Decode(t) /\ InsertFrame(t) /\ n \in Nat /\ n <= Kept + 1
      /\ encoded' = encoded \o FirstFrames(n) /\ Kept \in Nat
  BY KeptRange DEF Call, InductiveInv
<1>2. /\ m \in Nat /\ Len(encoded') = m + n
      /\ \A k \in 1 .. m : encoded'[k] = encoded[k]
      /\ \A k \in 1 .. Len(encoded') : k > m =>
           k - m - 1 \in 0 .. n - 1 /\ encoded'[k] = F(k - m - 1)
  BY <1>1, EncodedStep
<1>3. /\ \A i \in 0 .. Kept : F(i) \in 1 .. Len(pts')
      /\ \A i, j \in 0 .. Kept : i < j =>
           pts'[F(i)] < pts'[F(j)] \/ (pts'[F(i)] = pts'[F(j)] /\ F(i) < F(j))
  BY <1>1, SortedStep
<1>4. \A i \in 0 .. n - 1 : F(i) \in FirstWaiting(n) /\ i \in 0 .. Kept
  BY <1>1 DEF FirstWaiting
<1> HIDE DEF F
<1>5. ASSUME NEW k \in 1 .. Len(encoded')
      PROVE  IF k <= m THEN k \in 1 .. m /\ encoded'[k] = encoded[k]
             ELSE encoded'[k] \in FirstWaiting(n) /\ encoded'[k] \in 1 .. Len(pts')
  <2>1. CASE k <= m
    BY <1>2, <2>1
  <2>2. CASE ~(k <= m)
    <3>1. k - m - 1 \in 0 .. n - 1 /\ encoded'[k] = F(k - m - 1)
      BY <1>2, <2>2
    <3> QED BY <1>3, <1>4, <2>2, <3>1
  <2> QED BY <2>1, <2>2
<1>6. ASSUME NEW j \in 1 .. Len(encoded'), NEW k \in 1 .. Len(encoded'), j < k, ~(j <= m)
      PROVE  LET a == encoded'[j]  b == encoded'[k] IN
             pts'[a] < pts'[b] \/ (pts'[a] = pts'[b] /\ a < b)
  <2>1. j > m /\ k > m /\ j - m - 1 < k - m - 1
    BY <1>2, <1>6
  <2>2. /\ j - m - 1 \in 0 .. Kept /\ encoded'[j] = F(j - m - 1)
        /\ k - m - 1 \in 0 .. Kept /\ encoded'[k] = F(k - m - 1)
    BY <1>2, <1>4, <2>1
  <2> QED BY <1>3, <2>1, <2>2
<1> QED BY <1>2, <1>5, <1>6

LEMMA CallKeepsOnce ==
  ASSUME InductiveInv, FramesAccounted, EncodedOnce, NEW t \in Times, NEW n, Call(t, n),
         ~failed'
  PROVE  /\ \A j, k \in 1 .. Len(encoded') : j # k => encoded'[j] # encoded'[k]
         /\ EncodedFrames' \cap (Pending' \cup discarded') = {}
<1> DEFINE new == Len(pts) + 1
           all == FirstWaiting(Kept + 1)
           took == FirstWaiting(n)
           D   == 1 .. Len(pts)
<1>1. /\ Overwritten \subseteq Pending /\ discarded' = discarded \cup Overwritten
      /\ all = (Pending \ Overwritten) \cup {new}
      /\ Pending' = IF size' = 0 THEN {} ELSE all
      /\ EncodedFrames' = EncodedFrames \cup took
      /\ took \subseteq all /\ (size' = 0 => took = all) /\ (n = 0 => took = {})
  BY CallSets
<1>2. /\ Pending \subseteq D /\ discarded \subseteq D /\ EncodedFrames \subseteq D
      /\ new \notin D /\ \A k \in 1 .. Len(encoded) : encoded[k] \in EncodedFrames
  BY Whereabouts
<1>3. ~failed /\ (n = 0 \/ size' = 0)
  <2>1. failed' \/ (~failed /\ (n = 0 \/ size' = 0))
    BY DEF Call, InductiveInv, TypeOK
  <2> QED BY <2>1
<1>4. Pending \cap discarded = {} /\ EncodedFrames \cap (Pending \cup discarded) = {}
      /\ \A j, k \in 1 .. Len(encoded) : j # k => encoded[j] # encoded[k]
  BY <1>3 DEF FramesAccounted, EncodedOnce
<1> HIDE DEF new, all, took, D
<1>5. EncodedFrames' \cap (Pending' \cup discarded') = {}
  <2>1. CASE n = 0
    BY <1>1, <1>2, <1>4, <2>1
  <2>2. CASE size' = 0
    BY <1>1, <1>2, <1>4, <2>2
  <2> QED BY <1>3, <2>1, <2>2
<1>6. EncodedFrames \cap took = {}
  BY <1>1, <1>2, <1>4
<1>7. ASSUME NEW j \in 1 .. Len(encoded'), NEW k \in 1 .. Len(encoded'), j < k
      PROVE  encoded'[j] # encoded'[k]
  <2> DEFINE m == Len(encoded)
  <2>1. \A i \in 1 .. Len(encoded') :
              IF i <= m THEN i \in 1 .. m /\ encoded'[i] = encoded[i]
              ELSE encoded'[i] \in took /\ encoded'[i] \in 1 .. Len(pts')
    BY CallFrames DEF took
  <2>2. CASE j <= m /\ k <= m
    <3>1. j \in 1 .. m /\ k \in 1 .. m /\ encoded'[j] = encoded[j] /\ encoded'[k] = encoded[k]
      BY <2>1, <2>2
    <3> QED BY <1>4, <1>7, <3>1
  <2>3. CASE j <= m /\ ~(k <= m)
    BY <1>2, <1>6, <2>1, <2>3
  <2>4. CASE ~(j <= m)
    <3>1. LET a == encoded'[j]  b == encoded'[k] IN
          pts'[a] < pts'[b] \/ (pts'[a] = pts'[b] /\ a < b)
      BY <1>7, <2>4, CallFrames
    <3>2. encoded'[j] \in 1 .. Len(pts') /\ pts' \in Seq(Times)
      <4>1. encoded'[j] \in 1 .. Len(pts')
        BY <2>1, <2>4
      <4> QED BY <4>1, DecodeStep DEF Call
    <3>3. pts'[encoded'[j]] \in Nat /\ encoded'[j] \in Nat
      <4>1. pts'[encoded'[j]] \in Times /\ encoded'[j] \in Nat
        BY <3>2
      <4> QED BY <4>1, VideoTranscoderAssumption
    <3> QED BY <3>1, <3>3
  <2> QED BY <2>2, <2>3, <2>4
<1>8. ASSUME NEW j \in 1 .. Len(encoded'), NEW k \in 1 .. Len(encoded'), j # k
      PROVE  encoded'[j] # encoded'[k]
  <2>1. j < k \/ k < j
    BY <1>8
  <2> QED BY <1>7, <2>1
<1> QED BY <1>5, <1>8

LEMMA CallKeepsOrder ==
  ASSUME InductiveInv, OutputInOrder, EncodedBeforePending, TimesSorted,
         NEW t \in Times, NEW n, Call(t, n)
  PROVE  OutputInOrder' /\ EncodedBeforePending'
<1> DEFINE new == Len(pts) + 1
           all == FirstWaiting(Kept + 1)
           m   == Len(encoded)
<1>1. /\ all \subseteq Pending \cup {new}
      /\ Pending' = IF size' = 0 THEN {} ELSE all
      /\ FirstWaiting(n) \subseteq all
  BY CallSets
<1>2. /\ \A k \in 1 .. m : encoded[k] \in 1 .. Len(pts)
      /\ Len(pts) \in Nat
  BY Whereabouts
<1>3. failed' \/ (~failed /\ (n = 0 \/ size' = 0))
  BY DEF Call, InductiveInv, TypeOK
<1>4. \A k \in 1 .. Len(encoded') :
              IF k <= m THEN k \in 1 .. m /\ encoded'[k] = encoded[k]
              ELSE encoded'[k] \in FirstWaiting(n) /\ encoded'[k] \in 1 .. Len(pts')
  BY CallFrames
<1>5. ASSUME ~failed', NEW k \in 1 .. m, NEW f \in all PROVE encoded[k] < f
  <2>1. CASE f \in Pending
    BY <1>3, <1>5, <2>1 DEF EncodedBeforePending
  <2>2. CASE f = new
    BY <1>2, <2>2
  <2> QED BY <1>1, <2>1, <2>2
<1> HIDE DEF new, all
<1>6. EncodedBeforePending'
  <2> SUFFICES ASSUME ~failed', NEW k \in 1 .. Len(encoded'), NEW f \in Pending'
               PROVE  encoded'[k] < f
    BY DEF EncodedBeforePending
  <2>1. size' # 0 /\ n = 0 /\ f \in all
    BY <1>1, <1>3
  <2>2. Len(encoded') = m
    BY <2>1, CallFrames
  <2>3. k \in 1 .. m /\ encoded'[k] = encoded[k]
    BY <1>4, <2>2
  <2> QED BY <1>5, <2>1, <2>3
<1>7. OutputInOrder'
  <2> SUFFICES ASSUME ~failed', DecodedInOrder',
                      NEW j \in 1 .. Len(encoded'), NEW k \in 1 .. Len(encoded'), j < k
               PROVE  encoded'[j] < encoded'[k]
    BY DEF OutputInOrder
  <2>1. TimesSorted' /\ DecodedInOrder
    BY TimesStep DEF Call
  <2>2. CASE k <= m
    <3>1. /\ k \in 1 .. m /\ encoded'[k] = encoded[k]
          /\ j \in 1 .. m /\ encoded'[j] = encoded[j]
      BY <1>4, <2>2
    <3> QED BY <1>3, <2>1, <3>1 DEF OutputInOrder
  <2>3. CASE j <= m /\ ~(k <= m)
    BY <1>1, <1>4, <1>5, <2>3
  <2>4. CASE ~(j <= m)
    <3> DEFINE a == encoded'[j]
               b == encoded'[k]
    <3>1. pts'[a] < pts'[b] \/ (pts'[a] = pts'[b] /\ a < b)
      BY <2>4, CallFrames
    <3>2. a \in 1 .. Len(pts') /\ b \in 1 .. Len(pts')
      <4>1. ~(k <= m)
        <5>1. m \in Nat
          BY DEF InductiveInv, TypeOK
        <5> QED BY <2>4, <5>1
      <4> QED BY <1>4, <2>4, <4>1
    <3>3. \A i, l \in 1 .. Len(pts') : i <= l => pts'[i] <= pts'[l]
      BY <2>1 DEF TimesSorted
    <3>4. pts'[a] \in Nat /\ pts'[b] \in Nat
      <4>1. pts' \in Seq(Times)
        BY DecodeStep DEF Call
      <4>2. pts'[a] \in Times /\ pts'[b] \in Times
        BY <3>2, <4>1
      <4> QED BY <4>2, VideoTranscoderAssumption
    <3> HIDE DEF a, b
    <3>5. a < b
      BY <3>1, <3>2, <3>3, <3>4
    <3> QED BY <3>5 DEF a, b
  <2> QED BY <2>2, <2>3, <2>4
<1> QED BY <1>6, <1>7

\* A call of supplyFrame that inserts a frame keeps the history.
LEMMA CallKeepsHistory ==
  ASSUME HistoryInv, NEW t \in Times, NEW n, Call(t, n), InductiveInv'
  PROVE  HistoryInv'
<1>1. /\ InductiveInv /\ FramesAccounted /\ EncodedOnce
      /\ OutputInOrder /\ EncodedBeforePending /\ TimesSorted
  BY DEF HistoryInv
<1>2. FramesAccounted'
  BY <1>1, CallKeepsAccount
<1>3. EncodedOnce'
  BY <1>1, CallKeepsOnce DEF EncodedOnce
<1>4. OutputInOrder' /\ EncodedBeforePending'
  BY <1>1, CallKeepsOrder
<1>5. TimesSorted'
  BY <1>1, TimesStep DEF Call
<1> QED BY <1>2, <1>3, <1>4, <1>5 DEF HistoryInv

LEMMA RejectKeepsHistory ==
  ASSUME HistoryInv, RejectFrame, InductiveInv'
  PROVE  HistoryInv'
<1>1. /\ InductiveInv /\ TypeOK /\ FramesAccounted /\ EncodedOnce
      /\ OutputInOrder /\ EncodedBeforePending /\ TimesSorted
  BY DEF HistoryInv, InductiveInv
<1>2. PICK t \in Times :
        /\ Decode(t) /\ discarded' = discarded \cup {Len(pts) + 1}
        /\ UNCHANGED <<pool, size, current, encoded, failed>>
  BY DEF RejectFrame
<1>3. Len(pts') = Len(pts) + 1 /\ \A i \in Slots : content'[pool[i]] = Frame(i)
  BY <1>1, <1>2, DecodeStep
<1>4. \A i \in 0 .. size - 1 : i \in Slots
  BY <1>1, VideoTranscoderAssumption DEF TypeOK, Slots
<1>5. Pending' = Pending /\ EncodedFrames' = EncodedFrames
  <2>1. \A i \in 0 .. size - 1 : Frame(i)' = Frame(i)
    BY <1>2, <1>3, <1>4 DEF Frame
  <2> QED BY <1>2, <2>1 DEF Pending, EncodedFrames
<1> DEFINE new == Len(pts) + 1
           D   == 1 .. Len(pts)
<1>6. /\ Pending \subseteq D /\ EncodedFrames \subseteq D /\ new \notin D
      /\ 1 .. Len(pts') = D \cup {new} /\ discarded' = discarded \cup {new}
  BY <1>1, <1>2, <1>3, Whereabouts
<1> HIDE DEF new, D
<1>7. FramesAccounted'
  <2>1. D = Pending \cup EncodedFrames \cup discarded /\ Pending \cap discarded = {}
    BY <1>1 DEF FramesAccounted, D
  <2> QED BY <1>5, <1>6, <2>1 DEF FramesAccounted
<1>8. EncodedOnce'
  BY <1>1, <1>2, <1>5, <1>6 DEF EncodedOnce
<1>9. TimesSorted' /\ (DecodedInOrder' => DecodedInOrder)
  BY <1>1, <1>2, TimesStep
<1>10. OutputInOrder' /\ EncodedBeforePending'
  BY <1>1, <1>2, <1>5, <1>9 DEF OutputInOrder, EncodedBeforePending
<1> QED BY <1>7, <1>8, <1>9, <1>10 DEF HistoryInv

LEMMA ResetKeepsHistory ==
  ASSUME HistoryInv, Reset, InductiveInv'
  PROVE  HistoryInv'
<1>1. /\ FramesAccounted /\ EncodedOnce
      /\ OutputInOrder /\ EncodedBeforePending /\ TimesSorted
  BY DEF HistoryInv
<1>2. /\ Pending' = {} /\ EncodedFrames' = EncodedFrames /\ discarded' = discarded \cup Pending
      /\ UNCHANGED <<pts, encoded, failed>>
  BY DEF Reset, Pending, EncodedFrames
<1>3. FramesAccounted' /\ EncodedOnce'
  BY <1>1, <1>2 DEF FramesAccounted, EncodedOnce
<1>4. OutputInOrder' /\ EncodedBeforePending' /\ TimesSorted'
  BY <1>1, <1>2 DEF OutputInOrder, EncodedBeforePending, TimesSorted, DecodedInOrder
<1> QED BY <1>3, <1>4 DEF HistoryInv

LEMMA HistoryInit == Init => HistoryInv
<1> SUFFICES ASSUME Init PROVE HistoryInv
  OBVIOUS
<1>1. pts = <<>> /\ encoded = <<>> /\ size = 0 /\ discarded = {}
  BY DEF Init
<1>2. Pending = {} /\ EncodedFrames = {} /\ 1 .. Len(pts) = {} /\ 1 .. Len(encoded) = {}
  BY <1>1 DEF Pending, EncodedFrames
<1> QED BY <1>1, <1>2, InductiveInit
        DEF HistoryInv, FramesAccounted, EncodedOnce, OutputInOrder, EncodedBeforePending, TimesSorted

\* Each action that inserts is a call that encodes none, all or some.
LEMMA InsertingActions ==
  ASSUME InductiveInv, HoldFrame \/ FlushFrames \/ FlushFails
  PROVE  \E t \in Times, n \in Nat : Call(t, n)
<1>1. Kept \in Nat /\ Kept + 1 \in Nat /\ 0 <= Kept + 1
  BY KeptRange DEF InductiveInv
<1>2. CASE HoldFrame
  <2>1. PICK t \in Times : Decode(t) /\ InsertFrame(t) /\ size' = Kept + 1
                           /\ UNCHANGED <<encoded, failed>>
    BY <1>2 DEF HoldFrame
  <2>2. encoded' = encoded \o FirstFrames(0)
    <3>1. FirstFrames(0) = <<>>
      BY DEF FirstFrames
    <3>2. encoded \in Seq(1 .. Len(pts))
      BY DEF InductiveInv, TypeOK
    <3> QED BY <2>1, <3>1, <3>2
  <2>3. Call(t, 0)
    BY <1>1, <2>1, <2>2 DEF Call
  <2> QED BY <2>3
<1>3. CASE FlushFrames
  <2>1. PICK t \in Times : Decode(t) /\ InsertFrame(t) /\ size' = 0 /\ failed' = failed
                           /\ encoded' = encoded \o FirstFrames(Kept + 1)
    BY <1>3 DEF FlushFrames
  <2>2. PICK n \in Nat : n = Kept + 1
    BY <1>1
  <2>3. n <= Kept + 1 /\ encoded' = encoded \o FirstFrames(n)
    BY <2>1, <2>2
  <2>4. Call(t, n)
    BY <2>1, <2>2, <2>3 DEF Call
  <2> QED BY <2>4
<1>4. CASE FlushFails
  <2>1. PICK t \in Times, n \in 0 .. PoolSize - 1 :
               n <= Kept + 1 /\ Decode(t) /\ InsertFrame(t) /\ size' = Kept + 1
               /\ failed' = TRUE /\ encoded' = encoded \o FirstFrames(n)
    BY <1>4 DEF FlushFails
  <2>2. n \in Nat
    OBVIOUS
  <2>3. Call(t, n)
    BY <2>1, <2>2 DEF Call
  <2> QED BY <2>2, <2>3
<1> QED BY <1>2, <1>3, <1>4

\* HistoryInv holds initially and every call keeps it.
THEOREM HistoryInvariance == Spec => []HistoryInv
<1>1. HistoryInv /\ InductiveInv' /\ [Next]_vars => HistoryInv'
  <2> SUFFICES ASSUME HistoryInv, InductiveInv', [Next]_vars PROVE HistoryInv'
    OBVIOUS
  <2>1. CASE HoldFrame \/ FlushFrames \/ FlushFails
    <3>1. \E t \in Times, n \in Nat : Call(t, n)
      BY <2>1, InsertingActions DEF HistoryInv
    <3> QED BY <3>1, CallKeepsHistory
  <2>2. CASE RejectFrame
    BY <2>2, RejectKeepsHistory
  <2>3. CASE Reset
    BY <2>3, ResetKeepsHistory
  <2>4. CASE UNCHANGED vars
    <3>1. UNCHANGED <<pts, encoded, discarded, failed>> /\ Pending' = Pending
          /\ EncodedFrames' = EncodedFrames
      BY <2>4 DEF vars, Pending, Frame, EncodedFrames
    <3> QED BY <3>1 DEF HistoryInv, FramesAccounted, EncodedOnce, OutputInOrder,
                      EncodedBeforePending, TimesSorted, DecodedInOrder
  <2> QED BY <2>1, <2>2, <2>3, <2>4 DEF Next
<1> QED BY <1>1, HistoryInit, Invariance, PTL DEF Spec

\* The pool loses no frame and revives none.
THEOREM NoFrameLost == Spec => []FramesAccounted
  BY HistoryInvariance, PTL DEF HistoryInv

\* Without a failed flush no frame is encoded twice, waits still or was dropped.
THEOREM NoFrameTwice == Spec => []EncodedOnce
  BY HistoryInvariance, PTL DEF HistoryInv

\* Frames decoded in presentation order are encoded in that order.
THEOREM OutputOrdered == Spec => []OutputInOrder
  BY HistoryInvariance, PTL DEF HistoryInv

-----------------------------------------------------------------------------
(* the reorder buffer *)

\* A set whose elements are numbered without repetition has as many elements.
LEMMA Numbered ==
  ASSUME NEW n \in Nat, NEW f, NEW T, f \in [0 .. n - 1 -> T],
         \A x \in T : \E i \in 0 .. n - 1 : f[i] = x,
         \A i, j \in 0 .. n - 1 : i < j => f[i] # f[j]
  PROVE  Cardinality(T) = n
<1> DEFINE S == 0 .. n - 1
<1>1. IsFiniteSet(S) /\ Cardinality(S) = n
  <2>1. 0 \in Int /\ n - 1 \in Int
    OBVIOUS
  <2>2. IsFiniteSet(0 .. n - 1)
        /\ Cardinality(0 .. n - 1) = IF 0 > n - 1 THEN 0 ELSE (n - 1) - 0 + 1
    BY <2>1, FS_Interval
  <2>3. (IF 0 > n - 1 THEN 0 ELSE (n - 1) - 0 + 1) = n
    OBVIOUS
  <2> QED BY <2>2, <2>3
<1>2. \A i, j \in S : i # j => f[i] # f[j]
  <2> SUFFICES ASSUME NEW i \in S, NEW j \in S, i # j PROVE f[i] # f[j]
    OBVIOUS
  <2>1. i < j \/ j < i
    OBVIOUS
  <2> QED BY <2>1
<1> HIDE DEF S
<1>3. f \in Bijection(S, T)
  <2>1. f \in [S -> T] /\ \A x \in T : \E i \in S : f[i] = x
    BY DEF S
  <2> QED BY <1>2, <2>1 DEF Bijection, Injection, Surjection, IsInjective
<1>4. ExistsBijection(S, T)
  BY <1>3 DEF ExistsBijection
<1> QED BY <1>1, <1>4, FS_Bijection

\* As many frames wait as the code counts.
LEMMA PendingCounted ==
  ASSUME InductiveInv
  PROVE  Cardinality(Pending) = size /\ size \in Nat
<1> DEFINE f == [i \in 0 .. size - 1 |-> Frame(i)]
<1>1. size \in Nat
  BY VideoTranscoderAssumption DEF InductiveInv, TypeOK, Slots
<1>2. f \in [0 .. size - 1 -> Pending] /\ \A x \in Pending : \E i \in 0 .. size - 1 : f[i] = x
  BY DEF Pending
<1>3. \A i, j \in 0 .. size - 1 : i < j => f[i] # f[j]
  <2> SUFFICES ASSUME NEW i \in 0 .. size - 1, NEW j \in 0 .. size - 1, i < j
               PROVE  Frame(i) # Frame(j)
    OBVIOUS
  <2>1. \/ pts[Frame(i)] < pts[Frame(j)]
        \/ pts[Frame(i)] = pts[Frame(j)] /\ Frame(i) < Frame(j)
    BY DEF InductiveInv, PoolSorted
  <2>2. Frame(i) \in 1 .. Len(pts) /\ pts \in Seq(Times)
    BY DEF InductiveInv, TypeOK, Pending
  <2>3. pts[Frame(i)] \in Nat /\ Frame(i) \in Nat
    <3>1. pts[Frame(i)] \in Times /\ Frame(i) \in Nat
      BY <2>2
    <3> QED BY <3>1, VideoTranscoderAssumption
  <2> QED BY <2>1, <2>3
<1> HIDE DEF f
<1>4. Cardinality(Pending) = size
  BY <1>1, <1>2, <1>3, Numbered
<1> QED BY <1>1, <1>4

\* The cardinality that the instance refers to is that of the library.
LEMMA BufferCardinality ==
  ASSUME NEW S
  PROVE  Buffer!Cardinality(S) = Cardinality(S)
  BY DEF Buffer!Cardinality, Cardinality

\* What insertFrame keeps and overwrites is what the reorder buffer holds and loses.
LEMMA BufferSets ==
  ASSUME InductiveInv, NEW t \in Times, Decode(t), InsertFrame(t)
  PROVE  Buffer!Held = FirstWaiting(Kept + 1) /\ Buffer!Lost = Overwritten
<1>1. Cardinality(Pending) = size /\ size \in Nat
  BY PendingCounted
<1>2. Buffer!Full <=> size + 1 >= PoolSize
  BY <1>1, BufferCardinality, VideoTranscoderAssumption DEF Buffer!Full
<1>3. Buffer!Lost = Overwritten
  <2>1. CASE Buffer!Full
    BY <1>1, <1>2, <2>1, VideoTranscoderAssumption DEF Buffer!Lost, Overwritten, Kept
  <2>2. CASE ~Buffer!Full
    BY <1>2, <2>2 DEF Buffer!Lost, Overwritten, Kept
  <2> QED BY <2>1, <2>2
<1>4. Buffer!Held = (Pending \ Buffer!Lost) \cup {Len(pts) + 1}
  BY DEF Buffer!Held, Buffer!Lost
<1> QED BY <1>3, <1>4, WaitingStep

\* The frames that wait after the insertion, as the encoder gets them, list what
\* the reorder buffer holds.
LEMMA BufferListed ==
  ASSUME InductiveInv, NEW t \in Times, Decode(t), InsertFrame(t)
  PROVE  /\ Cardinality(Buffer!Held) = Kept + 1 /\ Kept + 1 \in Nat
         /\ FirstFrames(Kept + 1) \in [1 .. Cardinality(Buffer!Held) -> Buffer!Held]
         /\ Buffer!Lists(pts', FirstFrames(Kept + 1), Buffer!Held)
<1> DEFINE F(i) == content'[pool'[i]]
           f    == [i \in 0 .. (Kept + 1) - 1 |-> F(i)]
           all  == FirstWaiting(Kept + 1)
           s    == FirstFrames(Kept + 1)
<1>1. Kept \in Nat /\ Kept + 1 \in Nat /\ 0 .. (Kept + 1) - 1 = 0 .. Kept
  BY KeptRange DEF InductiveInv
<1>2. all = Buffer!Held /\ all = {F(i) : i \in 0 .. Kept}
  BY <1>1, BufferSets DEF FirstWaiting
<1>3. /\ \A i \in 0 .. Kept : F(i) \in 1 .. Len(pts')
      /\ \A i, j \in 0 .. Kept : i < j =>
           pts'[F(i)] < pts'[F(j)] \/ (pts'[F(i)] = pts'[F(j)] /\ F(i) < F(j))
  BY SortedStep
<1>4. s = [k \in 1 .. Kept + 1 |-> F(k - 1)]
  BY DEF FirstFrames
<1>5. \A n \in 1 .. Len(pts') : pts'[n] \in Nat /\ n \in Nat
  <2>1. pts' \in Seq(Times)
    BY DecodeStep
  <2>2. \A n \in 1 .. Len(pts') : pts'[n] \in Times /\ n \in Nat
    BY <2>1
  <2> QED BY <2>2, VideoTranscoderAssumption
<1> HIDE DEF F, all, s
<1>6. \A i, j \in 0 .. Kept : i < j => F(i) # F(j)
  BY <1>3, <1>5
<1>7. Cardinality(all) = Kept + 1
  <2>1. f \in [0 .. (Kept + 1) - 1 -> all]
    BY <1>1, <1>2
  <2>2. \A x \in all : \E i \in 0 .. (Kept + 1) - 1 : f[i] = x
    BY <1>1, <1>2
  <2>3. \A i, j \in 0 .. (Kept + 1) - 1 : i < j => f[i] # f[j]
    BY <1>1, <1>6
  <2> HIDE DEF f
  <2> QED BY <1>1, <2>1, <2>2, <2>3, Numbered
<1>8. \A k \in 1 .. Kept + 1 : k - 1 \in 0 .. Kept
  BY <1>1
<1>9. s \in [1 .. Kept + 1 -> all]
  BY <1>2, <1>4, <1>8
<1>10. Len(s) = Kept + 1
  BY <1>1, <1>4
<1>11. {s[i] : i \in 1 .. Len(s)} = all
  <2>1. \A i \in 1 .. Len(s) : s[i] \in all
    BY <1>9, <1>10
  <2>2. ASSUME NEW i \in 0 .. Kept PROVE \E k \in 1 .. Len(s) : s[k] = F(i)
    <3>1. i + 1 \in 1 .. Len(s) /\ (i + 1) - 1 = i
      BY <1>1, <1>10
    <3> QED BY <1>4, <1>10, <3>1
  <2> QED BY <1>2, <2>1, <2>2
<1>12. ASSUME NEW i \in 1 .. Len(s), NEW j \in 1 .. Len(s), i < j
       PROVE  Buffer!Before(pts', s[i], s[j])
  <2>1. i - 1 \in 0 .. Kept /\ j - 1 \in 0 .. Kept /\ i - 1 < j - 1
    BY <1>8, <1>10, <1>12
  <2>2. s[i] = F(i - 1) /\ s[j] = F(j - 1)
    BY <1>4, <1>10
  <2> QED BY <1>3, <2>1, <2>2 DEF Buffer!Before
<1>13. Buffer!Lists(pts', s, Buffer!Held)
  BY <1>2, <1>11, <1>12 DEF Buffer!Lists
<1> QED BY <1>1, <1>2, <1>7, <1>9, <1>13 DEF s

\* Every call is a step of the reorder buffer.
LEMMA CallStep ==
  ASSUME InductiveInv, NEW t \in Times, Decode(t), InsertFrame(t)
  PROVE  /\ Buffer!Decode(t) /\ discarded' = discarded \cup Buffer!Lost
         /\ size' = Kept + 1 => Pending' = Buffer!Held
         /\ size' = 0 => Pending' = {}
<1>1. Kept \in Nat /\ Kept + 1 # 0
  BY KeptRange DEF InductiveInv
<1>2. Buffer!Held = FirstWaiting(Kept + 1) /\ Buffer!Lost = Overwritten
  BY BufferSets
<1>3. (size' = 0 \/ size' = Kept + 1) =>
        Pending' = IF size' = 0 THEN {} ELSE FirstWaiting(Kept + 1)
  BY <1>1, PendingAfter
<1>4. pts' = Append(pts, t) /\ discarded' = discarded \cup Overwritten
  BY DEF Decode, InsertFrame
<1> QED BY <1>1, <1>2, <1>3, <1>4 DEF Buffer!Decode

LEMMA HoldStep == InductiveInv /\ HoldFrame => Buffer!Hold
<1> SUFFICES ASSUME InductiveInv, HoldFrame PROVE Buffer!Hold
  OBVIOUS
<1>1. PICK t \in Times : Decode(t) /\ InsertFrame(t) /\ size' = Kept + 1 /\ encoded' = encoded
  BY DEF HoldFrame
<1>2. Buffer!Decode(t) /\ discarded' = discarded \cup Buffer!Lost /\ Pending' = Buffer!Held
  BY <1>1, CallStep
<1> QED BY <1>1, <1>2 DEF Buffer!Hold

LEMMA FlushStep == InductiveInv /\ FlushFrames => Buffer!Flush
<1> SUFFICES ASSUME InductiveInv, FlushFrames PROVE Buffer!Flush
  OBVIOUS
<1>1. PICK t \in Times : /\ Decode(t) /\ InsertFrame(t) /\ size' = 0
                         /\ encoded' = encoded \o FirstFrames(Kept + 1)
  BY DEF FlushFrames
<1>2. Buffer!Decode(t) /\ discarded' = discarded \cup Buffer!Lost /\ Pending' = {}
  BY <1>1, CallStep
<1>3. /\ FirstFrames(Kept + 1) \in [1 .. Buffer!Cardinality(Buffer!Held) -> Buffer!Held]
      /\ Buffer!Lists(pts', FirstFrames(Kept + 1), Buffer!Held)
  BY <1>1, BufferListed, BufferCardinality
<1> QED BY <1>1, <1>2, <1>3 DEF Buffer!Flush

\* The first n of the frames that wait are the first n of their list.
LEMMA FirstOfFirst ==
  ASSUME NEW m \in Nat, NEW n \in 0 .. m
  PROVE  SubSeq(FirstFrames(m), 1, n) = FirstFrames(n)
<1> DEFINE F(k) == content'[pool'[k - 1]]
           s    == [k \in 1 .. m |-> F(k)]
           S    == {F(k) : k \in 1 .. m}
<1>1. s \in Seq(S) /\ Len(s) = m
  <2> HIDE DEF F
  <2>1. \A k \in 1 .. m : F(k) \in S
    OBVIOUS
  <2> HIDE DEF S
  <2> QED BY <2>1
<1>2. \A k \in 1 .. n : k \in 1 .. m
  OBVIOUS
<1> HIDE DEF F
<1>3. SubSeq(s, 1, n) = [k \in 1 .. n |-> F(k)]
  <2> HIDE DEF S
  <2>1. SubSeq(s, 1, n) = [k \in 1 .. n |-> s[k]]
    BY <1>1
  <2> QED BY <1>2, <2>1
<1> QED BY <1>3 DEF FirstFrames, F

LEMMA FlushFailsStep == InductiveInv /\ FlushFails => Buffer!FlushFails
<1> SUFFICES ASSUME InductiveInv, FlushFails PROVE Buffer!FlushFails
  OBVIOUS
<1>1. PICK t \in Times, n \in 0 .. PoolSize - 1 :
             /\ n <= Kept + 1 /\ Decode(t) /\ InsertFrame(t) /\ size' = Kept + 1
             /\ encoded' = encoded \o FirstFrames(n)
  BY DEF FlushFails
<1>2. Buffer!Decode(t) /\ discarded' = discarded \cup Buffer!Lost /\ Pending' = Buffer!Held
  BY <1>1, CallStep
<1> DEFINE s == FirstFrames(Kept + 1)
           c == Buffer!Cardinality(Buffer!Held)
<1>3. s \in [1 .. c -> Buffer!Held] /\ Buffer!Lists(pts', s, Buffer!Held)
      /\ c = Kept + 1 /\ Kept + 1 \in Nat
  BY <1>1, BufferListed, BufferCardinality
<1>4. n \in 0 .. c /\ n \in 0 .. Kept + 1
  BY <1>1, <1>3
<1>5. SubSeq(s, 1, n) = FirstFrames(n)
  BY <1>3, <1>4, FirstOfFirst
<1> HIDE DEF s
<1>6. encoded' = encoded \o SubSeq(s, 1, n)
  BY <1>1, <1>5
<1> QED BY <1>2, <1>3, <1>4, <1>6 DEF Buffer!FlushFails

LEMMA RejectStep == InductiveInv /\ RejectFrame => Buffer!Reject
<1> SUFFICES ASSUME InductiveInv, RejectFrame PROVE Buffer!Reject
  OBVIOUS
<1>1. PICK t \in Times :
        /\ Decode(t) /\ discarded' = discarded \cup {Len(pts) + 1}
        /\ UNCHANGED <<pool, size, current, encoded, failed>>
  BY DEF RejectFrame
<1>2. \A i \in 0 .. size - 1 : i \in Slots
  BY VideoTranscoderAssumption DEF InductiveInv, TypeOK, Slots
<1>3. \A i \in 0 .. size - 1 : Frame(i)' = Frame(i)
  BY <1>1, <1>2, DecodeStep DEF Frame
<1>4. Pending' = Pending
  BY <1>1, <1>3 DEF Pending
<1>5. Buffer!Decode(t)
  BY <1>1 DEF Decode, Buffer!Decode
<1> QED BY <1>1, <1>4, <1>5 DEF Buffer!Reject

\* The transcoder's pool implements the reorder buffer: nothing it does to the
\* frames, an overflow or a failed flush included, is beyond what that promises.
THEOREM PoolImplementsBuffer == Spec => ImplementsReorderBuffer
<1>1. Init => Buffer!Init
  BY DEF Init, Buffer!Init, Pending
<1>2. InductiveInv /\ [Next]_vars => [Buffer!Next]_(Buffer!vars)
  <2> SUFFICES ASSUME InductiveInv, [Next]_vars PROVE [Buffer!Next]_(Buffer!vars)
    OBVIOUS
  <2>1. CASE HoldFrame
    BY <2>1, HoldStep DEF Buffer!Next
  <2>2. CASE FlushFrames
    BY <2>2, FlushStep DEF Buffer!Next
  <2>3. CASE FlushFails
    BY <2>3, FlushFailsStep DEF Buffer!Next
  <2>4. CASE RejectFrame
    BY <2>4, RejectStep DEF Buffer!Next
  <2>5. CASE Reset
    <3>1. Pending' = {}
      BY <2>5 DEF Reset, Pending
    <3>2. Buffer!Reset
      BY <2>5, <3>1 DEF Reset, Buffer!Reset
    <3> QED BY <3>2 DEF Buffer!Next
  <2>6. CASE UNCHANGED vars
    BY <2>6 DEF vars, Buffer!vars, Pending, Frame
  <2> QED BY <2>1, <2>2, <2>3, <2>4, <2>5, <2>6 DEF Next
<1> QED BY <1>1, <1>2, Invariance, PTL DEF Spec, ImplementsReorderBuffer, Buffer!Spec

=============================================================================
