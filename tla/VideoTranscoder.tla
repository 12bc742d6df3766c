-------------------------- MODULE VideoTranscoder --------------------------
(***************************************************************************)
(* The reordering of decoded frames in VideoTranscoder                     *)
(* (src/src/transcode/videoTranscoder.cpp) between a decoder and an        *)
(* encoder, in the software transcoder that uses it.  The pool holds       *)
(* references to frame objects; the first m_DecodedFramePoolSize of them   *)
(* are the decoded frames that wait, the rest are free, and m_DecodedFrame *)
(* is the object the decoder writes next.  What an object holds is the     *)
(* number of the decoded frame in it.  Each action is one call of          *)
(* supplyFrame that decodes a frame; a call that returns before            *)
(* (nothing decoded, decoder exception) changes nothing here.              *)
(***************************************************************************)
EXTENDS Naturals, Sequences, FiniteSets

CONSTANTS PoolSize,            \* MAX_REF_FRAMES, 20 in the code
          Times,               \* presentation times (pkt_pts) of frames
          MaxFrames            \* bound: frames decoded

ASSUME VideoTranscoderAssumption ==
  /\ PoolSize \in Nat /\ PoolSize >= 2
  /\ Times \subseteq Nat
  /\ MaxFrames \in Nat

Slots   == 0 .. PoolSize - 1
Buffers == 0 .. PoolSize    \* the frame objects init() allocates

VARIABLES pool,      \* m_DecodedFramePool
          size,      \* m_DecodedFramePoolSize
          current,   \* m_DecodedFrame
          content,   \* the decoded frame in each frame object, 0 for none
          encoder,   \* is m_EncoderContext set?
          pts,       \* presentation time of each decoded frame
          encoded,   \* the frames handed to the encoder, in order
          discarded, \* the frames the code has dropped
          failed     \* has a flush ended in an exception?

vars == <<pool, size, current, content, encoder, pts, encoded, discarded, failed>>

\* The state after init().
Init ==
  /\ pool = [i \in Slots |-> i]
  /\ size = 0
  /\ current = PoolSize
  /\ content = [b \in Buffers |-> 0]
  /\ encoder = FALSE
  /\ pts = <<>>
  /\ encoded = <<>>
  /\ discarded = {}
  /\ failed = FALSE

Frame(i) == content[pool[i]]
Pending  == {Frame(i) : i \in 0 .. size - 1}

\* decodeFrame writes the next frame into m_DecodedFrame.
Decode(t) ==
  /\ Len(pts) < MaxFrames
  /\ pts' = Append(pts, t)
  /\ content' = [content EXCEPT ![current] = Len(pts) + 1]

\* The pool is full: insertFrame forgets what waits before it inserts.
Kept == IF size + 1 >= PoolSize THEN 0 ELSE size
Overwritten == IF Kept = size THEN {} ELSE Pending

FoundLast(t, index) ==   \* faulty: the search goes on after the first hit
  /\ \A i \in index + 1 .. Kept - 1 : pts[Frame(i)] <= t
  /\ index < Kept => t < pts[Frame(index)]
FoundEqual(t, index) ==   \* faulty: before a frame of equal time
  /\ \A i \in 0 .. index - 1 : pts[Frame(i)] < t
  /\ index < Kept => t <= pts[Frame(index)]

\* insertFrame's search stops at index: no waiting frame before it is later
\* than t, and the one there, if any, is.
Found(t, index) ==
  /\ \A i \in 0 .. index - 1 : pts[Frame(i)] <= t
  /\ index < Kept => t < pts[Frame(index)]

InsertedInPlace(index) == [pool EXCEPT ![index] = current]   \* faulty: no shift

\* insertFrame's shift: m_DecodedFrame goes in at index.
Inserted(index) ==
  [k \in Slots |-> IF k < index \/ k > Kept + 1 THEN pool[k]
                   ELSE IF k = index THEN current ELSE pool[k - 1]]

InsertFrameEarly(t) ==   \* faulty: the free object is taken before the count is raised
  /\ \E index \in 0 .. Kept : Found(t, index) /\ pool' = Inserted(index)
  /\ current' = pool[Kept]
  /\ discarded' = discarded \cup Overwritten

\* insertFrame: the free object behind the waiting ones becomes m_DecodedFrame.
InsertFrame(t) ==
  /\ \E index \in 0 .. Kept : Found(t, index) /\ pool' = Inserted(index)
  /\ current' = pool[Kept + 1]
  /\ discarded' = discarded \cup Overwritten

\* The first n waiting frames, after the insertion.
FirstFrames(n) == [k \in 1 .. n |-> content'[pool'[k - 1]]]

\* createEncoder throws, returns null, or the frame has no PTS: the frame is lost.
RejectFrame == \E t \in Times :
  /\ Decode(t)
  /\ encoder' \in {encoder, TRUE}
  /\ discarded' = discarded \cup {Len(pts) + 1}
  /\ UNCHANGED <<pool, size, current, encoded, failed>>

\* PTS # DTS: the frame waits.
HoldFrame == \E t \in Times :
  /\ Decode(t)
  /\ InsertFrame(t)
  /\ size' = Kept + 1
  /\ encoder' = TRUE
  /\ UNCHANGED <<encoded, failed>>

FlushFramesKeeping == \E t \in Times :   \* faulty: m_DecodedFramePoolSize = 0 forgotten
  /\ Decode(t)
  /\ InsertFrame(t)
  /\ encoded' = encoded \o FirstFrames(Kept + 1)
  /\ size' = Kept + 1
  /\ encoder' = TRUE
  /\ UNCHANGED failed

\* PTS = DTS: the frame is inserted and all that wait are encoded.
FlushFrames == \E t \in Times :
  /\ Decode(t)
  /\ InsertFrame(t)
  /\ encoded' = encoded \o FirstFrames(Kept + 1)
  /\ size' = 0
  /\ encoder' = TRUE
  /\ UNCHANGED failed

\* The same, but the encoder or the output throws at one of the frames: the
\* exception leaves supplyFrame before m_DecodedFramePoolSize is cleared.
FlushFails == \E t \in Times, n \in 0 .. PoolSize - 1 :
  /\ n <= Kept + 1
  /\ Decode(t)
  /\ InsertFrame(t)
  /\ encoded' = encoded \o FirstFrames(n)
  /\ size' = Kept + 1
  /\ encoder' = TRUE
  /\ failed' = TRUE

\* reset()
Reset ==
  /\ size' = 0
  /\ discarded' = discarded \cup Pending
  /\ UNCHANGED <<pool, current, content, encoder, pts, encoded, failed>>

Next == RejectFrame \/ HoldFrame \/ FlushFrames \/ FlushFails \/ Reset

Spec == Init /\ [][Next]_vars

-----------------------------------------------------------------------------

\* Type invariant; size never reaches PoolSize, so pool[size] is always a free object.
TypeOK ==
  /\ pool \in [Slots -> Buffers]
  /\ size \in Slots
  /\ current \in Buffers
  /\ pts \in Seq(Times) /\ Len(pts) <= MaxFrames
  /\ content \in [Buffers -> 0 .. Len(pts)]
  /\ encoder \in BOOLEAN
  /\ encoded \in Seq(1 .. Len(pts))
  /\ discarded \subseteq 1 .. Len(pts)
  /\ failed \in BOOLEAN

\* However frames are inserted, shifted and swapped, no frame object is in two
\* places: the decoder never writes into one that waits for the encoder.
NoAliasing ==
  /\ \A i, j \in Slots : i # j => pool[i] # pool[j]
  /\ \A i \in Slots : pool[i] # current

\* What insertFrame's comment assumes: the waiting frames are sorted by
\* presentation time, frames of equal time by decoding order.
PoolSorted ==
  \A i, j \in 0 .. size - 1 : i < j =>
    \/ pts[Frame(i)] < pts[Frame(j)]
    \/ pts[Frame(i)] = pts[Frame(j)] /\ Frame(i) < Frame(j)

\* The inductive invariant behind the three properties above: what waits are
\* frames that have been decoded.
InductiveInv ==
  /\ TypeOK
  /\ NoAliasing
  /\ PoolSorted
  /\ Pending \subseteq 1 .. Len(pts)

EncodedFrames == {encoded[k] : k \in 1 .. Len(encoded)}

\* Every decoded frame waits, was encoded or was dropped at a place the code
\* names, and a frame that waits or was encoded was not dropped: the pool loses
\* none and revives none.
FramesAccounted ==
  /\ 1 .. Len(pts) = Pending \cup EncodedFrames \cup discarded
  /\ Pending \cap discarded = {}

\* While no flush has failed, no frame is encoded twice, and none that was
\* encoded still waits or counts as dropped.
EncodedOnce ==
  ~failed =>
    /\ \A j, k \in 1 .. Len(encoded) : j # k => encoded[j] # encoded[k]
    /\ EncodedFrames \cap (Pending \cup discarded) = {}

DecodedInOrder == \A n \in 2 .. Len(pts) : pts[n - 1] <= pts[n]

\* As long as the decoder emits frames in presentation order and no flush
\* fails, the transcoder emits them in that order, across flushes and overflows,
\* even for frames of equal time.
\* (Frames out of order are only sorted up to the next flush.)
OutputInOrder ==
  ~failed /\ DecodedInOrder =>
    \A j, k \in 1 .. Len(encoded) : j < k => encoded[j] < encoded[k]

\* What waits was decoded after all that was encoded.
EncodedBeforePending ==
  ~failed => \A k \in 1 .. Len(encoded) : \A f \in Pending : encoded[k] < f

\* Times that never step back are sorted as a whole.
TimesSorted ==
  DecodedInOrder => \A m, n \in 1 .. Len(pts) : m <= n => pts[m] <= pts[n]

\* The history that the last three of the properties above rest on.
HistoryInv ==
  /\ InductiveInv
  /\ FramesAccounted /\ EncodedOnce
  /\ OutputInOrder /\ EncodedBeforePending /\ TimesSorted

\* The frames the transcoder holds, encodes and drops are those of a reorder buffer.
Buffer == INSTANCE ReorderBuffer WITH pending <- Pending, Capacity <- PoolSize - 1

ImplementsReorderBuffer == Buffer!Spec

=============================================================================
