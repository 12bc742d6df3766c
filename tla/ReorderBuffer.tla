--------------------------- MODULE ReorderBuffer ---------------------------
(***************************************************************************)
(* What VideoTranscoder promises about the frames it decodes, without its  *)
(* pool of frame objects: decoded frames wait in a set of at most Capacity *)
(* frames; a flush hands all of them to the encoder in presentation order  *)
(* (frames of equal time in decoding order) and empties the set; a frame   *)
(* that does not fit empties the set first, and what waited is lost.  A    *)
(* flush that fails has handed over some of the first frames and keeps all.*)
(***************************************************************************)
EXTENDS Naturals, Sequences, FiniteSets

CONSTANTS Capacity,   \* frames that can wait
          Times       \* presentation times

VARIABLES pts,        \* pts[n] is the presentation time of the n-th decoded frame
          pending,    \* the frames waiting for a flush
          encoded,    \* the frames handed to the encoder, in order
          discarded   \* the frames that will never be encoded

vars == <<pts, pending, encoded, discarded>>

Init == pts = <<>> /\ pending = {} /\ encoded = <<>> /\ discarded = {}

\* Presentation order, under the times p.
Before(p, m, n) == p[m] < p[n] \/ (p[m] = p[n] /\ m < n)

\* s lists the set S in presentation order.
Lists(p, s, S) ==
  /\ {s[i] : i \in 1 .. Len(s)} = S
  /\ \A i, j \in 1 .. Len(s) : i < j => Before(p, s[i], s[j])

\* The next frame is decoded; it is the frame number Len(pts').
Decode(t) == pts' = Append(pts, t)

Full == Cardinality(pending) >= Capacity

\* What waits once the new frame was put in, and what was lost for it.
Held == (IF Full THEN {} ELSE pending) \cup {Len(pts) + 1}
Lost == IF Full THEN pending ELSE {}

Hold == \E t \in Times :
  /\ Decode(t)
  /\ pending' = Held
  /\ discarded' = discarded \cup Lost
  /\ UNCHANGED encoded

Flush == \E t \in Times :
  /\ Decode(t)
  /\ \E s \in [1 .. Cardinality(Held) -> Held] :
       Lists(pts', s, Held) /\ encoded' = encoded \o s
  /\ pending' = {}
  /\ discarded' = discarded \cup Lost

\* The encoder or the output fails at one of the frames.
FlushFails == \E t \in Times :
  /\ Decode(t)
  /\ \E s \in [1 .. Cardinality(Held) -> Held], n \in 0 .. Cardinality(Held) :
       Lists(pts', s, Held) /\ encoded' = encoded \o SubSeq(s, 1, n)
  /\ pending' = Held
  /\ discarded' = discarded \cup Lost

\* The frame cannot be encoded, or not be placed in time.
Reject == \E t \in Times :
  /\ Decode(t)
  /\ discarded' = discarded \cup {Len(pts) + 1}
  /\ UNCHANGED <<pending, encoded>>

Reset ==
  /\ pending' = {}
  /\ discarded' = discarded \cup pending
  /\ UNCHANGED <<pts, encoded>>

Next == Hold \/ Flush \/ FlushFails \/ Reject \/ Reset

Spec == Init /\ [][Next]_vars

=============================================================================
