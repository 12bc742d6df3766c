---------------------------- MODULE PidTransport ----------------------------
(***************************************************************************)
(* One PID from the multiplexer to the stream object.  The multiplexer     *)
(* (external) numbers the packets of the PID 1, 2, ..., stamps them with   *)
(* the continuity counter and marks some as the start of a payload unit (a *)
(* PES packet or a table).  The channel (external) loses packets, at most  *)
(* MaxLoss in a row, and may repeat a packet once, right after it, as the  *)
(* transport stream format allows.  The reader thread of TSSource hands    *)
(* what arrives to the PID's payload handler, which gives the stream one   *)
(* frame per reset.                                                        *)
(***************************************************************************)
EXTENDS PayloadHandler, FiniteSets

CONSTANTS MaxPackets,   \* bound: packets the multiplexer sends
          MaxLoss       \* most packets lost in a row

ASSUME PidTransportAssumption ==
  /\ MaxPackets \in Nat
  /\ MaxLoss \in Nat /\ MaxLoss <= CtrMod - 2

VARIABLES sent,      \* packets sent so far, which is the last one's number
          cc,        \* the last sent packet's continuity counter
          starts,    \* the numbers of the packets that start a unit
          lost,      \* the numbers of the lost packets
          gap,       \* packets lost since the last one that arrived
          repeatable,\* the last arrival can still be repeated
          handler,   \* pidPayload[pid]
          frames,    \* the frames handed to the stream, oldest first
          eos        \* readDataInto returned 0

channel == <<sent, cc, starts, lost, gap, repeatable>>
vars    == <<channel, handler, frames, eos>>

Packets == 1 .. sent

Init ==
  /\ sent = 0 /\ cc = CtrMod - 1 /\ starts = {} /\ lost = {}
  /\ gap = 0 /\ repeatable = FALSE
  /\ handler = NewHandler
  /\ frames = <<>>
  /\ eos = FALSE

\* The multiplexer emits the PID's next packet.
Send(unitStart) ==
  /\ sent < MaxPackets
  /\ sent' = sent + 1
  /\ cc' = (cc + 1) % CtrMod
  /\ starts' = IF unitStart THEN starts \cup {sent + 1} ELSE starts

\* The read loop handles a packet that has payload.
Handle(n, unitStart, ctr) ==
  /\ handler' = Dispatch(handler, n, unitStart, ctr)
  /\ frames' = IF unitStart THEN Append(frames, Supplied(handler)) ELSE frames

Arrive(unitStart) ==
  /\ ~eos
  /\ Send(unitStart)
  /\ Handle(sent + 1, unitStart, cc')
  /\ gap' = 0
  /\ repeatable' = TRUE
  /\ UNCHANGED <<lost, eos>>

Lose(unitStart) ==
  /\ ~eos
  /\ gap < MaxLoss
  /\ Send(unitStart)
  /\ lost' = lost \cup {sent + 1}
  /\ gap' = gap + 1
  /\ repeatable' = FALSE
  /\ UNCHANGED <<handler, frames, eos>>

\* The packet that has just arrived arrives again.
Repeat ==
  /\ ~eos
  /\ repeatable
  /\ Handle(sent, sent \in starts, cc)
  /\ repeatable' = FALSE
  /\ UNCHANGED <<sent, cc, starts, lost, gap, eos>>

\* End of the input: the read loop resets every handler and ends.
EndOfStream ==
  /\ ~eos
  /\ eos' = TRUE
  /\ handler' = Reset(handler)
  /\ frames' = Append(frames, Supplied(handler))
  /\ UNCHANGED channel

Next ==
  \/ \E unitStart \in BOOLEAN : Arrive(unitStart) \/ Lose(unitStart)
  \/ Repeat
  \/ EndOfStream

Spec == Init /\ [][Next]_vars

-----------------------------------------------------------------------------

\* Type invariant of the channel, the handler and the delivered frames.
TypeOK ==
  /\ sent \in 0 .. MaxPackets
  /\ cc \in Counters
  /\ starts \subseteq Packets
  /\ lost \subseteq Packets
  /\ gap \in 0 .. MaxLoss
  /\ repeatable \in BOOLEAN /\ (repeatable => sent \in Packets)
  /\ handler \in Handlers(Packets)
  /\ frames \in Seq(Seq(Packets))
  /\ eos \in BOOLEAN

\* A run of consecutive packets that begins with a unit start and holds no other.
UnitPrefix(f) ==
  /\ Len(f) > 0 => f[1] \in starts
  /\ \A i \in 2 .. Len(f) : f[i] = f[i-1] + 1 /\ f[i] \notin starts

\* However packets are lost and repeated, what the handler collects and what
\* the stream gets is the beginning of one payload unit: the four-bit counter
\* check lets no hole and no packet of another unit through, as long as fewer
\* than CtrMod - 1 packets are lost in a row.
FramesAreUnitPrefixes ==
  /\ UnitPrefix(handler.m_Data)
  /\ \A k \in 1 .. Len(frames) : UnitPrefix(frames[k])

\* The unit that packet s starts, as far as it has been sent.
UnitOf(s) == {n \in Packets : n >= s /\ \A t \in (s + 1) .. n : t \notin starts}

\* The handler has closed the unit that s started: a later unit start arrived
\* or the stream ended.
Closed(s) == eos \/ \E t \in starts : t > s /\ t \notin lost

\* The errors of one unit never cost another one: a unit none of whose packets
\* was lost reaches the stream whole once it is closed, whatever was lost or
\* repeated before and after it.
IntactUnitsDelivered ==
  \A s \in starts :
    (UnitOf(s) \cap lost = {} /\ Closed(s)) =>
      \E k \in 1 .. Len(frames) :
        {frames[k][i] : i \in 1 .. Len(frames[k])} = UnitOf(s)

\* The stream gets frames in sending order and no packet's payload twice, with
\* one exception: a repeated unit start makes a frame of its first packet alone,
\* before the frame that begins with it again.
FramesInOrder ==
  \A j, k \in 1 .. Len(frames) :
    (j < k /\ frames[j] # <<>> /\ frames[k] # <<>>) =>
      \/ frames[j][Len(frames[j])] < frames[k][1]
      \/ k = j + 1 /\ frames[j] = <<frames[k][1]>>

\* An empty frame is what a CoreIV transcoder takes for the end of the
\* stream.  Only the first frame of a PID is empty: the reset at its first
\* unit start (or at the end of a stream that had none).
EmptyOnlyFirst == \A k \in 2 .. Len(frames) : frames[k] # <<>>

\* Why the counter check is enough.  While the handler is not in error, the
\* last packet it holds is the last one that arrived, and its counter is
\* behind the multiplexer's by the number of packets lost since, modulo
\* CtrMod.  Between packets no reset is pending.
CounterTracksLoss ==
  ~eos => /\ ~handler.m_PayloadStart
          /\ ~handler.m_Error =>
               /\ handler.m_Data # <<>>
               /\ handler.m_Data[Len(handler.m_Data)] = sent - gap
               /\ \/ cc = handler.m_Counter + gap
                  \/ cc = handler.m_Counter + gap - CtrMod

\* "Duplicate - ignore": a packet inside a unit that arrives again (a step that
\* neither sends nor ends anything) changes neither the handler nor the stream.
\* It is not so of a packet that starts a unit: reset() comes before append().
RepeatIgnored ==
  [][(sent' = sent /\ eos' = eos /\ sent \notin starts) => UNCHANGED <<handler, frames>>]_vars

\* The inductive invariant behind the three safety properties above: no frame
\* after the first is empty because a handler that has supplied one frame is
\* never empty, and a packet can be repeated only right after it arrived.
InductiveInv ==
  /\ TypeOK
  /\ CounterTracksLoss
  /\ FramesAreUnitPrefixes
  /\ EmptyOnlyFirst
  /\ (frames # <<>> /\ ~eos) => handler.m_Data # <<>>
  /\ repeatable => gap = 0

\* The history behind the other two.  While a unit without a loss is open, the
\* handler holds all of it: behind a start that was lost nothing is added, since
\* the loss is still to be noticed or already has been.
OpenUnitsCollected ==
  \A s \in starts :
    (UnitOf(s) \cap lost = {} /\ ~Closed(s)) =>
      /\ {handler.m_Data[i] : i \in 1 .. Len(handler.m_Data)} = UnitOf(s)
      /\ IF \E t \in starts : t > s THEN gap > 0 \/ handler.m_Error
                                    ELSE gap = 0 /\ ~handler.m_Error

\* What the handler holds comes after every frame, but for a repeated unit start
\* and the frame before it.
DataComesNext ==
  handler.m_Data # <<>> =>
    \A j \in 1 .. Len(frames) : frames[j] # <<>> =>
      \/ frames[j][Len(frames[j])] < handler.m_Data[1]
      \/ j = Len(frames) /\ frames[j] = <<handler.m_Data[1]>>

\* A unit start that can be repeated is all that the handler holds, and in no frame.
StartIsFresh ==
  (repeatable /\ ~eos /\ sent \in starts) =>
    /\ handler.m_Data = <<sent>>
    /\ \A j \in 1 .. Len(frames) : frames[j] # <<>> => frames[j][Len(frames[j])] < sent

HistoryInv ==
  /\ InductiveInv
  /\ gap = 0 => sent \notin lost
  /\ IntactUnitsDelivered /\ OpenUnitsCollected
  /\ FramesInOrder /\ DataComesNext /\ StartIsFresh

=============================================================================
