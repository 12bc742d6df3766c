------------------------- MODULE PidTransportProofs -------------------------
(***************************************************************************)
(* Proofs about PidTransport for every counter width, every loss bound the *)
(* assumption allows and any number of packets.                            *)
(***************************************************************************)
EXTENDS PidTransport, SequenceTheorems, TLAPS

\* The masked increment in linear form: one value wraps to zero.
LEMMA Wrap ==
  ASSUME NEW c \in Counters
  PROVE  /\ (c + 1) % CtrMod = IF c = CtrMod - 1 THEN 0 ELSE c + 1
         /\ (c + 1) % CtrMod \in Counters
  BY CtrModAssumption DEF Counters

\* The handler stays typed whatever packet it is given.
LEMMA DispatchType ==
  ASSUME NEW P, NEW h \in Handlers(P), NEW n \in P, NEW ctr \in Counters,
         NEW unitStart \in BOOLEAN
  PROVE  Dispatch(h, n, unitStart, ctr) \in Handlers(P)
<1> DEFINE g == IF unitStart THEN Reset(h) ELSE h
<1>1. g \in Handlers(P)
  <2>1. <<>> \in Seq(P)
    OBVIOUS
  <2>2. Reset(h) \in Handlers(P)
    BY <2>1 DEF Handlers, Reset
  <2> QED BY <2>2
<1>2. Append(g.m_Data, n) \in Seq(P)
  BY <1>1 DEF Handlers
<1>3. NextCounter(g.m_Counter) \in Counters
  BY <1>1, Wrap DEF NextCounter, Handlers
<1>4. AppendPacket(g, n, ctr) \in Handlers(P)
  <2> HIDE DEF g
  <2>1. CASE g.m_PayloadStart
    BY <2>1, <1>1, <1>2 DEF AppendPacket, Store, Handlers
  <2>2. CASE ~g.m_PayloadStart /\ (g.m_Error \/ g.m_Counter = ctr)
    BY <2>2, <1>1 DEF AppendPacket
  <2>3. CASE ~g.m_PayloadStart /\ ~g.m_Error /\ g.m_Counter # ctr
    BY <2>3, <1>1, <1>2, <1>3 DEF AppendPacket, Store, Handlers
  <2>4. g.m_PayloadStart \in BOOLEAN
    BY <1>1 DEF Handlers
  <2> QED BY <2>1, <2>2, <2>3, <2>4
<1> QED BY <1>4 DEF Dispatch

\* The four outcomes of handing a packet to a handler h with no reset pending:
\* a new unit, a packet dropped, the next packet of the unit, a mismatch.
Outcome(h, n, unitStart, ctr, d) ==
  /\ ~d.m_PayloadStart
  /\ unitStart => d.m_Counter = ctr /\ ~d.m_Error /\ d.m_Data = <<n>>
  /\ (~unitStart /\ (h.m_Error \/ h.m_Counter = ctr)) => d = h
  /\ (~unitStart /\ ~h.m_Error /\ h.m_Counter # ctr) =>
       IF NextCounter(h.m_Counter) = ctr
         THEN d.m_Counter = ctr /\ ~d.m_Error /\ d.m_Data = Append(h.m_Data, n)
         ELSE d.m_Error /\ d.m_Data = h.m_Data

LEMMA DispatchOutcomes ==
  ASSUME NEW P, NEW h \in Handlers(P), NEW n \in P, NEW ctr \in Counters,
         NEW unitStart \in BOOLEAN, ~h.m_PayloadStart
  PROVE  Outcome(h, n, unitStart, ctr, Dispatch(h, n, unitStart, ctr))
<1> DEFINE d == Dispatch(h, n, unitStart, ctr)
<1>1. ASSUME unitStart
      PROVE  ~d.m_PayloadStart /\ d.m_Counter = ctr /\ ~d.m_Error /\ d.m_Data = <<n>>
  <2> DEFINE r == Reset(h)
             s == [r EXCEPT !.m_PayloadStart = FALSE, !.m_Counter = ctr]
  <2>1. DOMAIN r = {"m_Counter", "m_Error", "m_PayloadStart", "m_Data"}
        /\ r.m_PayloadStart /\ ~r.m_Error /\ r.m_Data = <<>>
    BY DEF Reset, Handlers
  <2>2. d = Store(s, n)
    BY <1>1, <2>1 DEF Dispatch, AppendPacket
  <2> HIDE DEF r
  <2>3. DOMAIN s = {"m_Counter", "m_Error", "m_PayloadStart", "m_Data"}
        /\ ~s.m_PayloadStart /\ s.m_Counter = ctr /\ ~s.m_Error /\ s.m_Data = <<>>
    BY <2>1
  <2> HIDE DEF s
  <2>4. Append(<<>>, n) = <<n>>
    OBVIOUS
  <2> QED BY <2>2, <2>3, <2>4 DEF Store
<1>2. ASSUME ~unitStart
      PROVE  d = AppendPacket(h, n, ctr)
  BY <1>2 DEF Dispatch
<1>3. ASSUME h.m_Error \/ h.m_Counter = ctr
      PROVE  AppendPacket(h, n, ctr) = h
  BY <1>3 DEF AppendPacket
<1>4. ASSUME ~h.m_Error, h.m_Counter # ctr
      PROVE  LET a == AppendPacket(h, n, ctr) IN
             /\ ~a.m_PayloadStart
             /\ IF NextCounter(h.m_Counter) = ctr
                  THEN a.m_Counter = ctr /\ ~a.m_Error /\ a.m_Data = Append(h.m_Data, n)
                  ELSE a.m_Error /\ a.m_Data = h.m_Data
  <2> DEFINE k == [h EXCEPT !.m_Counter = NextCounter(h.m_Counter)]
  <2>1. DOMAIN k = {"m_Counter", "m_Error", "m_PayloadStart", "m_Data"}
        /\ ~k.m_PayloadStart /\ k.m_Counter = NextCounter(h.m_Counter)
        /\ ~k.m_Error /\ k.m_Data = h.m_Data
    BY <1>4 DEF Handlers
  <2>2. AppendPacket(h, n, ctr) = IF k.m_Counter = ctr THEN Store(k, n)
                                  ELSE [k EXCEPT !.m_Error = TRUE]
    BY <1>4 DEF AppendPacket
  <2> HIDE DEF k
  <2> QED BY <2>1, <2>2 DEF Store
<1> QED BY <1>1, <1>2, <1>3, <1>4 DEF Outcome

-----------------------------------------------------------------------------

LEMMA TypeInit == Init => TypeOK
<1> SUFFICES ASSUME Init PROVE TypeOK
  OBVIOUS
<1> USE CtrModAssumption, PidTransportAssumption
<1>1. NewHandler \in Handlers(Packets)
  BY DEF NewHandler, Handlers, Counters
<1>2. frames \in Seq(Seq(Packets))
  BY DEF Init
<1>3. sent \in 0 .. MaxPackets /\ cc \in Counters /\ gap \in 0 .. MaxLoss
  BY DEF Init, Counters
<1> QED BY <1>1, <1>2, <1>3 DEF Init, TypeOK

\* A frame of packets 1 .. m is a frame of packets 1 .. n when m <= n.
LEMMA MorePackets ==
  ASSUME NEW m \in Nat, NEW n \in Nat, m <= n
  PROVE  /\ Handlers(1 .. m) \subseteq Handlers(1 .. n)
         /\ Seq(Seq(1 .. m)) \subseteq Seq(Seq(1 .. n))
<1>1. Seq(1 .. m) \subseteq Seq(1 .. n)
  OBVIOUS
<1>2. Seq(Seq(1 .. m)) \subseteq Seq(Seq(1 .. n))
  BY <1>1
<1> QED BY <1>1, <1>2 DEF Handlers

LEMMA TypeNext == TypeOK /\ [Next]_vars => TypeOK'
<1> SUFFICES ASSUME TypeOK, [Next]_vars PROVE TypeOK'
  OBVIOUS
<1> USE CtrModAssumption, PidTransportAssumption
<1>1. handler.m_Data \in Seq(Packets)
  BY DEF TypeOK, Handlers
<1>2. Reset(handler) \in Handlers(Packets)
  <2>1. <<>> \in Seq(Packets)
    OBVIOUS
  <2> QED BY <2>1 DEF Reset, Handlers, TypeOK
<1>3. ASSUME NEW u \in BOOLEAN, Send(u)
      PROVE  /\ sent' \in 0 .. MaxPackets /\ sent' = sent + 1 /\ cc' \in Counters
             /\ starts' \subseteq Packets' /\ Packets \subseteq Packets'
             /\ handler \in Handlers(Packets') /\ frames \in Seq(Seq(Packets'))
  BY <1>3, Wrap, MorePackets DEF Send, TypeOK, Packets
<1>4. ASSUME NEW u \in BOOLEAN, Arrive(u) PROVE TypeOK'
  <2>1. Send(u) /\ Handle(sent + 1, u, cc')
    BY <1>4 DEF Arrive
  <2>2. /\ sent' \in 0 .. MaxPackets /\ sent' = sent + 1 /\ cc' \in Counters
        /\ starts' \subseteq Packets' /\ Packets \subseteq Packets'
        /\ handler \in Handlers(Packets') /\ frames \in Seq(Seq(Packets'))
    BY <1>3, <2>1
  <2>3. sent' \in Packets'
    BY <2>2 DEF Packets, TypeOK
  <2>4. handler' \in Handlers(Packets')
    BY <2>1, <2>2, <2>3, DispatchType DEF Handle
  <2>5. frames' \in Seq(Seq(Packets'))
    BY <2>1, <2>2 DEF Handle, Supplied, Handlers
  <2>6. /\ lost' \subseteq Packets' /\ gap' \in 0 .. MaxLoss
        /\ repeatable' \in BOOLEAN /\ eos' \in BOOLEAN
    BY <1>4, <2>2 DEF Arrive, TypeOK
  <2> QED BY <2>2, <2>3, <2>4, <2>5, <2>6 DEF TypeOK
<1>5. ASSUME NEW u \in BOOLEAN, Lose(u) PROVE TypeOK'
  <2>1. Send(u)
    BY <1>5 DEF Lose
  <2>2. /\ sent' \in 0 .. MaxPackets /\ sent' = sent + 1 /\ cc' \in Counters
        /\ starts' \subseteq Packets' /\ Packets \subseteq Packets'
        /\ handler \in Handlers(Packets') /\ frames \in Seq(Seq(Packets'))
    BY <1>3, <2>1
  <2>3. sent' \in Packets'
    BY <2>2 DEF Packets, TypeOK
  <2>4. lost' \subseteq Packets' /\ gap' \in 0 .. MaxLoss
    BY <1>5, <2>2, <2>3 DEF Lose, TypeOK
  <2>5. repeatable' \in BOOLEAN /\ eos' \in BOOLEAN /\ UNCHANGED <<handler, frames>>
    BY <1>5 DEF Lose, TypeOK
  <2> QED BY <2>2, <2>3, <2>4, <2>5 DEF TypeOK
<1>6. CASE Repeat
  <2>1. Packets' = Packets /\ Handle(sent, sent \in starts, cc)
    BY <1>6 DEF Repeat, Packets
  <2>2. sent \in Packets /\ (sent \in starts) \in BOOLEAN
    BY <1>6 DEF Repeat, TypeOK
  <2>3. handler' \in Handlers(Packets)
    BY <2>1, <2>2, DispatchType DEF Handle, TypeOK
  <2>4. Append(frames, Supplied(handler)) \in Seq(Seq(Packets))
    BY <1>1 DEF Supplied, TypeOK
  <2>5. frames' \in Seq(Seq(Packets))
    BY <2>1, <2>4 DEF Handle, TypeOK
  <2> QED BY <1>6, <2>1, <2>3, <2>5 DEF Repeat, TypeOK
<1>7. CASE EndOfStream
  <2>1. Packets' = Packets
    BY <1>7 DEF EndOfStream, channel, Packets
  <2>2. Append(frames, Supplied(handler)) \in Seq(Seq(Packets))
    BY <1>1 DEF Supplied, TypeOK
  <2>3. handler' \in Handlers(Packets) /\ frames' \in Seq(Seq(Packets)) /\ eos' \in BOOLEAN
    BY <1>2, <1>7, <2>2 DEF EndOfStream
  <2>4. UNCHANGED <<sent, cc, starts, lost, gap, repeatable>>
    BY <1>7 DEF EndOfStream, channel
  <2> QED BY <2>1, <2>3, <2>4 DEF TypeOK
<1>8. CASE UNCHANGED vars
  BY <1>8 DEF vars, channel, TypeOK, Packets
<1> QED BY <1>4, <1>5, <1>6, <1>7, <1>8 DEF Next

\* The types hold in every reachable state.
THEOREM TypeCorrect == Spec => []TypeOK
  BY TypeInit, TypeNext, PTL DEF Spec

-----------------------------------------------------------------------------

\* With at most CtrMod - 2 packets lost, the counter of the next packet is
\* never the handler's own, and is its successor only if nothing was lost.
LEMMA CounterArithmetic ==
  ASSUME NEW m \in Counters, NEW c \in Counters, NEW g \in Nat, g <= CtrMod - 2,
         c = m + g \/ c = m + g - CtrMod
  PROVE  /\ NextCounter(c) # m
         /\ NextCounter(m) = NextCounter(c) <=> g = 0
         /\ NextCounter(c) = m + (g + 1) \/ NextCounter(c) = m + (g + 1) - CtrMod
<1>1. NextCounter(c) = IF c = CtrMod - 1 THEN 0 ELSE c + 1
  BY Wrap DEF NextCounter
<1>2. NextCounter(m) = IF m = CtrMod - 1 THEN 0 ELSE m + 1
  BY Wrap DEF NextCounter
<1> QED BY <1>1, <1>2, CtrModAssumption DEF Counters

\* A frame of packets already sent keeps its shape when more packets are sent.
LEMMA PrefixStable ==
  ASSUME NEW f \in Seq(Packets), UnitPrefix(f), TypeOK,
         starts' = starts \/ starts' = starts \cup {sent + 1}
  PROVE  UnitPrefix(f)'
<1>1. \A i \in 1 .. Len(f) : f[i] \in Packets /\ f[i] # sent + 1
  BY DEF Packets, TypeOK
<1>2. \A i \in 1 .. Len(f) : f[i] \in starts <=> f[i] \in starts'
  BY <1>1
<1> QED BY <1>2 DEF UnitPrefix

\* Handing the handler's data to the stream keeps every frame a unit prefix.
LEMMA SuppliedStable ==
  ASSUME TypeOK, FramesAreUnitPrefixes,
         starts' = starts \/ starts' = starts \cup {sent + 1},
         frames' = frames \/ frames' = Append(frames, Supplied(handler))
  PROVE  \A k \in 1 .. Len(frames') : UnitPrefix(frames[k])'
<1>1. handler.m_Data \in Seq(Packets) /\ frames \in Seq(Seq(Packets))
  BY DEF TypeOK, Handlers
<1>2. UnitPrefix(handler.m_Data) /\ \A k \in 1 .. Len(frames) : UnitPrefix(frames[k])
  BY DEF FramesAreUnitPrefixes
<1> SUFFICES ASSUME NEW k \in 1 .. Len(frames') PROVE UnitPrefix(frames[k])'
  OBVIOUS
<1>3. \/ k \in 1 .. Len(frames) /\ frames'[k] = frames[k]
      \/ frames'[k] = handler.m_Data
  BY <1>1 DEF Supplied
<1>4. PICK f \in Seq(Packets) : f = frames'[k] /\ UnitPrefix(f)
  BY <1>1, <1>2, <1>3
<1>5. UnitPrefix(f)'
  BY <1>4, PrefixStable
<1> QED BY <1>4, <1>5 DEF UnitPrefix

\* What the arrival of the next packet does to the handler.
LEMMA ArriveOutcome ==
  ASSUME InductiveInv, NEW u \in BOOLEAN, Arrive(u)
  PROVE  /\ ~handler'.m_PayloadStart
         /\ \/ /\ u /\ ~handler'.m_Error
               /\ handler'.m_Counter = cc' /\ handler'.m_Data = <<sent + 1>>
            \/ /\ ~u /\ ~handler.m_Error /\ gap = 0 /\ ~handler'.m_Error
               /\ handler'.m_Counter = cc'
               /\ handler'.m_Data = Append(handler.m_Data, sent + 1)
            \/ /\ ~u /\ (handler.m_Error \/ gap # 0)
               /\ handler'.m_Error /\ handler'.m_Data = handler.m_Data
<1> USE CtrModAssumption, PidTransportAssumption
<1>1. TypeOK /\ ~eos /\ ~handler.m_PayloadStart
  BY DEF InductiveInv, CounterTracksLoss, Arrive
<1>2. sent' = sent + 1 /\ sent \in Nat /\ cc' = (cc + 1) % CtrMod /\ cc' \in Counters
  BY <1>1, Wrap DEF Arrive, Send, TypeOK
<1>3. handler \in Handlers(1 .. sent + 1)
  BY <1>1, <1>2, MorePackets DEF TypeOK, Packets
<1>4. sent + 1 \in 1 .. sent + 1
  BY <1>2
<1>5. handler' = Dispatch(handler, sent + 1, u, cc')
  BY DEF Arrive, Handle
<1>6. Outcome(handler, sent + 1, u, cc', handler')
  <2>1. ~handler.m_PayloadStart /\ cc' \in Counters
    BY <1>1, <1>2
  <2> QED BY <1>3, <1>4, <1>5, <2>1, DispatchOutcomes
<1>7. CASE u \/ handler.m_Error
  <2>1. handler.m_Error => handler.m_Error \/ handler.m_Counter = cc'
    OBVIOUS
  <2> QED BY <1>6, <1>7, <2>1 DEF Outcome
<1>8. CASE ~u /\ ~handler.m_Error
  <2>1. /\ handler.m_Counter \in Counters /\ cc \in Counters
        /\ gap \in Nat /\ gap <= CtrMod - 2
        /\ cc = handler.m_Counter + gap \/ cc = handler.m_Counter + gap - CtrMod
    BY <1>1, <1>8 DEF InductiveInv, CounterTracksLoss, TypeOK, Handlers
  <2>2. handler.m_Counter # cc' /\ (NextCounter(handler.m_Counter) = cc' <=> gap = 0)
    <3>1. cc' = NextCounter(cc)
      BY <1>2 DEF NextCounter
    <3> QED BY <2>1, <3>1, CounterArithmetic
  <2> QED BY <1>6, <1>8, <2>2 DEF Outcome
<1> QED BY <1>7, <1>8

LEMMA InductiveInit == Init => InductiveInv
<1> SUFFICES ASSUME Init PROVE InductiveInv
  OBVIOUS
<1>1. TypeOK
  BY TypeInit
<1>2. CounterTracksLoss /\ FramesAreUnitPrefixes /\ EmptyOnlyFirst
  BY DEF Init, NewHandler, CounterTracksLoss, FramesAreUnitPrefixes, EmptyOnlyFirst, UnitPrefix
<1> QED BY <1>1, <1>2 DEF Init, InductiveInv

\* What is appended comes last.
LEMMA AppendedLast ==
  ASSUME NEW S, NEW s \in Seq(S), NEW e
  PROVE  Append(s, e) # <<>> /\ Append(s, e)[Len(Append(s, e))] = e
<1> Len(Append(s, e)) = Len(s) + 1 /\ Len(s) \in Nat
  OBVIOUS
<1> QED OBVIOUS

LEMMA ArriveKeepsInv ==
  ASSUME InductiveInv, NEW u \in BOOLEAN, Arrive(u)
  PROVE  InductiveInv'
<1> USE CtrModAssumption, PidTransportAssumption
<1>1. TypeOK /\ TypeOK'
  BY TypeNext DEF InductiveInv, Next
<1>2. /\ ~eos /\ ~eos' /\ gap' = 0 /\ sent' = sent + 1
      /\ starts' = IF u THEN starts \cup {sent + 1} ELSE starts
      /\ frames' = IF u THEN Append(frames, Supplied(handler)) ELSE frames
  BY DEF Arrive, Send, Handle
<1>3. handler.m_Data \in Seq(Packets) /\ frames \in Seq(Seq(Packets)) /\ sent \in Nat
      /\ starts \subseteq Packets /\ handler'.m_Counter \in Counters /\ cc' \in Counters
  BY <1>1 DEF TypeOK, Handlers
<1>4. CounterTracksLoss'
  <2>1. CASE u \/ ~handler'.m_Error
    <3>1. \/ handler'.m_Data = <<sent + 1>>
          \/ handler'.m_Data = Append(handler.m_Data, sent + 1)
      BY <2>1, ArriveOutcome
    <3>2. handler'.m_Data # <<>> /\ handler'.m_Data[Len(handler'.m_Data)] = sent + 1
      <4>1. CASE handler'.m_Data = <<sent + 1>>
        BY <4>1
      <4>2. CASE handler'.m_Data = Append(handler.m_Data, sent + 1)
        BY ONLY <1>3, <4>2, AppendedLast
      <4> QED BY <3>1, <4>1, <4>2
    <3>3. handler'.m_Counter = cc'
      BY <2>1, ArriveOutcome
    <3>4. sent' - gap' = sent + 1
      BY <1>2, <1>3
    <3>5. cc' = handler'.m_Counter + gap'
      <4>1. gap' = 0 /\ handler'.m_Counter \in Int
        BY <1>2, <1>3 DEF Counters
      <4> QED BY <3>3, <4>1
    <3> QED BY <3>2, <3>4, <3>5, ArriveOutcome DEF CounterTracksLoss
  <2>2. CASE handler'.m_Error
    BY <2>2, ArriveOutcome DEF CounterTracksLoss
  <2> QED BY <2>1, <2>2
<1>5. UnitPrefix(handler.m_Data)'
  <2>1. CASE u /\ handler'.m_Data = <<sent + 1>>
    BY <1>2, <2>1 DEF UnitPrefix
  <2>2. CASE ~u /\ handler'.m_Data = handler.m_Data
    BY <1>2, <2>2 DEF InductiveInv, FramesAreUnitPrefixes, UnitPrefix
  <2>3. CASE ~u /\ ~handler.m_Error /\ gap = 0
             /\ handler'.m_Data = Append(handler.m_Data, sent + 1)
    <3> DEFINE d == handler.m_Data
    <3>1. d # <<>> /\ d[Len(d)] = sent /\ UnitPrefix(d)
      BY <1>2, <1>3, <2>3 DEF InductiveInv, CounterTracksLoss, FramesAreUnitPrefixes
    <3>2. sent + 1 \notin starts /\ starts' = starts
      BY <1>2, <1>3, <2>3 DEF Packets
    <3> QED BY <1>3, <2>3, <3>1, <3>2 DEF UnitPrefix
  <2> QED BY <2>1, <2>2, <2>3, ArriveOutcome
<1>6. \A k \in 1 .. Len(frames') : UnitPrefix(frames[k])'
  BY <1>1, <1>2, SuppliedStable DEF InductiveInv
<1>7. EmptyOnlyFirst'
  <2>1. CASE ~u
    BY <1>2, <2>1 DEF InductiveInv, EmptyOnlyFirst
  <2>2. CASE u
    BY <1>2, <1>3, <2>2 DEF InductiveInv, EmptyOnlyFirst, Supplied
  <2> QED BY <2>1, <2>2
<1>8. (frames' # <<>> /\ ~eos') => handler'.m_Data # <<>>
  <2>1. CASE handler'.m_Data = <<sent + 1>> \/ handler'.m_Data = Append(handler.m_Data, sent + 1)
    <3>1. <<sent + 1>> # <<>> /\ Append(handler.m_Data, sent + 1) # <<>>
      BY <1>3
    <3> QED BY <2>1, <3>1
  <2>2. CASE ~u /\ handler'.m_Data = handler.m_Data
    BY <1>2, <2>2 DEF InductiveInv
  <2> QED BY <2>1, <2>2, ArriveOutcome
<1> QED BY <1>1, <1>2, <1>4, <1>5, <1>6, <1>7, <1>8
        DEF InductiveInv, FramesAreUnitPrefixes

LEMMA LoseKeepsInv ==
  ASSUME InductiveInv, NEW u \in BOOLEAN, Lose(u)
  PROVE  InductiveInv'
<1> USE CtrModAssumption, PidTransportAssumption
<1>1. TypeOK /\ TypeOK'
  BY TypeNext DEF InductiveInv, Next
<1>2. /\ ~eos /\ ~repeatable' /\ gap' = gap + 1 /\ gap < MaxLoss
      /\ sent' = sent + 1 /\ cc' = (cc + 1) % CtrMod
      /\ starts' = starts \/ starts' = starts \cup {sent + 1}
      /\ handler' = handler /\ frames' = frames /\ eos' = eos
  BY DEF Lose, Send
<1>3. CounterTracksLoss'
  <2>1. ~handler.m_PayloadStart
    BY <1>2 DEF InductiveInv, CounterTracksLoss
  <2>2. CASE handler.m_Error
    BY <1>2, <2>1, <2>2 DEF CounterTracksLoss
  <2>3. CASE ~handler.m_Error
    <3>1. /\ handler.m_Data # <<>>
          /\ handler.m_Data[Len(handler.m_Data)] = sent - gap
          /\ cc = handler.m_Counter + gap \/ cc = handler.m_Counter + gap - CtrMod
      BY <1>2, <2>3 DEF InductiveInv, CounterTracksLoss
    <3>2. handler.m_Counter \in Counters /\ cc \in Counters /\ gap \in Nat
          /\ gap <= CtrMod - 2 /\ sent \in Nat
      BY <1>1, <1>2 DEF TypeOK, Handlers
    <3>3. NextCounter(cc) = handler.m_Counter + (gap + 1)
          \/ NextCounter(cc) = handler.m_Counter + (gap + 1) - CtrMod
      BY ONLY <3>1, <3>2, CounterArithmetic
    <3>4. sent' - gap' = sent - gap
      BY <1>2, <3>2
    <3> QED BY <1>2, <2>1, <3>1, <3>3, <3>4 DEF CounterTracksLoss, NextCounter
  <2> QED BY <2>2, <2>3
<1>4. UnitPrefix(handler.m_Data)'
  <2>1. handler.m_Data \in Seq(Packets) /\ UnitPrefix(handler.m_Data)
    BY <1>1 DEF TypeOK, Handlers, InductiveInv, FramesAreUnitPrefixes
  <2>2. PICK f \in Seq(Packets) : f = handler.m_Data /\ UnitPrefix(f)
    BY <2>1
  <2>3. UnitPrefix(f)'
    BY <1>1, <1>2, <2>2, PrefixStable
  <2> QED BY <1>2, <2>2, <2>3 DEF UnitPrefix
<1>5. \A k \in 1 .. Len(frames') : UnitPrefix(frames[k])'
  BY <1>1, <1>2, SuppliedStable DEF InductiveInv
<1> QED BY <1>1, <1>2, <1>3, <1>4, <1>5 DEF InductiveInv, FramesAreUnitPrefixes, EmptyOnlyFirst

\* A repeated packet is dropped, or is a unit start that begins its unit again.
LEMMA RepeatOutcome ==
  ASSUME InductiveInv, Repeat
  PROVE  /\ sent \in starts =>
              /\ ~handler'.m_PayloadStart /\ ~handler'.m_Error
              /\ handler'.m_Counter = cc /\ handler'.m_Data = <<sent>>
         /\ sent \notin starts => handler' = handler
<1>1. /\ TypeOK /\ ~handler.m_PayloadStart /\ gap = 0
      /\ ~handler.m_Error => \/ cc = handler.m_Counter + gap
                             \/ cc = handler.m_Counter + gap - CtrMod
  BY DEF InductiveInv, CounterTracksLoss, Repeat
<1>2. handler \in Handlers(Packets) /\ sent \in Packets /\ cc \in Counters
      /\ (sent \in starts) \in BOOLEAN
  BY <1>1 DEF TypeOK, Repeat
<1>3. handler' = Dispatch(handler, sent, sent \in starts, cc)
  BY DEF Repeat, Handle
<1>4. Outcome(handler, sent, sent \in starts, cc, handler')
  BY <1>1, <1>2, <1>3, DispatchOutcomes
<1>5. handler.m_Error \/ handler.m_Counter = cc
  BY <1>1, <1>2, CtrModAssumption DEF Handlers, Counters
<1> QED BY <1>4, <1>5 DEF Outcome

LEMMA RepeatKeepsInv ==
  ASSUME InductiveInv, Repeat
  PROVE  InductiveInv'
<1>1. TypeOK /\ TypeOK'
  BY TypeNext DEF InductiveInv, Next
<1>2. /\ ~eos /\ ~repeatable' /\ gap = 0
      /\ UNCHANGED <<sent, cc, starts, gap, eos>>
      /\ frames' = IF sent \in starts THEN Append(frames, Supplied(handler)) ELSE frames
  BY DEF Repeat, Handle, InductiveInv
<1>3. CASE sent \notin starts
  BY <1>1, <1>2, <1>3, RepeatOutcome
     DEF InductiveInv, CounterTracksLoss, FramesAreUnitPrefixes, EmptyOnlyFirst, UnitPrefix
<1>4. CASE sent \in starts
  <2>1. /\ ~handler'.m_PayloadStart /\ ~handler'.m_Error
        /\ handler'.m_Counter = cc /\ handler'.m_Data = <<sent>>
    BY <1>4, RepeatOutcome
  <2>2. handler'.m_Data # <<>> /\ handler'.m_Data[Len(handler'.m_Data)] = sent
    BY <2>1
  <2>3. sent' - gap' = sent /\ cc' = handler'.m_Counter + gap'
    BY <1>1, <1>2, <2>1 DEF TypeOK, Counters
  <2>4. CounterTracksLoss'
    BY <2>1, <2>2, <2>3 DEF CounterTracksLoss
  <2>5. UnitPrefix(handler.m_Data)'
    BY <1>2, <1>4, <2>1 DEF UnitPrefix
  <2>6. \A k \in 1 .. Len(frames') : UnitPrefix(frames[k])'
    BY <1>1, <1>2, SuppliedStable DEF InductiveInv
  <2>7. frames \in Seq(Seq(Packets))
    BY <1>1 DEF TypeOK
  <2>8. EmptyOnlyFirst'
    BY <1>2, <1>4, <2>7 DEF InductiveInv, EmptyOnlyFirst, Supplied
  <2> QED BY <1>1, <1>2, <2>2, <2>4, <2>5, <2>6, <2>8 DEF InductiveInv, FramesAreUnitPrefixes
<1> QED BY <1>3, <1>4

LEMMA EndKeepsInv ==
  ASSUME InductiveInv, EndOfStream
  PROVE  InductiveInv'
<1>1. TypeOK /\ TypeOK'
  BY TypeNext DEF InductiveInv, Next
<1>2. /\ ~eos /\ eos' /\ handler' = Reset(handler)
      /\ UNCHANGED <<sent, starts, gap, repeatable>>
      /\ frames' = Append(frames, Supplied(handler))
  BY DEF EndOfStream, channel
<1>3. frames \in Seq(Seq(Packets)) /\ handler'.m_Data = <<>>
  BY <1>1, <1>2 DEF TypeOK, Reset, Handlers
<1>4. \A k \in 1 .. Len(frames') : UnitPrefix(frames[k])'
  BY <1>1, <1>2, SuppliedStable DEF InductiveInv
<1>5. UnitPrefix(handler.m_Data)'
  BY <1>3 DEF UnitPrefix
<1>6. EmptyOnlyFirst'
  BY <1>2, <1>3 DEF InductiveInv, EmptyOnlyFirst, Supplied
<1>7. CounterTracksLoss'
  BY <1>2 DEF CounterTracksLoss
<1> QED BY <1>1, <1>2, <1>4, <1>5, <1>6, <1>7 DEF InductiveInv, FramesAreUnitPrefixes

\* InductiveInv holds initially and every step keeps it.
THEOREM Invariance == Spec => []InductiveInv
<1>1. InductiveInv /\ [Next]_vars => InductiveInv'
  <2> SUFFICES ASSUME InductiveInv, [Next]_vars PROVE InductiveInv'
    OBVIOUS
  <2>1. CASE \E u \in BOOLEAN : Arrive(u)
    BY <2>1, ArriveKeepsInv
  <2>2. CASE \E u \in BOOLEAN : Lose(u)
    BY <2>2, LoseKeepsInv
  <2>3. CASE Repeat
    BY <2>3, RepeatKeepsInv
  <2>4. CASE EndOfStream
    BY <2>4, EndKeepsInv
  <2>5. CASE UNCHANGED vars
    BY <2>5 DEF vars, channel, InductiveInv, TypeOK, CounterTracksLoss,
                FramesAreUnitPrefixes, EmptyOnlyFirst, UnitPrefix, Packets
  <2> QED BY <2>1, <2>2, <2>3, <2>4, <2>5 DEF Next
<1> QED BY <1>1, InductiveInit, PTL DEF Spec

\* No hole and no packet of another unit ever gets into a frame.
THEOREM FramesCorrect == Spec => []FramesAreUnitPrefixes
  BY Invariance, PTL DEF InductiveInv

\* Only a PID's first frame can be empty.
THEOREM EmptyFramesCorrect == Spec => []EmptyOnlyFirst
  BY Invariance, PTL DEF InductiveInv

\* A packet inside a unit that arrives twice has no effect the second time.
THEOREM RepeatsIgnored == Spec => RepeatIgnored
<1>1. InductiveInv /\ [Next]_vars =>
        [(sent' = sent /\ eos' = eos /\ sent \notin starts) => UNCHANGED <<handler, frames>>]_vars
  <2> SUFFICES ASSUME InductiveInv, Next, sent' = sent, eos' = eos, sent \notin starts
               PROVE  UNCHANGED <<handler, frames>>
    OBVIOUS
  <2>1. ASSUME NEW u \in BOOLEAN, Send(u) PROVE FALSE
    BY <2>1 DEF Send, InductiveInv, TypeOK
  <2>2. Repeat
    BY <2>1 DEF Next, Arrive, Lose, EndOfStream
  <2> QED BY <2>2, RepeatOutcome DEF Repeat, Handle
<1> QED BY <1>1, Invariance, PTL DEF Spec, RepeatIgnored

-----------------------------------------------------------------------------
(* what the stream has got so far *)

PacketsIn(f) == {f[i] : i \in 1 .. Len(f)}

LEMMA PacketsInAppend ==
  ASSUME NEW S, NEW f \in Seq(S), NEW n
  PROVE  PacketsIn(Append(f, n)) = PacketsIn(f) \cup {n}
<1> DEFINE g == Append(f, n)
<1>1. Len(f) \in Nat /\ Len(g) = Len(f) + 1 /\ g[Len(f) + 1] = n
      /\ \A i \in 1 .. Len(f) : g[i] = f[i]
  OBVIOUS
<1> HIDE DEF g
<1>2. PacketsIn(g) \subseteq PacketsIn(f) \cup {n}
  BY <1>1 DEF PacketsIn
<1>3. PacketsIn(f) \subseteq PacketsIn(g)
  BY <1>1 DEF PacketsIn
<1>4. n \in PacketsIn(g)
  <2>1. Len(f) + 1 \in 1 .. Len(g)
    BY <1>1
  <2> QED BY <1>1, <2>1 DEF PacketsIn
<1> QED BY <1>2, <1>3, <1>4 DEF g

LEMMA PacketsInOne == ASSUME NEW n PROVE PacketsIn(<<n>>) = {n}
  BY DEF PacketsIn

\* Frames stay; one more may come behind them.
LEMMA FramesGrow ==
  ASSUME TypeOK, NEW d, frames' = frames \/ frames' = Append(frames, d)
  PROVE  /\ Len(frames) \in Nat
         /\ \A k \in 1 .. Len(frames) : k \in 1 .. Len(frames') /\ frames'[k] = frames[k]
         /\ frames' # frames =>
              Len(frames') = Len(frames) + 1 /\ frames'[Len(frames) + 1] = d
<1>1. frames \in Seq(Seq(Packets))
  BY DEF TypeOK
<1>2. Len(frames) \in Nat
  BY <1>1
<1>3. CASE frames' = frames
  BY <1>2, <1>3
<1>4. CASE frames' = Append(frames, d)
  BY <1>1, <1>4
<1> QED BY <1>2, <1>3, <1>4

\* The packet just sent belongs to the open unit, or begins the next, or follows
\* a start that was lost.
LEMMA UnitGrows ==
  ASSUME TypeOK, NEW u \in BOOLEAN, Send(u), NEW s \in starts
  PROVE  UnitOf(s)' = IF u \/ \E t \in starts : t > s THEN UnitOf(s)
                      ELSE UnitOf(s) \cup {sent + 1}
<1>1. sent \in Nat /\ starts \subseteq 1 .. sent /\ s \in 1 .. sent
      /\ sent' = sent + 1 /\ starts' = IF u THEN starts \cup {sent + 1} ELSE starts
  BY DEF TypeOK, Packets, Send
<1>2. ASSUME NEW n \in 1 .. sent
      PROVE  n \in UnitOf(s)' <=> n \in UnitOf(s)
  <2>1. \A t \in (s + 1) .. n : t # sent + 1
    BY <1>1, <1>2
  <2>2. n \in 1 .. sent'
    BY <1>1
  <2> QED BY <1>1, <2>1, <2>2 DEF UnitOf, Packets
<1>3. sent + 1 \in UnitOf(s)' <=> ~u /\ ~\E t \in starts : t > s
  <2>1. sent + 1 \in UnitOf(s)' <=> \A t \in (s + 1) .. (sent + 1) : t \notin starts'
    BY <1>1 DEF UnitOf, Packets
  <2>2. \A t \in starts : t > s <=> t \in (s + 1) .. (sent + 1)
    BY <1>1
  <2>3. sent + 1 \in (s + 1) .. (sent + 1)
    BY <1>1
  <2> QED BY <1>1, <2>1, <2>2, <2>3
<1>4. UnitOf(s) \subseteq 1 .. sent /\ UnitOf(s)' \subseteq 1 .. (sent + 1)
  BY <1>1 DEF UnitOf, Packets
<1>5. 1 .. (sent + 1) = (1 .. sent) \cup {sent + 1}
  BY <1>1
<1> QED BY <1>2, <1>3, <1>4, <1>5

\* A unit that begins with the packet just sent is that packet.
LEMMA UnitBegins ==
  ASSUME TypeOK, Send(TRUE), NEW s, s = sent + 1
  PROVE  UnitOf(s)' = {s}
<1>1. sent \in Nat /\ sent' = sent + 1
  BY DEF Send, TypeOK
<1>2. 1 .. sent' = 1 .. s
  BY <1>1
<1>3. ASSUME NEW n \in 1 .. s PROVE (n >= s /\ \A t \in (s + 1) .. n : t \notin starts') <=> n = s
  BY <1>1, <1>3
<1>4. s \in 1 .. s
  BY <1>1
<1> QED BY <1>2, <1>3, <1>4 DEF UnitOf, Packets

-----------------------------------------------------------------------------
(* order *)

\* Whether or not the handler's data become the next frame, the order is kept.
LEMMA OrderStep ==
  ASSUME TypeOK, FramesInOrder, DataComesNext,
         frames' = frames \/ frames' = Append(frames, handler.m_Data)
  PROVE  FramesInOrder'
<1> DEFINE d == handler.m_Data
<1>1. /\ Len(frames) \in Nat
      /\ \A k \in 1 .. Len(frames) : frames'[k] = frames[k]
      /\ frames' # frames => Len(frames') = Len(frames) + 1 /\ frames'[Len(frames) + 1] = d
  BY FramesGrow
<1> SUFFICES ASSUME NEW j \in 1 .. Len(frames'), NEW k \in 1 .. Len(frames'), j < k,
                    frames'[j] # <<>>, frames'[k] # <<>>
             PROVE  \/ frames'[j][Len(frames'[j])] < frames'[k][1]
                    \/ k = j + 1 /\ frames'[j] = <<frames'[k][1]>>
  BY DEF FramesInOrder
<1>2. j \in 1 .. Len(frames)
  BY <1>1
<1>3. CASE k \in 1 .. Len(frames)
  BY <1>1, <1>2, <1>3 DEF FramesInOrder
<1>4. CASE k \notin 1 .. Len(frames)
  <2>1. k = Len(frames) + 1 /\ frames'[k] = d /\ frames'[j] = frames[j]
    BY <1>1, <1>2, <1>4
  <2>2. \/ frames[j][Len(frames[j])] < d[1]
        \/ j = Len(frames) /\ frames[j] = <<d[1]>>
    BY <1>2, <2>1 DEF DataComesNext
  <2> QED BY <2>1, <2>2
<1> QED BY <1>3, <1>4

\* A frame holds packets that have been sent.
LEMMA FramesSent ==
  ASSUME TypeOK, frames' = frames \/ frames' = Append(frames, handler.m_Data),
         NEW j \in 1 .. Len(frames'), frames'[j] # <<>>
  PROVE  frames'[j][Len(frames'[j])] \in Packets
<1>1. frames \in Seq(Seq(Packets)) /\ handler.m_Data \in Seq(Packets)
  BY DEF TypeOK, Handlers
<1>2. frames' \in Seq(Seq(Packets))
  BY <1>1
<1>3. frames'[j] \in Seq(Packets)
  BY <1>2
<1> QED BY <1>3

\* A packet kept in the handler leaves the first one first.
LEMMA FirstStays ==
  ASSUME NEW S, NEW d \in Seq(S), d # <<>>, NEW n
  PROVE  Append(d, n)[1] = d[1]
<1>1. Len(d) \in Nat /\ Len(d) > 0
  OBVIOUS
<1> QED BY <1>1

LEMMA ArriveKeepsOrder ==
  ASSUME HistoryInv, NEW u \in BOOLEAN, Arrive(u)
  PROVE  FramesInOrder' /\ DataComesNext' /\ StartIsFresh'
<1>1. InductiveInv /\ TypeOK /\ FramesInOrder /\ DataComesNext
  BY DEF HistoryInv, InductiveInv
<1>2. /\ sent' = sent + 1 /\ sent \in Nat /\ ~eos
      /\ starts' = IF u THEN starts \cup {sent + 1} ELSE starts
      /\ starts \subseteq 1 .. sent /\ Packets = 1 .. sent
      /\ frames' = IF u THEN Append(frames, handler.m_Data) ELSE frames
  BY <1>1 DEF Arrive, Send, Handle, Supplied, TypeOK, Packets
<1>3. FramesInOrder'
  BY <1>1, <1>2, OrderStep
<1>4. CASE u
  <2>1. handler'.m_Data = <<sent + 1>>
    BY <1>1, <1>4, ArriveOutcome
  <2>2. \A j \in 1 .. Len(frames') :
          frames'[j] # <<>> => frames'[j][Len(frames'[j])] < sent + 1
    <3> SUFFICES ASSUME NEW j \in 1 .. Len(frames'), frames'[j] # <<>>
                 PROVE  frames'[j][Len(frames'[j])] < sent + 1
      OBVIOUS
    <3>1. frames'[j][Len(frames'[j])] \in Packets
      BY <1>1, <1>2, FramesSent
    <3> QED BY <1>2, <3>1
  <2>3. DataComesNext'
    BY <2>1, <2>2 DEF DataComesNext
  <2>4. StartIsFresh'
    BY <1>2, <2>1, <2>2 DEF StartIsFresh
  <2> QED BY <1>3, <2>3, <2>4
<1>5. CASE ~u
  <2>1. frames' = frames /\ starts' = starts /\ sent + 1 \notin starts
    BY <1>2, <1>5
  <2>2. StartIsFresh'
    BY <1>2, <2>1 DEF StartIsFresh
  <2>3. \/ handler'.m_Data = handler.m_Data
        \/ ~handler.m_Error /\ handler'.m_Data = Append(handler.m_Data, sent + 1)
    BY <1>1, <1>5, ArriveOutcome
  <2>4. handler'.m_Data # <<>> => handler.m_Data # <<>> /\ handler'.m_Data[1] = handler.m_Data[1]
    <3>1. ~handler.m_Error => handler.m_Data # <<>>
      BY <1>1, <1>2 DEF InductiveInv, CounterTracksLoss
    <3>2. handler.m_Data \in Seq(Packets)
      BY <1>1 DEF TypeOK, Handlers
    <3> QED BY <2>3, <3>1, <3>2, FirstStays
  <2>5. DataComesNext'
    BY <1>1, <2>1, <2>4 DEF DataComesNext
  <2> QED BY <1>3, <2>2, <2>5
<1> QED BY <1>4, <1>5

LEMMA RepeatKeepsOrder ==
  ASSUME HistoryInv, Repeat
  PROVE  FramesInOrder' /\ DataComesNext' /\ StartIsFresh'
<1>1. InductiveInv /\ TypeOK /\ FramesInOrder /\ DataComesNext /\ StartIsFresh
  BY DEF HistoryInv, InductiveInv
<1>2. /\ sent' = sent /\ starts' = starts /\ ~eos /\ repeatable /\ ~repeatable'
      /\ frames' = IF sent \in starts THEN Append(frames, handler.m_Data) ELSE frames
  BY DEF Repeat, Handle, Supplied
<1>3. FramesInOrder' /\ StartIsFresh'
  BY <1>1, <1>2, OrderStep DEF StartIsFresh
<1>4. CASE sent \notin starts
  BY <1>1, <1>2, <1>3, <1>4, RepeatOutcome DEF DataComesNext
<1>5. CASE sent \in starts
  <2>1. handler.m_Data = <<sent>> /\ handler'.m_Data = <<sent>>
        /\ \A j \in 1 .. Len(frames) : frames[j] # <<>> => frames[j][Len(frames[j])] < sent
    BY <1>1, <1>2, <1>5, RepeatOutcome DEF StartIsFresh
  <2>2. frames \in Seq(Seq(Packets))
    BY <1>1 DEF TypeOK
  <2>3. /\ Len(frames') = Len(frames) + 1 /\ frames'[Len(frames) + 1] = <<sent>>
        /\ \A j \in 1 .. Len(frames) : frames'[j] = frames[j]
        /\ Len(frames) \in Nat
    BY <1>2, <1>5, <2>1, <2>2
  <2>4. DataComesNext'
    BY <2>1, <2>3 DEF DataComesNext
  <2> QED BY <1>3, <2>4
<1> QED BY <1>4, <1>5

LEMMA EndKeepsOrder ==
  ASSUME HistoryInv, EndOfStream
  PROVE  FramesInOrder' /\ DataComesNext' /\ StartIsFresh'
<1>1. TypeOK /\ FramesInOrder /\ DataComesNext
  BY DEF HistoryInv, InductiveInv
<1>2. frames' = Append(frames, handler.m_Data) /\ eos' /\ handler'.m_Data = <<>>
  BY <1>1 DEF EndOfStream, Supplied, Reset, TypeOK, Handlers
<1> QED BY <1>1, <1>2, OrderStep DEF DataComesNext, StartIsFresh

-----------------------------------------------------------------------------
(* whole units *)

\* A unit that is closed and was delivered stays delivered.
LEMMA DeliveredStays ==
  ASSUME TypeOK, frames' = frames \/ frames' = Append(frames, handler.m_Data),
         NEW U, \E k \in 1 .. Len(frames) : PacketsIn(frames[k]) = U
  PROVE  \E k \in 1 .. Len(frames') : PacketsIn(frames'[k]) = U
  BY FramesGrow

\* What the handler collected becomes a frame.
LEMMA CollectedDelivered ==
  ASSUME TypeOK, frames' = Append(frames, handler.m_Data)
  PROVE  \E k \in 1 .. Len(frames') : PacketsIn(frames'[k]) = PacketsIn(handler.m_Data)
<1>1. frames \in Seq(Seq(Packets))
  BY DEF TypeOK
<1>2. Len(frames) + 1 \in 1 .. Len(frames') /\ frames'[Len(frames) + 1] = handler.m_Data
  BY <1>1
<1> QED BY <1>2

\* The two invariants about units, unit by unit.
UnitSafe(s) ==
  UnitOf(s) \cap lost = {} =>
    /\ Closed(s) => \E k \in 1 .. Len(frames) : PacketsIn(frames[k]) = UnitOf(s)
    /\ ~Closed(s) => /\ PacketsIn(handler.m_Data) = UnitOf(s)
                     /\ IF \E t \in starts : t > s THEN gap > 0 \/ handler.m_Error
                                                   ELSE gap = 0 /\ ~handler.m_Error

LEMMA UnitsSafe ==
  IntactUnitsDelivered /\ OpenUnitsCollected <=> \A s \in starts : UnitSafe(s)
  BY DEF IntactUnitsDelivered, OpenUnitsCollected, UnitSafe, PacketsIn

LEMMA ArriveKeepsUnits ==
  ASSUME HistoryInv, NEW u \in BOOLEAN, Arrive(u), NEW s \in starts'
  PROVE  UnitSafe(s)'
<1>1. /\ InductiveInv /\ TypeOK /\ \A r \in starts : UnitSafe(r)
  BY UnitsSafe DEF HistoryInv, InductiveInv
<1>2. /\ sent' = sent + 1 /\ sent \in Nat /\ ~eos /\ ~eos' /\ gap' = 0 /\ lost' = lost
      /\ starts' = IF u THEN starts \cup {sent + 1} ELSE starts
      /\ starts \subseteq 1 .. sent /\ lost \subseteq 1 .. sent /\ Send(u)
      /\ frames' = IF u THEN Append(frames, handler.m_Data) ELSE frames
  BY <1>1 DEF Arrive, Send, Handle, Supplied, TypeOK, Packets
<1>3. CASE s = sent + 1
  <2>1. u
    BY <1>2, <1>3
  <2>2. handler'.m_Data = <<sent + 1>> /\ ~handler'.m_Error
    BY <1>1, <2>1, ArriveOutcome
  <2>3. UnitOf(s)' = {sent + 1}
    BY <1>1, <1>2, <1>3, <2>1, UnitBegins
  <2>4. PacketsIn(handler.m_Data)' = {sent + 1}
    BY <2>2, PacketsInOne DEF PacketsIn
  <2>5. ~(\E t \in starts' : t > s) /\ ~Closed(s)'
    BY <1>2, <1>3 DEF Closed
  <2> QED BY <1>2, <2>2, <2>3, <2>4, <2>5 DEF UnitSafe
<1>4. CASE s # sent + 1
  <2>1. s \in starts /\ s \in 1 .. sent
    BY <1>2, <1>4
  <2>2. UnitSafe(s)
    BY <1>1, <2>1
  <2>3. UnitOf(s)' = IF u \/ \E t \in starts : t > s THEN UnitOf(s)
                     ELSE UnitOf(s) \cup {sent + 1}
    BY <1>1, <1>2, <2>1, UnitGrows
  <2>4. CASE u
    <3>1. Closed(s)' /\ UnitOf(s)' = UnitOf(s)
      <4>1. sent + 1 \in starts' /\ sent + 1 > s /\ sent + 1 \notin lost'
        BY <1>2, <2>1, <2>4
      <4> QED BY <2>3, <2>4, <4>1 DEF Closed
    <3>2. UnitOf(s) \cap lost = {} =>
            \E k \in 1 .. Len(frames') : PacketsIn(frames'[k]) = UnitOf(s)
      BY <1>1, <1>2, <2>2, <2>4, DeliveredStays, CollectedDelivered DEF UnitSafe
    <3> QED BY <1>2, <3>1, <3>2 DEF UnitSafe, PacketsIn
  <2>5. CASE ~u
    <3>1. starts' = starts /\ frames' = frames /\ Closed(s)' = Closed(s)
      BY <1>2, <2>5 DEF Closed
    <3>2. CASE Closed(s) \/ \E t \in starts : t > s
      <4>1. \E t \in starts : t > s
        BY <1>2, <3>2 DEF Closed
      <4>2. UnitOf(s)' = UnitOf(s)
        BY <2>3, <4>1
      <4>3. CASE Closed(s)
        BY <1>2, <2>2, <3>1, <4>2, <4>3 DEF UnitSafe, PacketsIn
      <4>4. CASE ~Closed(s)
        <5>1. ASSUME UnitOf(s) \cap lost = {}
              PROVE  PacketsIn(handler.m_Data) = UnitOf(s) /\ (gap > 0 \/ handler.m_Error)
          BY <2>2, <4>1, <4>4, <5>1 DEF UnitSafe
        <5>2. ASSUME gap > 0 \/ handler.m_Error
              PROVE  handler'.m_Error /\ handler'.m_Data = handler.m_Data
          <6>1. ~(~handler.m_Error /\ gap = 0)
            BY <5>2
          <6> QED BY <1>1, <2>5, <6>1, ArriveOutcome
        <5> QED BY <1>2, <3>1, <4>1, <4>2, <4>4, <5>1, <5>2 DEF UnitSafe, PacketsIn
      <4> QED BY <4>3, <4>4
    <3>3. CASE ~Closed(s) /\ ~\E t \in starts : t > s
      <4> SUFFICES ASSUME UnitOf(s)' \cap lost' = {}
                   PROVE  PacketsIn(handler.m_Data)' = UnitOf(s)' /\ gap' = 0 /\ ~handler'.m_Error
        BY <3>1, <3>3 DEF UnitSafe
      <4>1. UnitOf(s)' = UnitOf(s) \cup {sent + 1} /\ UnitOf(s) \cap lost = {}
        BY <1>2, <2>3, <2>5, <3>3
      <4>2. PacketsIn(handler.m_Data) = UnitOf(s) /\ gap = 0 /\ ~handler.m_Error
        BY <2>2, <3>3, <4>1 DEF UnitSafe
      <4>3. handler'.m_Data = Append(handler.m_Data, sent + 1) /\ ~handler'.m_Error
        BY <1>1, <2>5, <4>2, ArriveOutcome
      <4>4. handler.m_Data \in Seq(Packets)
        BY <1>1 DEF TypeOK, Handlers
      <4>5. PacketsIn(handler'.m_Data) = UnitOf(s) \cup {sent + 1}
        BY <4>2, <4>3, <4>4, PacketsInAppend
      <4> QED BY <1>2, <4>1, <4>3, <4>5 DEF PacketsIn
    <3> QED BY <3>2, <3>3
  <2> QED BY <2>4, <2>5
<1> QED BY <1>3, <1>4

LEMMA LoseKeepsUnits ==
  ASSUME HistoryInv, NEW u \in BOOLEAN, Lose(u), NEW s \in starts'
  PROVE  UnitSafe(s)'
<1>1. /\ InductiveInv /\ TypeOK /\ \A r \in starts : UnitSafe(r)
  BY UnitsSafe DEF HistoryInv, InductiveInv
<1>2. /\ sent' = sent + 1 /\ sent \in Nat /\ gap' > 0 /\ lost' = lost \cup {sent + 1}
      /\ starts' = IF u THEN starts \cup {sent + 1} ELSE starts
      /\ starts \subseteq 1 .. sent /\ lost \subseteq 1 .. sent /\ Send(u)
      /\ frames' = frames /\ handler' = handler /\ eos' = eos
  BY <1>1, PidTransportAssumption DEF Lose, Send, TypeOK, Packets
<1>3. CASE s = sent + 1
  <2>1. u
    BY <1>2, <1>3
  <2>2. UnitOf(s)' = {sent + 1}
    BY <1>1, <1>2, <1>3, <2>1, UnitBegins
  <2> QED BY <1>2, <2>2 DEF UnitSafe
<1>4. CASE s # sent + 1
  <2>1. s \in starts /\ s \in 1 .. sent
    BY <1>2, <1>4
  <2>2. UnitSafe(s)
    BY <1>1, <2>1
  <2>3. UnitOf(s)' = IF u \/ \E t \in starts : t > s THEN UnitOf(s)
                     ELSE UnitOf(s) \cup {sent + 1}
    BY <1>1, <1>2, <2>1, UnitGrows
  <2>4. Closed(s)' = Closed(s)
    BY <1>2 DEF Closed
  <2>5. CASE u \/ \E t \in starts : t > s
    <3>1. UnitOf(s)' = UnitOf(s) /\ sent + 1 \notin UnitOf(s)
      BY <1>2, <2>3, <2>5 DEF UnitOf, Packets
    <3>2. \E t \in starts' : t > s
      BY <1>2, <2>1, <2>5
    <3>3. UnitOf(s)' \cap lost' = UnitOf(s) \cap lost
      BY <1>2, <3>1
    <3> QED BY <1>2, <2>2, <2>4, <3>1, <3>2, <3>3 DEF UnitSafe, PacketsIn
  <2>6. CASE ~u /\ ~\E t \in starts : t > s
    <3>1. sent + 1 \in UnitOf(s)' \cap lost'
      BY <1>2, <2>3, <2>6
    <3> QED BY <3>1 DEF UnitSafe
  <2> QED BY <2>5, <2>6
<1> QED BY <1>3, <1>4

LEMMA RepeatKeepsUnits ==
  ASSUME HistoryInv, Repeat, NEW s \in starts'
  PROVE  UnitSafe(s)'
<1>1. /\ InductiveInv /\ TypeOK /\ \A r \in starts : UnitSafe(r)
      /\ gap = 0 => sent \notin lost
  BY UnitsSafe DEF HistoryInv, InductiveInv
<1>2. /\ sent' = sent /\ starts' = starts /\ lost' = lost /\ gap' = gap /\ eos' = eos
      /\ ~eos /\ sent \in Nat /\ starts \subseteq 1 .. sent /\ gap = 0
      /\ frames' = IF sent \in starts THEN Append(frames, handler.m_Data) ELSE frames
  BY <1>1 DEF Repeat, Handle, Supplied, InductiveInv, TypeOK, Packets
<1>3. UnitSafe(s) /\ UnitOf(s)' = UnitOf(s) /\ Closed(s)' = Closed(s)
  BY <1>1, <1>2 DEF UnitOf, Closed, Packets
<1>4. CASE sent \notin starts
  BY <1>1, <1>2, <1>3, <1>4, RepeatOutcome DEF UnitSafe, PacketsIn
<1>5. CASE sent \in starts
  <2>1. handler'.m_Data = <<sent>> /\ ~handler'.m_Error
    BY <1>1, <1>5, RepeatOutcome
  <2>2. CASE s = sent
    <3>1. ~(\E t \in starts : t > s) /\ ~Closed(s)
      BY <1>2, <2>2 DEF Closed
    <3>2. UnitOf(s) = {sent}
      BY <1>2, <1>5, <2>2 DEF UnitOf, Packets
    <3>3. PacketsIn(handler.m_Data)' = {sent}
      BY <2>1, PacketsInOne DEF PacketsIn
    <3> QED BY <1>2, <1>3, <2>1, <3>1, <3>2, <3>3 DEF UnitSafe
  <2>3. CASE s # sent
    <3>1. Closed(s)
      BY <1>1, <1>2, <1>5, <2>3 DEF Closed
    <3>2. UnitOf(s) \cap lost = {} =>
            \E k \in 1 .. Len(frames) : PacketsIn(frames[k]) = UnitOf(s)
      BY <1>3, <3>1 DEF UnitSafe
    <3>3. UnitOf(s) \cap lost = {} =>
            \E k \in 1 .. Len(frames') : PacketsIn(frames'[k]) = UnitOf(s)
      BY <1>1, <1>2, <3>2, DeliveredStays
    <3> QED BY <1>2, <1>3, <3>1, <3>3 DEF UnitSafe, PacketsIn
  <2> QED BY <2>2, <2>3
<1> QED BY <1>4, <1>5

LEMMA EndKeepsUnits ==
  ASSUME HistoryInv, EndOfStream, NEW s \in starts'
  PROVE  UnitSafe(s)'
<1>1. TypeOK /\ \A r \in starts : UnitSafe(r)
  BY UnitsSafe DEF HistoryInv, InductiveInv
<1>2. /\ sent' = sent /\ starts' = starts /\ lost' = lost /\ eos'
      /\ frames' = Append(frames, handler.m_Data)
  BY DEF EndOfStream, channel, Supplied
<1>3. UnitSafe(s) /\ UnitOf(s)' = UnitOf(s) /\ Closed(s)'
  BY <1>1, <1>2 DEF UnitOf, Closed, Packets
<1>4. UnitOf(s) \cap lost = {} =>
        \E k \in 1 .. Len(frames') : PacketsIn(frames'[k]) = UnitOf(s)
  BY <1>1, <1>2, <1>3, DeliveredStays, CollectedDelivered DEF UnitSafe
<1> QED BY <1>2, <1>3, <1>4 DEF UnitSafe, PacketsIn

-----------------------------------------------------------------------------

LEMMA HistoryInit == Init => HistoryInv
<1> SUFFICES ASSUME Init PROVE HistoryInv
  OBVIOUS
<1>1. InductiveInv
  BY InductiveInit
<1>2. starts = {} /\ lost = {} /\ Len(frames) = 0 /\ handler.m_Data = <<>>
  BY DEF Init, NewHandler
<1> QED BY <1>1, <1>2 DEF HistoryInv, IntactUnitsDelivered, OpenUnitsCollected,
              FramesInOrder, DataComesNext, StartIsFresh

LEMMA UnitsSafePrimed ==
  ASSUME \A s \in starts' : UnitSafe(s)'
  PROVE  IntactUnitsDelivered' /\ OpenUnitsCollected'
  BY DEF IntactUnitsDelivered, OpenUnitsCollected, UnitSafe, PacketsIn

\* HistoryInv holds initially and every step keeps it.
THEOREM HistoryInvariance == Spec => []HistoryInv
<1>1. HistoryInv /\ [Next]_vars => HistoryInv'
  <2> SUFFICES ASSUME HistoryInv, [Next]_vars PROVE HistoryInv'
    OBVIOUS
  <2>1. InductiveInv /\ TypeOK /\ sent \in Nat /\ lost \subseteq 1 .. sent
    BY DEF HistoryInv, InductiveInv, TypeOK, Packets
  <2>2. ASSUME NEW u \in BOOLEAN, Arrive(u) PROVE HistoryInv'
    <3>1. InductiveInv'
      BY <2>1, <2>2, ArriveKeepsInv
    <3>2. FramesInOrder' /\ DataComesNext' /\ StartIsFresh'
      BY <2>2, ArriveKeepsOrder
    <3>3. IntactUnitsDelivered' /\ OpenUnitsCollected'
      BY <2>2, ArriveKeepsUnits, UnitsSafePrimed
    <3>4. sent' \notin lost'
      BY <2>1, <2>2 DEF Arrive, Send
    <3> QED BY <3>1, <3>2, <3>3, <3>4 DEF HistoryInv
  <2>3. ASSUME NEW u \in BOOLEAN, Lose(u) PROVE HistoryInv'
    <3>1. InductiveInv'
      BY <2>1, <2>3, LoseKeepsInv
    <3>2. FramesInOrder' /\ DataComesNext' /\ StartIsFresh'
      BY <2>3 DEF Lose, HistoryInv, FramesInOrder, DataComesNext, StartIsFresh
    <3>3. IntactUnitsDelivered' /\ OpenUnitsCollected'
      BY <2>3, LoseKeepsUnits, UnitsSafePrimed
    <3>4. gap' # 0
      BY <2>1, <2>3 DEF Lose, InductiveInv, TypeOK
    <3> QED BY <3>1, <3>2, <3>3, <3>4 DEF HistoryInv
  <2>4. CASE Repeat
    <3>1. InductiveInv'
      BY <2>1, <2>4, RepeatKeepsInv
    <3>2. FramesInOrder' /\ DataComesNext' /\ StartIsFresh'
      BY <2>4, RepeatKeepsOrder
    <3>3. IntactUnitsDelivered' /\ OpenUnitsCollected'
      BY <2>4, RepeatKeepsUnits, UnitsSafePrimed
    <3> QED BY <2>4, <3>1, <3>2, <3>3 DEF HistoryInv, Repeat
  <2>5. CASE EndOfStream
    <3>1. InductiveInv'
      BY <2>1, <2>5, EndKeepsInv
    <3>2. FramesInOrder' /\ DataComesNext' /\ StartIsFresh'
      BY <2>5, EndKeepsOrder
    <3>3. IntactUnitsDelivered' /\ OpenUnitsCollected'
      BY <2>5, EndKeepsUnits, UnitsSafePrimed
    <3> QED BY <2>5, <3>1, <3>2, <3>3 DEF HistoryInv, EndOfStream, channel
  <2>6. CASE UNCHANGED vars
    <3>1. InductiveInv'
      BY <2>1, <2>6 DEF vars, channel, InductiveInv, TypeOK, CounterTracksLoss,
                   FramesAreUnitPrefixes, EmptyOnlyFirst, UnitPrefix, Packets
    <3>2. FramesInOrder' /\ DataComesNext' /\ StartIsFresh'
      BY <2>6 DEF vars, channel, HistoryInv, FramesInOrder, DataComesNext, StartIsFresh
    <3>3. IntactUnitsDelivered' /\ OpenUnitsCollected'
      BY <2>6 DEF vars, channel, HistoryInv, IntactUnitsDelivered, OpenUnitsCollected,
                  UnitOf, Closed, Packets
    <3> QED BY <2>6, <3>1, <3>2, <3>3 DEF HistoryInv, vars, channel
  <2> QED BY <2>2, <2>3, <2>4, <2>5, <2>6 DEF Next
<1> QED BY <1>1, HistoryInit, PTL DEF Spec

\* A unit none of whose packets was lost reaches the stream whole, whatever
\* happened to the units before and after it.
THEOREM IntactUnitsReachStream == Spec => []IntactUnitsDelivered
  BY HistoryInvariance, PTL DEF HistoryInv

\* Frames come in sending order, and only a repeated unit start comes twice.
THEOREM FramesOrdered == Spec => []FramesInOrder
  BY HistoryInvariance, PTL DEF HistoryInv

=============================================================================
