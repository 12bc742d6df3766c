-------------------------- MODULE TsFramingProofs --------------------------
(***************************************************************************)
(* Proofs about TsFraming for every packet and buffer size, every stream   *)
(* and every way to cut it into reads.                                     *)
(***************************************************************************)
EXTENDS TsFraming, Integers, TLAPS

LEMMA InductiveInit == Init => InductiveInv
BY FramingAssumption
   DEF Init, InductiveInv, TypeOK, PacketsWhole, EndMeansAllRead, Places, InPacket

\* A read appends the next bytes of the stream to the rest.
LEMMA ReadPreserves ==
  ASSUME InductiveInv, NEW n \in 1 .. BufferSize, Read(n)
  PROVE  InductiveInv'
<1> USE FramingAssumption
<1> USE DEF InductiveInv, TypeOK
<1>1. /\ received \in Nat /\ length \in Nat /\ bufferWritePtr \in Nat /\ bufferReadPtr = 0
      /\ n \in Nat /\ received + n <= length /\ bufferWritePtr + n <= BufferSize
      /\ bufferWritePtr <= received
      /\ received' = received + n /\ bufferWritePtr' = bufferWritePtr + n /\ bufferReadPtr' = 0
      /\ pc' = "scan" /\ UNCHANGED <<length, sync, taken>>
  BY DEF Read, stream
<1>2. \A o \in Places : buffer'[o] =
        IF bufferWritePtr <= o /\ o < bufferWritePtr + n
          THEN received + 1 + (o - bufferWritePtr) ELSE buffer[o]
  BY DEF Read
<1>3. buffer' \in [Places -> 0 .. length]
  <2>1. \A o \in Places :
          (IF bufferWritePtr <= o /\ o < bufferWritePtr + n
             THEN received + 1 + (o - bufferWritePtr) ELSE buffer[o]) \in 0 .. length
    BY <1>1 DEF Places
  <2> QED BY <2>1 DEF Read
<1>4. TypeOK'
  BY <1>1, <1>3
<1>5. PacketsWhole' /\ EndMeansAllRead'
  BY <1>1 DEF PacketsWhole, EndMeansAllRead, InPacket
<1>6. \A o \in bufferReadPtr' .. bufferWritePtr' - 1 : buffer'[o] = received' - bufferWritePtr' + 1 + o
  <2> SUFFICES ASSUME NEW o \in 0 .. bufferWritePtr + n - 1
               PROVE  buffer'[o] = received - bufferWritePtr + 1 + o
    BY <1>1
  <2>1. o \in Places
    BY <1>1 DEF Places
  <2>2. CASE o < bufferWritePtr
    <3>1. o \in bufferReadPtr .. bufferWritePtr - 1
      BY <1>1, <2>2
    <3> QED BY <1>1, <1>2, <2>1, <2>2, <3>1
  <2>3. CASE o >= bufferWritePtr
    BY <1>1, <1>2, <2>1, <2>3
  <2> QED BY <1>1, <2>2, <2>3
<1> QED BY <1>1, <1>4, <1>5, <1>6

\* What starts at the read pointer and is complete is a packet's bytes.
LEMMA PacketBytes ==
  ASSUME InductiveInv, PacketReady
  PROVE  \A o \in InPacket :
           /\ bufferReadPtr + o \in Places
           /\ buffer[bufferReadPtr + o] = received - bufferWritePtr + 1 + bufferReadPtr + o
           /\ buffer[bufferReadPtr + o] \in 1 .. length
<1> SUFFICES ASSUME NEW o \in InPacket
             PROVE  /\ bufferReadPtr + o \in Places
                    /\ buffer[bufferReadPtr + o] = received - bufferWritePtr + 1 + bufferReadPtr + o
                    /\ buffer[bufferReadPtr + o] \in 1 .. length
  OBVIOUS
<1>1. bufferReadPtr + o \in bufferReadPtr .. bufferWritePtr - 1
  BY FramingAssumption DEF InductiveInv, TypeOK, PacketReady, InPacket
<1>2. bufferReadPtr + o \in Places
  BY <1>1, FramingAssumption DEF InductiveInv, TypeOK, Places
<1>3. buffer[bufferReadPtr + o] = received - bufferWritePtr + 1 + (bufferReadPtr + o)
  BY <1>1 DEF InductiveInv
<1>4. received - bufferWritePtr + 1 + (bufferReadPtr + o) \in 1 .. length
  BY <1>1, FramingAssumption DEF InductiveInv, TypeOK, InPacket
<1>5. received - bufferWritePtr + 1 + (bufferReadPtr + o) =
        received - bufferWritePtr + 1 + bufferReadPtr + o
  BY FramingAssumption DEF InductiveInv, TypeOK, InPacket
<1>6. buffer[bufferReadPtr + o] = received - bufferWritePtr + 1 + bufferReadPtr + o
  BY ONLY <1>3, <1>5, Zenon
<1>7. buffer[bufferReadPtr + o] \in 1 .. length
  BY ONLY <1>3, <1>4, Zenon
<1> QED BY ONLY <1>2, <1>6, <1>7, Zenon

LEMMA TakePreserves ==
  ASSUME InductiveInv, TakePacket
  PROVE  InductiveInv'
<1> USE FramingAssumption
<1> DEFINE packet == [o \in InPacket |-> buffer[bufferReadPtr + o]]
<1>1. PacketReady
  BY DEF TakePacket
<1>2. packet \in [InPacket -> 0 .. length]
  BY <1>1, PacketBytes DEF InductiveInv, TypeOK
<1>3. 0 \in InPacket
  BY DEF InPacket
<1>4. packet[0] > 0 /\ \A o \in InPacket : packet[o] = packet[0] + o
  <2> DEFINE first == received - bufferWritePtr + 1 + bufferReadPtr
  <2>1. first \in Int
    BY DEF InductiveInv, TypeOK
  <2>2. \A o \in InPacket : packet[o] = first + o /\ packet[o] \in 1 .. length
    BY <1>1, PacketBytes
  <2> HIDE DEF first, packet
  <2>3. packet[0] = first /\ packet[0] > 0
    BY <1>3, <2>1, <2>2 DEF InductiveInv, TypeOK
  <2> QED BY <2>2, <2>3
<1>5. taken' = taken \cup {packet}
  BY DEF TakePacket
<1> HIDE DEF packet
<1>6. taken' \subseteq [InPacket -> 0 .. length] /\ PacketsWhole'
  BY <1>2, <1>4, <1>5 DEF InductiveInv, TypeOK, PacketsWhole
<1>7. /\ bufferReadPtr' = bufferReadPtr + PacketSize /\ bufferReadPtr' <= bufferWritePtr
      /\ UNCHANGED <<length, sync, received, buffer, bufferWritePtr, pc>>
  BY <1>1 DEF TakePacket, PacketReady, InductiveInv, TypeOK, stream
<1>8. pc = "scan"
  BY <1>1 DEF PacketReady
<1>9. TypeOK' /\ EndMeansAllRead'
  BY <1>6, <1>7, <1>8 DEF InductiveInv, TypeOK, EndMeansAllRead
<1> QED BY <1>6, <1>7, <1>8, <1>9 DEF InductiveInv, TypeOK

LEMMA SkipPreserves ==
  ASSUME InductiveInv, SkipByte
  PROVE  InductiveInv'
<1> USE FramingAssumption
<1>1. /\ bufferReadPtr' = bufferReadPtr + 1 /\ bufferReadPtr' <= bufferWritePtr
      /\ pc = "scan"
      /\ UNCHANGED <<length, sync, received, buffer, bufferWritePtr, pc, taken>>
  BY DEF SkipByte, PacketReady, InductiveInv, TypeOK, stream
<1>2. TypeOK' /\ EndMeansAllRead' /\ PacketsWhole'
  BY <1>1 DEF InductiveInv, TypeOK, EndMeansAllRead, PacketsWhole
<1> QED BY <1>1, <1>2 DEF InductiveInv, TypeOK

\* The rest arrives at the front in order, and is less than a packet.
LEMMA KeepPreserves ==
  ASSUME InductiveInv, KeepRest
  PROVE  InductiveInv'
<1> USE FramingAssumption
<1> USE DEF InductiveInv, TypeOK
<1> DEFINE rest == bufferWritePtr - bufferReadPtr
<1>1. /\ rest \in 0 .. PacketSize - 1
      /\ bufferWritePtr' = rest /\ bufferReadPtr' = 0 /\ pc' = "read"
      /\ UNCHANGED <<length, sync, received, taken>>
  BY DEF KeepRest, PacketReady, stream
<1>2. \A o \in Places : buffer'[o] = IF o < rest THEN buffer[bufferReadPtr + o] ELSE buffer[o]
  BY DEF KeepRest
<1>3. \A o \in 0 .. rest - 1 : o \in Places /\ bufferReadPtr + o \in Places
  BY DEF Places
<1>4. buffer' \in [Places -> 0 .. length]
  <2>1. \A o \in Places :
          (IF o < bufferWritePtr - bufferReadPtr THEN buffer[bufferReadPtr + o] ELSE buffer[o])
            \in 0 .. length
    BY <1>3 DEF Places
  <2> QED BY <2>1 DEF KeepRest
<1>5. \A o \in 0 .. rest - 1 : buffer'[o] = received - rest + 1 + o
  <2> TAKE o \in 0 .. rest - 1
  <2>1. bufferReadPtr + o \in bufferReadPtr .. bufferWritePtr - 1
    OBVIOUS
  <2>2. buffer[bufferReadPtr + o] = received - bufferWritePtr + 1 + (bufferReadPtr + o)
    BY <2>1
  <2>3. buffer'[o] = buffer[bufferReadPtr + o]
    BY <1>2, <1>3
  <2> QED BY <2>2, <2>3
<1>6. TypeOK'
  BY <1>1, <1>4
<1>7. PacketsWhole' /\ EndMeansAllRead'
  BY <1>1 DEF PacketsWhole, EndMeansAllRead
<1> QED BY <1>1, <1>5, <1>6, <1>7

LEMMA InductiveNext == InductiveInv /\ [Next]_vars => InductiveInv'
<1> SUFFICES ASSUME InductiveInv, [Next]_vars PROVE InductiveInv'
  OBVIOUS
<1>1. CASE ReadNothing
  BY <1>1, FramingAssumption
     DEF ReadNothing, InductiveInv, TypeOK, PacketsWhole, EndMeansAllRead, stream
<1>2. CASE UNCHANGED vars
  BY <1>2 DEF vars, stream, InductiveInv, TypeOK, PacketsWhole, EndMeansAllRead
<1> QED BY <1>1, <1>2, ReadPreserves, TakePreserves, SkipPreserves, KeepPreserves DEF Next

\* The unscanned part of the buffer is always the end of what was received, for
\* every size of packets and buffer and every sequence of reads.
THEOREM Invariance == Spec => []InductiveInv
BY InductiveInit, InductiveNext, PTL DEF Spec

\* Packets reach the dispatch in one piece, however they were read and moved.
THEOREM PacketsCorrect == Spec => []PacketsWhole
BY Invariance, PTL DEF InductiveInv

\* A buffer as large as a packet is enough: no read is left without room.
THEOREM EndCorrect == Spec => []EndMeansAllRead
BY Invariance, PTL DEF InductiveInv

-----------------------------------------------------------------------------

LEMMA MapsInit == Init => Scanner!ScannerInit
<1> SUFFICES ASSUME Init PROVE Scanner!ScannerInit
  OBVIOUS
<1>1. {p[0] : p \in taken} = {}
  BY DEF Init
<1>2. received - (bufferWritePtr - bufferReadPtr) + 1 = 1
  BY DEF Init
<1> QED BY <1>1, <1>2 DEF Init, Scanner!ScannerInit

\* Taking and skipping are the scanner's steps; reading and moving are none.
LEMMA MapsNext == InductiveInv /\ [Next]_vars => [Scanner!ScannerStep]_(Scanner!scannerVars)
<1> SUFFICES ASSUME InductiveInv, [Next]_vars
             PROVE  Scanner!ScannerStep \/ UNCHANGED Scanner!scannerVars
  OBVIOUS
<1> USE FramingAssumption
<1> DEFINE next  == received - (bufferWritePtr - bufferReadPtr) + 1
           starts == {p[0] : p \in taken}
<1>1. /\ received \in Nat /\ length \in Nat /\ received <= length
      /\ bufferWritePtr \in Nat /\ bufferReadPtr \in Nat /\ bufferReadPtr <= bufferWritePtr
      /\ bufferWritePtr - bufferReadPtr <= received
  BY DEF InductiveInv, TypeOK
<1>2. CASE TakePacket \/ SkipByte
  <2>1. PacketReady
    BY <1>2 DEF TakePacket, SkipByte
  <2>2. next + PacketSize <= length + 1
    BY <1>1, <2>1 DEF PacketReady
  <2>3. 0 \in InPacket /\ buffer[bufferReadPtr] = next
    <3>1. 0 \in InPacket /\ bufferReadPtr + 0 = bufferReadPtr
      BY <1>1 DEF InPacket
    <3>2. buffer[bufferReadPtr + 0] = received - bufferWritePtr + 1 + bufferReadPtr + 0
      BY <2>1, <3>1, PacketBytes
    <3> QED BY <1>1, <3>1, <3>2
  <2>4. CASE TakePacket
    <3>1. next' = next + PacketSize /\ next \in sync /\ UNCHANGED <<length, sync>>
      BY <1>1, <2>3, <2>4 DEF TakePacket, stream
    <3> DEFINE packet == [o \in InPacket |-> buffer[bufferReadPtr + o]]
    <3>2. packet[0] = next
      BY <1>1, <2>3
    <3>3. taken' = taken \cup {packet}
      BY <2>4 DEF TakePacket
    <3> HIDE DEF packet
    <3>4. starts' = starts \cup {next}
      BY ONLY <3>2, <3>3
    <3> QED BY <2>2, <3>1, <3>4 DEF Scanner!ScannerStep
  <2>5. CASE SkipByte
    <3>1. next' = next + 1 /\ next \notin sync /\ UNCHANGED <<length, sync, taken>>
      BY <1>1, <2>3, <2>5 DEF SkipByte, stream
    <3> QED BY <2>2, <3>1 DEF Scanner!ScannerStep
  <2> QED BY <1>2, <2>4, <2>5
<1>3. ASSUME NEW n \in 1 .. BufferSize, Read(n) PROVE UNCHANGED Scanner!scannerVars
  <2>1. bufferReadPtr = 0
    BY <1>3 DEF InductiveInv, Read
  <2>2. next' = next /\ UNCHANGED <<length, sync, taken>>
    BY <1>1, <1>3, <2>1 DEF Read, stream
  <2> QED BY <2>2 DEF Scanner!scannerVars
<1>4. CASE ReadNothing \/ KeepRest
  <2>1. next' = next /\ UNCHANGED <<length, sync, taken>>
    BY <1>1, <1>4 DEF ReadNothing, KeepRest, stream
  <2> QED BY <2>1 DEF Scanner!scannerVars
<1>5. CASE UNCHANGED vars
  BY <1>5 DEF vars, stream, Scanner!scannerVars
<1> QED BY <1>2, <1>3, <1>4, <1>5 DEF Next

\* What packets are found depends on the stream alone, not on the reads: every
\* step is a step of one pass over the whole stream, or none of it.
THEOREM FramingIsOnePass ==
  Spec => Scanner!ScannerInit /\ [][Scanner!ScannerStep]_(Scanner!scannerVars)
BY MapsInit, MapsNext, Invariance, PTL DEF Spec


\* The end of the reader is the end of that pass: no byte is left unscanned at
\* which a packet could begin.
THEOREM EndIsComplete == Spec => []EndMeansAllScanned
<1>1. InductiveInv => EndMeansAllScanned
  BY FramingAssumption DEF InductiveInv, TypeOK, EndMeansAllRead, EndMeansAllScanned
<1> QED BY <1>1, Invariance, PTL

-----------------------------------------------------------------------------

LEMMA ScanWorkIsNat == InductiveInv => ScanWork \in Nat
BY DEF InductiveInv, TypeOK, ScanWork

LEMMA ScanWorkFalls ==
  ASSUME InductiveInv, InductiveInv', Next
  PROVE  ScanWork' < ScanWork
<1> USE FramingAssumption
<1>1. /\ received \in Nat /\ length \in Nat /\ received <= length
      /\ bufferWritePtr \in Nat /\ bufferReadPtr \in Nat /\ bufferReadPtr <= bufferWritePtr
  BY DEF InductiveInv, TypeOK
<1>2. ASSUME NEW n \in 1 .. BufferSize, Read(n) PROVE ScanWork' < ScanWork
  <2>1. /\ received' = received + n /\ bufferWritePtr' = bufferWritePtr + n
        /\ bufferReadPtr = 0 /\ bufferReadPtr' = 0
        /\ pc = "read" /\ pc' = "scan" /\ length' = length
    BY <1>2 DEF Read, stream, InductiveInv
  <2>2. 3 * (length - (received + n)) = 3 * (length - received) - 3 * n
    BY <1>1
  <2> QED BY <1>1, <2>1, <2>2 DEF ScanWork
<1>3. CASE ReadNothing
  BY <1>1, <1>3 DEF ReadNothing, ScanWork, stream
<1>4. CASE TakePacket
  BY <1>1, <1>4 DEF TakePacket, PacketReady, ScanWork, stream
<1>5. CASE SkipByte
  BY <1>1, <1>5 DEF SkipByte, PacketReady, ScanWork, stream
<1>6. CASE KeepRest
  BY <1>1, <1>6 DEF KeepRest, ScanWork, stream
<1> QED BY <1>2, <1>3, <1>4, <1>5, <1>6 DEF Next

\* The scan does not go on for ever: each of its steps leaves less of the stream.
THEOREM ScanEnds == Spec => ScanAdvances
<1>1. InductiveInv /\ InductiveInv' /\ [Next]_vars
        => [ScanWork' < ScanWork /\ {ScanWork, ScanWork'} \subseteq Nat]_vars
  <2> SUFFICES ASSUME InductiveInv, InductiveInv', Next
               PROVE  ScanWork' < ScanWork /\ ScanWork \in Nat /\ ScanWork' \in Nat
    OBVIOUS
  <2>1. ScanWork \in Nat
    BY ScanWorkIsNat
  <2>2. ScanWork' \in Nat
    BY DEF InductiveInv, TypeOK, ScanWork
  <2> QED BY <2>1, <2>2, ScanWorkFalls
<1> QED BY <1>1, InductiveNext, Invariance, PTL DEF Spec, ScanAdvances

=============================================================================
