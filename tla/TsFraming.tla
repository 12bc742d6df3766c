------------------------------ MODULE TsFraming ------------------------------
(***************************************************************************)
(* How TSSource::mainLoop (src/src/capture/tsSource.cpp) finds packets: it *)
(* reads pieces of any length behind what is left in its buffer, takes     *)
(* packets at sync bytes, skips other bytes, and moves the rest of the     *)
(* buffer to the front.  The stream is external: any bytes, of which only  *)
(* "is it 0x47" matters, cut into reads in any way.  A byte is its         *)
(* position in the stream, so that a byte lost or misplaced shows.         *)
(***************************************************************************)
EXTENDS Naturals

CONSTANTS PacketSize,   \* 188
          BufferSize,   \* READ_BUFFER
          MaxLength     \* bound: bytes of the stream

ASSUME FramingAssumption ==
  /\ PacketSize \in Nat \ {0}
  /\ BufferSize \in Nat /\ BufferSize >= PacketSize
  /\ MaxLength \in Nat

VARIABLES length, sync,      \* the stream: its length, where it holds 0x47
          received,          \* bytes read so far
          buffer,            \* what each place of the buffer holds, 0 before the first write
          bufferWritePtr, bufferReadPtr,
          pc,                \* "read", "scan", "ended"
          taken              \* the packets given to the dispatch

stream == <<length, sync>>
vars   == <<stream, received, buffer, bufferWritePtr, bufferReadPtr, pc, taken>>

Places   == 0 .. BufferSize - 1
InPacket == 0 .. PacketSize - 1

Init ==
  /\ length \in 0 .. MaxLength /\ sync \in SUBSET (1 .. length)
  /\ received = 0
  /\ buffer = [o \in Places |-> 0]
  /\ bufferWritePtr = 0 /\ bufferReadPtr = 0
  /\ pc = "read" /\ taken = {}

\* readDataInto returned n bytes; the scan starts at the front.
Read(n) ==
  /\ pc = "read" /\ n <= BufferSize - bufferWritePtr /\ received + n <= length
  /\ buffer' = [o \in Places |->
                  IF bufferWritePtr <= o /\ o < bufferWritePtr + n
                    THEN received + 1 + (o - bufferWritePtr) ELSE buffer[o]]
  /\ received' = received + n
  /\ bufferWritePtr' = bufferWritePtr + n /\ bufferReadPtr' = 0
  /\ pc' = "scan"
  /\ UNCHANGED <<stream, taken>>

\* readDataInto returned 0: at the end, or when it was given no room.
ReadNothing ==
  /\ pc = "read" /\ (received = length \/ bufferWritePtr = BufferSize)
  /\ pc' = "ended"
  /\ UNCHANGED <<stream, received, buffer, bufferWritePtr, bufferReadPtr, taken>>

PacketReady == pc = "scan" /\ bufferWritePtr - bufferReadPtr >= PacketSize

TakePacket ==
  /\ PacketReady /\ buffer[bufferReadPtr] \in sync
  /\ taken' = taken \cup {[o \in InPacket |-> buffer[bufferReadPtr + o]]}
  /\ bufferReadPtr' = bufferReadPtr + PacketSize
  /\ UNCHANGED <<stream, received, buffer, bufferWritePtr, pc>>

SkipPacket ==   \* faulty: what is no packet is skipped as if it were one
  /\ PacketReady /\ buffer[bufferReadPtr] \notin sync
  /\ bufferReadPtr' = bufferReadPtr + PacketSize
  /\ UNCHANGED <<stream, received, buffer, bufferWritePtr, pc, taken>>

SkipByte ==
  /\ PacketReady /\ buffer[bufferReadPtr] \notin sync
  /\ bufferReadPtr' = bufferReadPtr + 1
  /\ UNCHANGED <<stream, received, buffer, bufferWritePtr, pc, taken>>

KeepRestInPlace ==   \* faulty: the pointer goes back but the bytes stay
  /\ pc = "scan" /\ ~PacketReady
  /\ bufferWritePtr' = bufferWritePtr - bufferReadPtr /\ bufferReadPtr' = 0
  /\ pc' = "read"
  /\ UNCHANGED <<stream, received, buffer, taken>>

KeepAll ==   \* faulty: only an empty rest brings the pointer back
  /\ pc = "scan" /\ ~PacketReady
  /\ bufferWritePtr' = IF bufferReadPtr = bufferWritePtr THEN 0 ELSE bufferWritePtr
  /\ bufferReadPtr' = 0
  /\ pc' = "read"
  /\ UNCHANGED <<stream, received, buffer, taken>>

\* memmove of the rest, if there is any, to the front
KeepRest ==
  /\ pc = "scan" /\ ~PacketReady
  /\ buffer' = [o \in Places |-> IF o < bufferWritePtr - bufferReadPtr
                                   THEN buffer[bufferReadPtr + o] ELSE buffer[o]]
  /\ bufferWritePtr' = bufferWritePtr - bufferReadPtr /\ bufferReadPtr' = 0
  /\ pc' = "read"
  /\ UNCHANGED <<stream, received, taken>>

Next ==
  \/ \E n \in 1 .. BufferSize : Read(n)
  \/ ReadNothing \/ TakePacket \/ SkipByte \/ KeepRest

\* The reader runs, and each read returns something until the end.
Spec == Init /\ [][Next]_vars /\ WF_vars(Next)

-----------------------------------------------------------------------------

\* Type invariant: both pointers stay inside the buffer.
TypeOK ==
  /\ length \in 0 .. MaxLength /\ sync \subseteq 1 .. length
  /\ received \in 0 .. length
  /\ buffer \in [Places -> 0 .. length]
  /\ bufferWritePtr \in 0 .. BufferSize /\ bufferReadPtr \in 0 .. bufferWritePtr
  /\ pc \in {"read", "scan", "ended"}
  /\ taken \subseteq [InPacket -> 0 .. length]

\* A packet that the dispatch gets is PacketSize bytes of the stream, one after
\* the other, although it may have come in several reads and have been moved.
PacketsWhole == \A p \in taken : p[0] > 0 /\ \A o \in InPacket : p[o] = p[0] + o

\* The end of the stream is only seen when all of it was read: the rest that is
\* kept always leaves room, since a read without room would look like the end.
EndMeansAllRead == pc = "ended" => received = length

\* The packets taken do not depend on how the stream was cut into reads, and
\* the scan comes to the end of the stream.
Scanner == INSTANCE PacketScanner WITH
  next    <- received - (bufferWritePtr - bufferReadPtr) + 1,
  packets <- {p[0] : p \in taken}

ImplementsScanner == Scanner!ScannerSpec

\* The inductive invariant: what was not scanned yet is the end of what was
\* received, and outside a scan it is less than a packet.
InductiveInv ==
  /\ TypeOK
  /\ PacketsWhole
  /\ EndMeansAllRead
  /\ bufferWritePtr - bufferReadPtr <= received
  /\ \A o \in bufferReadPtr .. bufferWritePtr - 1 :
       buffer[o] = received - bufferWritePtr + 1 + o
  /\ pc # "scan" => bufferReadPtr = 0 /\ bufferWritePtr < PacketSize

\* The work that is left: bytes to read, bytes to scan, and the end of the round.
ScanWork ==
  3 * (length - received) + (bufferWritePtr - bufferReadPtr)
    + [read |-> 1, scan |-> 2, ended |-> 0][pc]

\* Why the scan comes to its end: each read, packet, skipped byte and move leaves
\* less to do, so that a stream takes at most 3 * length + 1 of them.
ScanAdvances == [][ScanWork' < ScanWork /\ {ScanWork, ScanWork'} \subseteq Nat]_vars

\* What is left in the buffer at the end of the stream could not be a packet.
EndMeansAllScanned ==
  pc = "ended" => received - (bufferWritePtr - bufferReadPtr) + PacketSize > length

=============================================================================
