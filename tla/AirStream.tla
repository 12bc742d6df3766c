------------------------------ MODULE AirStream ------------------------------
(***************************************************************************)
(* AirStream (src/src/capture/airStream.cpp), which opens the DVB device   *)
(* in its constructor and stays there until it has processed enough        *)
(* packets.  The device is external: a read gives one packet or more, as   *)
(* many as there is room for, or nothing.  A packet is its number in the   *)
(* stream; a place of the buffer holds one packet, and the 84 bytes behind *)
(* the last place hold none.                                               *)
(***************************************************************************)
EXTENDS Naturals, Sequences

CONSTANTS Places,       \* packets that the buffer has room for: 5
          Enough,       \* packets to process, ten million bytes of them
          MaxPackets    \* bound: packets that the device delivers

VARIABLES device,      \* dvbFE and dvbDMX: "closed", "frontend", "open", "failed"
          pc,          \* "open", "read", "consume", "done", "destroyed"
          buffer,      \* the packet at each place, 0: none yet
          bufferPtr,   \* in packets
          nPackets,    \* of the last read, not yet consumed
          received,    \* packets that the device has delivered
          processed,   \* packets that processTs was called with
          bytesCount,  \* in packets
          pat          \* the packet that the PAT was taken from, 0: none

vars == <<device, pc, buffer, bufferPtr, nPackets, received, processed, bytesCount, pat>>

Init ==
  /\ device = "closed" /\ pc = "open"
  /\ buffer = [i \in 1 .. Places |-> 0] /\ bufferPtr = 0 /\ nPackets = 0
  /\ received = 0 /\ processed = <<>> /\ bytesCount = 0 /\ pat = 0

-----------------------------------------------------------------------------
(* the constructor *)

OpenFrontend ==
  /\ device = "closed"
  /\ device' \in {"frontend", "failed"}
  /\ UNCHANGED <<pc, buffer, bufferPtr, nPackets, received, processed, bytesCount, pat>>

\* If the demultiplexer does not open the frontend is closed again.
OpenDemux ==
  /\ device = "frontend"
  /\ \/ device' = "open" /\ pc' = "read"
     \/ device' = "failed" /\ UNCHANGED pc
  /\ UNCHANGED <<buffer, bufferPtr, nPackets, received, processed, bytesCount, pat>>

\* A read that gives nothing is tried again; one without room for a packet
\* gives nothing for ever (part of a packet would fail the assertion).
Read ==
  /\ pc = "read"
  /\ \E n \in 1 .. Places - bufferPtr :
       /\ received + n <= MaxPackets
       /\ buffer' = [i \in 1 .. Places |->
                       IF i \in bufferPtr + 1 .. bufferPtr + n THEN received + (i - bufferPtr)
                       ELSE buffer[i]]
       /\ received' = received + n /\ nPackets' = n
  /\ bufferPtr' = 0   \* back to the front, where consumption starts
  /\ pc' = "consume"
  /\ UNCHANGED <<device, processed, bytesCount, pat>>

-----------------------------------------------------------------------------
(* processTs *)

\* A packet that is scrambled or not parsed has no effect.  Any other counts; one
\* of PID 0 also replaces the PAT, if its table is accepted.
ProcessTs(packet) ==
  /\ processed' = Append(processed, packet)
  /\ \/ UNCHANGED <<bytesCount, pat>>
     \/ bytesCount' = bytesCount + 1 /\ pat' \in {pat, packet}

\* A place that does not begin with 0x47, such as one never written, is passed
\* over.
ConsumePacket ==
  /\ pc = "consume" /\ nPackets > 0
  /\ IF buffer[bufferPtr + 1] = 0 THEN UNCHANGED <<processed, bytesCount, pat>>
     ELSE ProcessTs(buffer[bufferPtr + 1])
  /\ bufferPtr' = bufferPtr + 1 /\ nPackets' = nPackets - 1
  /\ UNCHANGED <<device, pc, buffer, received>>

\* The next read goes behind the packets just consumed.
ReadAgain ==
  /\ pc = "consume" /\ nPackets = 0
  /\ pc' = IF bytesCount < Enough THEN "read" ELSE "done"
  /\ UNCHANGED <<device, buffer, bufferPtr, nPackets, received, processed, bytesCount, pat>>

\* The destructor closes the frontend and the demultiplexer.
Destroy ==
  /\ pc = "done" /\ device = "open"
  /\ device' = "closed" /\ pc' = "destroyed"
  /\ UNCHANGED <<buffer, bufferPtr, nPackets, received, processed, bytesCount, pat>>

Next == OpenFrontend \/ OpenDemux \/ Read \/ ConsumePacket \/ ReadAgain \/ Destroy

Spec == Init /\ [][Next]_vars

-----------------------------------------------------------------------------

\* "Buffer has >=188 bytes / Consume it": what the device delivered is what is
\* processed, each packet once and in order.  (Violated by the second read.)
EachPacketOnce == \A k \in DOMAIN processed : processed[k] = k

=============================================================================
