---------------------------- MODULE PacketScanner ----------------------------
(***************************************************************************)
(* What the framing of TSSource::mainLoop promises, whatever pieces the    *)
(* source hands it the stream in: one pass over the whole stream that      *)
(* takes PacketSize bytes at a sync byte and skips any other byte.         *)
(***************************************************************************)
EXTENDS Naturals

CONSTANT PacketSize

VARIABLES length,   \* of the stream
          sync,     \* positions that hold 0x47
          next,     \* the next position to look at
          packets   \* where packets were taken

scannerVars == <<length, sync, next, packets>>

ScannerInit == sync \subseteq 1 .. length /\ next = 1 /\ packets = {}

ScannerStep ==
  /\ next + PacketSize <= length + 1
  /\ \/ next \in sync /\ next' = next + PacketSize /\ packets' = packets \cup {next}
     \/ next \notin sync /\ next' = next + 1 /\ UNCHANGED packets
  /\ UNCHANGED <<length, sync>>

ScannerSpec ==
  ScannerInit /\ [][ScannerStep]_scannerVars /\ WF_scannerVars(ScannerStep)

=============================================================================
