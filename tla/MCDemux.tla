------------------------------ MODULE MCDemux ------------------------------
(***************************************************************************)
(* A small transport stream for Demux: a network entry, two programs whose *)
(* PMTs are on PIDs 1 and 3, and which share the audio stream on PID 2.    *)
(***************************************************************************)
EXTENDS Demux, TLC

MCPat == {[pid |-> 4, service |-> 0], [pid |-> 1, service |-> 7], [pid |-> 3, service |-> 8]}

MCPmt == 1 :> {[pid |-> 2, kind |-> "audio"], [pid |-> 4, kind |-> "video"]}
      @@ 3 :> {[pid |-> 2, kind |-> "audio"], [pid |-> 4, kind |-> "other"]}

\* Three units of the PAT, of the first PMT and of the shared stream: one to be
\* taken, one to be refused or to hide it, one to make the reset.
MCMaxUnits == 0 :> 3 @@ 1 :> 3 @@ 2 :> 3 @@ 3 :> 2 @@ 4 :> 1

=============================================================================
