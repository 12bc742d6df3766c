----------------------- MODULE CoreIVTranscoderProofs -----------------------
(***************************************************************************)
(* Proofs about CoreIVTranscoder, for any number of buffers.               *)
(***************************************************************************)
EXTENDS CoreIVTranscoder, TLAPS

\* The invariant holds before the first frame and the first callback.
LEMMA InitInv == Init => InductiveInv
<1> USE CoreIVAssumption DEF Init
<1> SUFFICES ASSUME Init PROVE InductiveInv
  OBVIOUS
<1>1. TypeOK
  <2>1. inFree \in 0 .. InBuffers /\ decoding \in 0 .. InBuffers /\ inLost \in 0 .. InBuffers
    OBVIOUS
  <2>2. outFree \in 0 .. OutBuffers /\ encoding \in 0 .. OutBuffers /\ outLost \in 0 .. OutBuffers
    OBVIOUS
  <2>3. tunnels \in [Tunnels -> 0 .. 2]
    OBVIOUS
  <2>4. /\ m_PipelineSet \in BOOLEAN /\ m_PipelineNeedsToSetup \in BOOLEAN /\ m_EncoderSet \in BOOLEAN
        /\ asked \in BOOLEAN /\ outputEnabled \in BOOLEAN /\ setupFailed \in BOOLEAN
    BY Zenon
  <2>5. /\ reader \in Reader
        /\ decoderEvent \in {"none", "test", "need"}
        /\ encoderEvent \in {"none", "disable", "enable", "set"}
        /\ executing \subseteq {"decoder", "resize", "encoder"}
        /\ reported \in 0 .. 2 /\ stale \in {0, 1}
    BY DEF Reader, SettingUp
  <2> QED
    BY <2>1, <2>2, <2>3, <2>4, <2>5 DEF TypeOK
<1>2. PipelineReady /\ TunnelsOnce
  BY DEF PipelineReady, TunnelsOnce
<1>3. BuffersConserved
  BY DEF BuffersConserved
<1>4. SetupSoFar
  BY DEF SetupSoFar, SettingUp, Tunnels
<1>5. EncoderSetLast
  BY DEF EncoderSetLast
<1>6. NeedCleared
  BY DEF NeedCleared, ReportNotLost
<1> QED
  BY <1>1, <1>2, <1>3, <1>4, <1>5, <1>6 DEF InductiveInv

\* A tunnel that is set up is there; once, if it was not there before.
LEMMA TunnelCounted ==
  ASSUME tunnels \in [Tunnels -> 0 .. 2], NEW t \in Tunnels, TunnelSet(t)
  PROVE  /\ tunnels' \in [Tunnels -> 0 .. 2]
         /\ tunnels'[t] # 0
         /\ tunnels[t] = 0 => tunnels'[t] = 1
         /\ \A u \in Tunnels : u # t => tunnels'[u] = tunnels[u]
  BY DEF TunnelSet

\* Every step of the setup keeps the invariant.
LEMMA SetupKeepsInv == InductiveInv /\ Setup => InductiveInv'
<1> USE CoreIVAssumption DEF InductiveInv, TypeOK, PipelineReady, TunnelsOnce, BuffersConserved,
        SetupSoFar, EncoderSetLast, NeedCleared, ReportNotLost, Tunnels, Reader, SettingUp, Goes, flags, events, pipe, ins, outs
<1> SUFFICES ASSUME InductiveInv, Setup PROVE InductiveInv'
  OBVIOUS
<1>1. CASE Configure
  BY <1>1 DEF Configure
<1>2. CASE SetDecoderTunnel
  <2>1. CASE Goes("decoderTunnel", "encoderTunnel") /\ TunnelSet("decoder")
    BY <1>2, <2>1, TunnelCounted DEF SetDecoderTunnel
  <2>2. CASE Goes("decoderTunnel", "outside") /\ UNCHANGED tunnels
    BY <1>2, <2>2 DEF SetDecoderTunnel
  <2> QED
    BY <1>2, <2>1, <2>2 DEF SetDecoderTunnel
<1>3. CASE SetEncoderTunnel
  <2>1. CASE Goes("encoderTunnel", "enableOutput") /\ TunnelSet("encoder")
    <3>1. /\ tunnels' \in [Tunnels -> 0 .. 2]
          /\ tunnels'["encoder"] # 0
          /\ tunnels["encoder"] = 0 => tunnels'["encoder"] = 1
          /\ tunnels'["decoder"] = tunnels["decoder"]
      BY <1>3, <2>1, TunnelCounted DEF SetEncoderTunnel
    <3>2. TypeOK' /\ BuffersConserved' /\ EncoderSetLast' /\ NeedCleared'
      BY <1>3, <2>1, <3>1 DEF SetEncoderTunnel
    <3>3. PipelineReady' /\ TunnelsOnce'
      BY <1>3, <2>1, <3>1 DEF SetEncoderTunnel
    <3>4. SetupSoFar'
      BY <1>3, <2>1, <3>1 DEF SetEncoderTunnel
    <3> QED
      BY <3>2, <3>3, <3>4
  <2>2. CASE Goes("encoderTunnel", "outside") /\ UNCHANGED tunnels
    BY <1>3, <2>2 DEF SetEncoderTunnel
  <2> QED
    BY <1>3, <2>1, <2>2 DEF SetEncoderTunnel
<1>4. CASE EnableOutput
  <2>1. "encoder" \notin executing /\ reported = 0 /\ ~m_EncoderSet /\ encoderEvent = "none"
    BY <1>4 DEF EnableOutput
  <2>2. TypeOK'
    <3>1. outFree' \in 0 .. OutBuffers
      BY <1>4 DEF EnableOutput
    <3>2. outputEnabled' \in BOOLEAN /\ setupFailed' \in BOOLEAN
      BY <1>4 DEF EnableOutput
    <3>3. reader' \in Reader
      BY <1>4 DEF EnableOutput
    <3> QED
      BY <1>4, <3>1, <3>2, <3>3 DEF EnableOutput
  <2>4. PipelineReady' /\ TunnelsOnce' /\ SetupSoFar'
    BY <1>4, <2>1 DEF EnableOutput
  <2>5. EncoderSetLast' /\ NeedCleared'
    BY <1>4, <2>1 DEF EnableOutput
  <2>3. BuffersConserved'
    BY <1>4, <2>1 DEF EnableOutput
  <2> QED
    BY <2>2, <2>3, <2>4, <2>5
<1>5. CASE Execute
  BY <1>5 DEF Execute
<1>6. CASE MarkSet
  BY <1>6 DEF MarkSet
<1>7. CASE ClearNeeds
  BY <1>7 DEF ClearNeeds
<1> QED
  BY <1>1, <1>2, <1>3, <1>4, <1>5, <1>6, <1>7 DEF Setup

\* Every step of supplyFrame with its buffers keeps the invariant.
LEMMA BuffersKeepInv == InductiveInv /\ Buffers => InductiveInv'
<1> USE CoreIVAssumption DEF InductiveInv, TypeOK, PipelineReady, TunnelsOnce, BuffersConserved,
        SetupSoFar, EncoderSetLast, NeedCleared, ReportNotLost, Tunnels, Reader, SettingUp, Goes, flags, events, pipe, ins, outs
<1> SUFFICES ASSUME InductiveInv, Buffers PROVE InductiveInv'
  OBVIOUS
<1>1. CASE GetInput
  BY <1>1 DEF GetInput
<1>2. CASE LoseInput
  BY <1>2 DEF LoseInput
<1>3. CASE FillInput
  BY <1>3 DEF FillInput
<1>4. CASE TestEncoder
  BY <1>4 DEF TestEncoder
<1>5. CASE GetOutput
  <2>1. TypeOK'
    BY <1>5 DEF GetOutput
  <2>2. BuffersConserved'
    BY <1>5 DEF GetOutput
  <2>3. PipelineReady' /\ TunnelsOnce' /\ SetupSoFar' /\ NeedCleared'
    BY <1>5 DEF GetOutput
  <2>4. EncoderSetLast'
    BY <1>5 DEF GetOutput
  <2> QED
    BY <2>1, <2>2, <2>3, <2>4
<1>6. CASE GiveOutput
  <2>1. TypeOK'
    BY <1>6 DEF GiveOutput
  <2>2. BuffersConserved'
    BY <1>6 DEF GiveOutput
  <2>3. PipelineReady' /\ TunnelsOnce' /\ SetupSoFar' /\ NeedCleared'
    BY <1>6 DEF GiveOutput
  <2>4. EncoderSetLast'
    BY <1>6 DEF GiveOutput
  <2> QED
    BY <2>1, <2>2, <2>3, <2>4
<1> QED
  BY <1>1, <1>2, <1>3, <1>4, <1>5, <1>6 DEF Buffers

\* Every step of a callback keeps the invariant.
LEMMA CallbackKeepsInv == InductiveInv /\ Callback => InductiveInv'
<1> USE CoreIVAssumption DEF InductiveInv, TypeOK, PipelineReady, TunnelsOnce, BuffersConserved,
        SetupSoFar, EncoderSetLast, NeedCleared, ReportNotLost, Tunnels, Reader, SettingUp, Goes, flags, events, pipe, ins, outs
<1> SUFFICES ASSUME InductiveInv, Callback PROVE InductiveInv'
  OBVIOUS
<1>1. CASE TestPipeline
  BY <1>1 DEF TestPipeline
<1>2. CASE NeedSetup
  BY <1>2 DEF NeedSetup
<1>3. CASE DisableOutput
  <2>1. "encoder" \in executing /\ (~m_EncoderSet => stale' = 0) /\ (stale' = 1 => reported = 2)
    BY <1>3 DEF DisableOutput, TakePortDown
  <2>2. TypeOK'
    <3>1. outFree' \in 0 .. OutBuffers /\ encoding' \in 0 .. OutBuffers /\ outLost' \in 0 .. OutBuffers
      BY <1>3 DEF DisableOutput, TakePortDown
    <3>2. stale' \in {0, 1} /\ encoderEvent' \in {"none", "disable", "enable", "set"}
      BY <1>3 DEF DisableOutput, TakePortDown
    <3>3. outputEnabled' \in BOOLEAN
      BY <1>3 DEF DisableOutput, TakePortDown
    <3> QED
      BY <1>3, <3>1, <3>2, <3>3 DEF DisableOutput
  <2>3. BuffersConserved'
    BY <1>3, <2>1 DEF DisableOutput, TakePortDown
  <2>4. PipelineReady' /\ TunnelsOnce' /\ SetupSoFar' /\ NeedCleared'
    BY <1>3 DEF DisableOutput
  <2>5. EncoderSetLast'
    BY <1>3, <2>1 DEF DisableOutput, TakePortDown
  <2> QED
    BY <2>2, <2>3, <2>4, <2>5
<1>4. CASE EnableOutputAgain
  BY <1>4 DEF EnableOutputAgain
<1>5. CASE SetEncoder
  BY <1>5 DEF SetEncoder
<1> QED
  BY <1>1, <1>2, <1>3, <1>4, <1>5 DEF Callback

\* What a component does on its own, and the call of supplyFrame, keep it.
LEMMA ComponentsKeepInv == InductiveInv /\ (Supply \/ Components) => InductiveInv'
<1> USE CoreIVAssumption DEF InductiveInv, TypeOK, PipelineReady, TunnelsOnce, BuffersConserved,
        SetupSoFar, EncoderSetLast, NeedCleared, ReportNotLost, Tunnels, Reader, SettingUp, Goes, flags, events, pipe, ins, outs
<1> SUFFICES ASSUME InductiveInv, Supply \/ Components PROVE InductiveInv'
  OBVIOUS
<1>1. CASE Supply
  BY <1>1 DEF Supply
<1>2. CASE EmptyBufferDone
  BY <1>2 DEF EmptyBufferDone
<1>3. CASE DecoderReports
  BY <1>3 DEF DecoderReports
<1>4. CASE EncoderReports
  BY <1>4 DEF EncoderReports
<1>5. CASE FillBufferDone
  BY <1>5 DEF FillBufferDone
<1> QED
  BY <1>1, <1>2, <1>3, <1>4, <1>5 DEF Components

\* A step that changes nothing keeps the invariant.
LEMMA StutterKeepsInv == InductiveInv /\ UNCHANGED vars => InductiveInv'
  BY DEF InductiveInv, TypeOK, PipelineReady, TunnelsOnce, BuffersConserved, SetupSoFar,
         EncoderSetLast, NeedCleared, ReportNotLost, vars, flags, events, pipe, ins, outs

\* However the callbacks of the components come between the steps of
\* supplyFrame, the flags say what has been set up and no buffer goes astray.
THEOREM Invariance == Spec => []InductiveInv
<1>1. Init => InductiveInv
  BY InitInv
<1>2. InductiveInv /\ [Next]_vars => InductiveInv'
  BY SetupKeepsInv, BuffersKeepInv, CallbackKeepsInv, ComponentsKeepInv, StutterKeepsInv DEF Next
<1> QED
  BY <1>1, <1>2, PTL DEF Spec

\* m_PipelineSet, once set, can be relied on: both tunnels are there and the
\* components behind the decoder execute.
THEOREM PipelineCorrect == Spec => []PipelineReady
<1>1. InductiveInv => PipelineReady
  BY DEF InductiveInv
<1> QED
  BY <1>1, Invariance, PTL

\* A report of the decoder in the middle of a setup, or after it, does not make
\* supplyFrame set up a tunnel again.
THEOREM TunnelsNotRepeated == Spec => []TunnelsOnce
<1>1. InductiveInv => TunnelsOnce
  BY DEF InductiveInv
<1> QED
  BY <1>1, Invariance, PTL

\* However often the encoder reports: its first report takes the output port
\* down and up while neither the reader nor the encoder has one of its buffers,
\* and only a later one can take a buffer away from the reader.
THEOREM OutputPortNotTorn == Spec => []OutputPortStable
<1>1. InductiveInv => OutputPortStable
  BY DEF InductiveInv, EncoderSetLast, OutputPortStable
<1> QED
  BY <1>1, Invariance, PTL

\* A report of the decoder is answered by a set up pipeline or is still waiting
\* for the next frame, whenever it comes and whichever calls of a setup fail.
THEOREM ReportsKept == Spec => []ReportNotLost
<1>1. InductiveInv => ReportNotLost
  BY DEF InductiveInv, NeedCleared
<1> QED
  BY <1>1, Invariance, PTL

\* The reader never waits while nobody has a buffer to give it, unless every
\* buffer was lost by a call that failed.  Whether the decoder gives its back is
\* not said: one that waits for its tunnel may not.
THEOREM WaitJustified == Spec => []WaitsForDecoder
<1>1. InductiveInv => WaitsForDecoder
  BY CoreIVAssumption DEF InductiveInv, TypeOK, BuffersConserved, WaitsForDecoder
<1> QED
  BY <1>1, Invariance, PTL

\* When every input buffer was lost the reader thread is stuck for good.
THEOREM LossIsFinal == Spec => LostForGood
<1>1. InductiveInv /\ [Next]_vars
        => [(reader = "getInput" /\ inLost = InBuffers) => UNCHANGED <<reader, ins>>]_vars
  <2> SUFFICES ASSUME InductiveInv, Next, reader = "getInput", inLost = InBuffers
               PROVE  reader' = reader /\ ins' = ins
    BY DEF ins
  <2>1. inFree = 0 /\ decoding = 0
    BY CoreIVAssumption DEF InductiveInv, TypeOK, BuffersConserved
  <2>2. ~Supply /\ ~Setup
    BY DEF Supply, Setup, Goes, Configure, SetDecoderTunnel, SetEncoderTunnel, EnableOutput, Execute,
           MarkSet, ClearNeeds
  <2>3. ~Buffers
    BY <2>1 DEF Buffers, Goes, GetInput, LoseInput, FillInput, TestEncoder, GetOutput, GiveOutput
  <2>4. CASE Callback
    BY <2>4 DEF Callback, TestPipeline, NeedSetup, DisableOutput, EnableOutputAgain, SetEncoder, ins
  <2>5. CASE Components
    BY <2>1, <2>5 DEF Components, EmptyBufferDone, DecoderReports, EncoderReports, FillBufferDone, ins
  <2> QED
    BY <2>2, <2>3, <2>4, <2>5 DEF Next
<1> QED
  BY <1>1, Invariance, PTL DEF Spec, LostForGood

\* A pipeline that was set up is never set up again, whenever the decoder reports.
THEOREM SetupNotRepeated == Spec => SetupOnce
<1>1. InductiveInv /\ [Next]_vars
        => [m_PipelineSet => m_PipelineSet' /\ reader' \notin SettingUp]_vars
  <2> SUFFICES ASSUME InductiveInv, Next, m_PipelineSet
               PROVE  m_PipelineSet' /\ reader' \notin SettingUp
    OBVIOUS
  <2>1. reader \notin SettingUp
    BY DEF InductiveInv, SetupSoFar
  <2>2. CASE Supply
    BY <2>2 DEF Supply, Goes, SettingUp, flags
  <2>3. CASE Setup
    BY <2>1, <2>3 DEF Setup, Goes, Configure, SetDecoderTunnel, SetEncoderTunnel, EnableOutput,
                      Execute, MarkSet, ClearNeeds, SettingUp, flags
  <2>4. CASE Buffers
    BY <2>4 DEF Buffers, Goes, GetInput, LoseInput, FillInput, TestEncoder, GetOutput, GiveOutput,
                SettingUp, flags
  <2>5. CASE Callback
    BY <2>1, <2>5 DEF Callback, TestPipeline, NeedSetup, DisableOutput, EnableOutputAgain,
                      SetEncoder, flags
  <2>6. CASE Components
    BY <2>1, <2>6 DEF Components, EmptyBufferDone, DecoderReports, EncoderReports, FillBufferDone,
                      flags
  <2> QED
    BY <2>2, <2>3, <2>4, <2>5, <2>6 DEF Next
<1> QED
  BY <1>1, Invariance, PTL DEF Spec, SetupOnce

=============================================================================
