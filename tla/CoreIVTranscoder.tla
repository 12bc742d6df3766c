-------------------------- MODULE CoreIVTranscoder --------------------------
(***************************************************************************)
(* CoreIVVideoTranscoder (src/src/transcode/coreIVVideoTranscoder.cpp)     *)
(* after init(): supplyFrame, which the reader thread of a TSSource calls  *)
(* frame after frame, against the callbacks of the OpenMAX components,     *)
(* which come on threads of their own and share plain bools with it.  The  *)
(* components are external: a decoder that empties input buffers and       *)
(* reports its output format, and, behind two tunnels, an encoder that     *)
(* fills output buffers and reports changes of its output port, each of    *)
(* any number (client.cpp passes every event on and no handler counts).    *)
(* Buffers of a port are counted, not told apart.  Any call in supplyFrame *)
(* whose result the code checks may fail, and leaves supplyFrame by an     *)
(* exception that the payload handler catches; from a callback such an     *)
(* exception would end the program, so there the calls succeed.            *)
(***************************************************************************)
EXTENDS Naturals, FiniteSets

CONSTANTS InBuffers,    \* buffers of the decoder's input port 130
          OutBuffers    \* buffers of the encoder's output port 201

ASSUME CoreIVAssumption == InBuffers \in Nat \ {0} /\ OutBuffers \in Nat \ {0}

VARIABLES m_PipelineSet, m_PipelineNeedsToSetup, m_EncoderSet,
          reader,         \* where supplyFrame is
          decoderEvent,   \* where onPortSettingsChanged(video_decode, 131) is
          encoderEvent,   \* where onPortSettingsChanged(video_encode, 201) is
          asked,          \* the decoder has reported
          reported,       \* how often the encoder has reported, 2 for more
          tunnels,        \* how often each tunnel was set up, 2 for more
          executing,      \* the components in state executing
          outputEnabled,  \* port 201 has buffers
          inFree, decoding, inLost,    \* input buffers: at the client, at the decoder, lost
          outFree, encoding, outLost,  \* output buffers: at the client, at the encoder, lost
          stale,          \* output buffers in supplyFrame's hands whose port was taken down
          setupFailed     \* has a setup failed after its first tunnel?

flags  == <<m_PipelineSet, m_PipelineNeedsToSetup, m_EncoderSet>>
events == <<decoderEvent, encoderEvent, asked, reported>>
pipe   == <<tunnels, executing, outputEnabled, setupFailed>>
ins    == <<inFree, decoding, inLost>>
outs   == <<outFree, encoding, outLost, stale>>
vars   == <<flags, reader, events, pipe, ins, outs>>

Tunnels == {"decoder", "encoder"}   \* named for the component at the outer end

Init ==
  /\ m_PipelineSet = FALSE /\ m_PipelineNeedsToSetup = FALSE /\ m_EncoderSet = FALSE
  /\ reader = "outside"
  /\ decoderEvent = "none" /\ encoderEvent = "none" /\ asked = FALSE /\ reported = 0
  /\ tunnels = [t \in Tunnels |-> 0]
  /\ executing = {"decoder"} /\ outputEnabled = FALSE /\ setupFailed = FALSE
  /\ inFree = InBuffers /\ decoding = 0 /\ inLost = 0
  /\ outFree = 0 /\ encoding = 0 /\ outLost = 0 /\ stale = 0

Goes(from, to) == reader = from /\ reader' = to

-----------------------------------------------------------------------------
(* supplyFrame: the pipeline *)

SupplyClearing ==   \* faulty: m_PipelineNeedsToSetup is cleared before the setup
  /\ Goes("outside", IF ~m_PipelineNeedsToSetup THEN "getInput"
                     ELSE IF m_PipelineSet THEN "clearNeeds" ELSE "configure")
  /\ m_PipelineNeedsToSetup' = FALSE
  /\ UNCHANGED <<m_PipelineSet, m_EncoderSet, events, pipe, ins, outs>>

Supply ==
  /\ Goes("outside", IF ~m_PipelineNeedsToSetup THEN "getInput"
                     ELSE IF m_PipelineSet THEN "clearNeeds" ELSE "configure")
  /\ UNCHANGED <<flags, events, pipe, ins, outs>>

ConfigureMarking ==   \* faulty: m_PipelineSet is set before the pipeline is
  /\ Goes("configure", "decoderTunnel")
  /\ m_PipelineSet' = TRUE
  /\ UNCHANGED <<m_PipelineNeedsToSetup, m_EncoderSet, events, pipe, ins, outs>>

\* The decoder's format is read and the encoder's parameters are set.
Configure ==
  /\ Goes("configure", "decoderTunnel") \/ Goes("configure", "outside")
  /\ UNCHANGED <<flags, events, pipe, ins, outs>>

TunnelSet(t) == tunnels' = [tunnels EXCEPT ![t] = IF @ = 0 THEN 1 ELSE 2]

SetDecoderTunnel ==
  /\ \/ Goes("decoderTunnel", "encoderTunnel") /\ TunnelSet("decoder")
     \/ Goes("decoderTunnel", "outside") /\ UNCHANGED tunnels
  /\ UNCHANGED <<flags, events, executing, outputEnabled, setupFailed, ins, outs>>

SetEncoderTunnel ==
  /\ \/ Goes("encoderTunnel", "enableOutput") /\ TunnelSet("encoder") /\ UNCHANGED setupFailed
     \/ Goes("encoderTunnel", "outside") /\ setupFailed' = TRUE /\ UNCHANGED tunnels
  /\ UNCHANGED <<flags, events, executing, outputEnabled, ins, outs>>

\* m_Encoder->enablePortBuffers(201)
EnableOutput ==
  /\ \/ /\ Goes("enableOutput", "execute")
        /\ outputEnabled' = TRUE
        /\ outFree' = IF outputEnabled THEN outFree ELSE OutBuffers
        /\ UNCHANGED setupFailed
     \/ /\ Goes("enableOutput", "outside")
        /\ setupFailed' = TRUE
        /\ UNCHANGED <<outputEnabled, outFree>>
  /\ UNCHANGED <<flags, events, tunnels, executing, ins, encoding, outLost, stale>>

\* The resizer, then the encoder, changes its state to executing.
Execute ==
  /\ \/ /\ Goes("execute", "markSet")
        /\ executing' = executing \cup {"resize", "encoder"}
        /\ UNCHANGED setupFailed
     \/ /\ Goes("execute", "outside")
        /\ executing' \in {executing, executing \cup {"resize"}}
        /\ setupFailed' = TRUE
  /\ UNCHANGED <<flags, events, tunnels, outputEnabled, ins, outs>>

MarkSetForgotten ==   \* faulty: m_PipelineSet is not set
  /\ Goes("markSet", "clearNeeds")
  /\ UNCHANGED <<flags, events, pipe, ins, outs>>

MarkSet ==
  /\ Goes("markSet", "clearNeeds")
  /\ m_PipelineSet' = TRUE
  /\ UNCHANGED <<m_PipelineNeedsToSetup, m_EncoderSet, events, pipe, ins, outs>>

ClearNeeds ==
  /\ Goes("clearNeeds", "getInput")
  /\ m_PipelineNeedsToSetup' = FALSE
  /\ UNCHANGED <<m_PipelineSet, m_EncoderSet, events, pipe, ins, outs>>

-----------------------------------------------------------------------------
(* supplyFrame: the buffers *)

\* getInputBuffer(130, true) blocks until there is one.
GetInput ==
  /\ inFree > 0
  /\ Goes("getInput", "fillInput")
  /\ inFree' = inFree - 1
  /\ UNCHANGED <<flags, events, pipe, decoding, inLost, outs>>

\* The buffer is too small, or emptyBuffer fails: supplyFrame forgets it.
LoseInput ==
  /\ Goes("fillInput", "outside")
  /\ inLost' = inLost + 1
  /\ UNCHANGED <<flags, events, pipe, inFree, decoding, outs>>

FillInputForgetting ==   \* faulty: an empty frame returns without emptyBuffer
  /\ Goes("fillInput", "testEncoder")
  /\ decoding' \in {decoding, decoding + 1}
  /\ UNCHANGED <<flags, events, pipe, inFree, inLost, outs>>

FillInput ==
  /\ Goes("fillInput", "testEncoder")
  /\ decoding' = decoding + 1
  /\ UNCHANGED <<flags, events, pipe, inFree, inLost, outs>>

TestEncoder ==
  /\ Goes("testEncoder", IF m_EncoderSet THEN "getOutput" ELSE "outside")
  /\ UNCHANGED <<flags, events, pipe, ins, outs>>

\* while ((buf = m_Encoder->getOutputBuffer(201, false)) != nullptr)
GetOutput ==
  /\ IF outFree > 0 THEN Goes("getOutput", "giveOutput") /\ outFree' = outFree - 1
                    ELSE Goes("getOutput", "outside") /\ UNCHANGED outFree
  /\ UNCHANGED <<flags, events, pipe, ins, encoding, outLost, stale>>

\* m_Encoder->fillBuffer(buf), also of a buf that is no buffer any more
GiveOutput ==
  /\ \/ Goes("giveOutput", "getOutput") /\ encoding' = encoding + (1 - stale) /\ UNCHANGED outLost
     \/ Goes("giveOutput", "outside") /\ outLost' = outLost + (1 - stale) /\ UNCHANGED encoding
  /\ stale' = 0
  /\ UNCHANGED <<flags, events, pipe, ins, outFree>>

-----------------------------------------------------------------------------
(* the decoder and its callbacks *)

\* onEmptyBufferDone does nothing; the client may get the buffer again.
EmptyBufferDone ==
  /\ decoding > 0
  /\ decoding' = decoding - 1 /\ inFree' = inFree + 1
  /\ UNCHANGED <<flags, reader, events, pipe, inLost, outs>>

DecoderReports ==
  /\ decoderEvent = "none"
  /\ decoderEvent' = "test" /\ asked' = TRUE
  /\ UNCHANGED <<flags, reader, encoderEvent, reported, pipe, ins, outs>>

\* if (!m_PipelineSet)
TestPipeline ==
  /\ decoderEvent = "test"
  /\ decoderEvent' = IF m_PipelineSet THEN "none" ELSE "need"
  /\ UNCHANGED <<flags, reader, encoderEvent, asked, reported, pipe, ins, outs>>

NeedSetup ==
  /\ decoderEvent = "need"
  /\ decoderEvent' = "none"
  /\ m_PipelineNeedsToSetup' = TRUE
  /\ UNCHANGED <<m_PipelineSet, m_EncoderSet, reader, encoderEvent, asked, reported, pipe, ins, outs>>

-----------------------------------------------------------------------------
(* the encoder and its callbacks, with m_Mutex, which nobody else takes *)

EncoderReports ==
  /\ encoderEvent = "none" /\ "encoder" \in executing
  /\ reported' = IF reported = 0 THEN 1 ELSE 2
  /\ encoderEvent' = "disable"
  /\ UNCHANGED <<flags, reader, decoderEvent, asked, pipe, ins, outs>>

\* All buffers of the port go, wherever they are.
TakePortDown ==
  /\ outputEnabled' = FALSE
  /\ outFree' = 0 /\ encoding' = 0 /\ outLost' = 0
  /\ stale' = IF reader = "giveOutput" THEN 1 ELSE 0

DisableOutputEarly ==   \* faulty: m_EncoderSet is set before the port is taken down
  /\ encoderEvent = "disable" /\ encoderEvent' = "enable"
  /\ TakePortDown
  /\ m_EncoderSet' = TRUE
  /\ UNCHANGED <<m_PipelineSet, m_PipelineNeedsToSetup, reader, decoderEvent, asked, reported,
                 tunnels, executing, setupFailed, ins>>

\* m_Encoder->disablePortBuffers(201)
DisableOutput ==
  /\ encoderEvent = "disable" /\ encoderEvent' = "enable"
  /\ TakePortDown
  /\ UNCHANGED <<flags, reader, decoderEvent, asked, reported, tunnels, executing, setupFailed, ins>>

\* m_Encoder->enablePortBuffers(201)
EnableOutputAgain ==
  /\ encoderEvent = "enable" /\ encoderEvent' = "set"
  /\ outputEnabled' = TRUE /\ outFree' = OutBuffers
  /\ UNCHANGED <<flags, reader, decoderEvent, asked, reported, tunnels, executing, setupFailed, ins,
                 encoding, outLost, stale>>

SetEncoder ==
  /\ encoderEvent = "set" /\ encoderEvent' = "none"
  /\ m_EncoderSet' = TRUE
  /\ UNCHANGED <<m_PipelineSet, m_PipelineNeedsToSetup, reader, decoderEvent, asked, reported,
                 pipe, ins, outs>>

\* onFillBufferDone gives the content to the output; then the client may get
\* the buffer again.
FillBufferDone ==
  /\ encoding > 0 /\ "encoder" \in executing
  /\ encoding' = encoding - 1 /\ outFree' = outFree + 1
  /\ UNCHANGED <<flags, reader, events, pipe, ins, outLost, stale>>

-----------------------------------------------------------------------------

Setup ==
  \/ Configure \/ SetDecoderTunnel \/ SetEncoderTunnel \/ EnableOutput \/ Execute
  \/ MarkSet \/ ClearNeeds

Buffers ==
  \/ GetInput \/ LoseInput \/ FillInput \/ TestEncoder \/ GetOutput \/ GiveOutput

Callback ==
  \/ TestPipeline \/ NeedSetup
  \/ DisableOutput \/ EnableOutputAgain \/ SetEncoder

Components == EmptyBufferDone \/ DecoderReports \/ EncoderReports \/ FillBufferDone

Next == Supply \/ Setup \/ Buffers \/ Callback \/ Components

Spec == Init /\ [][Next]_vars

-----------------------------------------------------------------------------

SettingUp == {"configure", "decoderTunnel", "encoderTunnel", "enableOutput", "execute", "markSet"}
Reader    == SettingUp \cup {"outside", "clearNeeds", "getInput", "fillInput", "testEncoder",
                             "getOutput", "giveOutput"}

\* Type invariant.
TypeOK ==
  /\ m_PipelineSet \in BOOLEAN /\ m_PipelineNeedsToSetup \in BOOLEAN /\ m_EncoderSet \in BOOLEAN
  /\ reader \in Reader
  /\ decoderEvent \in {"none", "test", "need"}
  /\ encoderEvent \in {"none", "disable", "enable", "set"}
  /\ asked \in BOOLEAN /\ reported \in 0 .. 2
  /\ tunnels \in [Tunnels -> 0 .. 2]
  /\ executing \subseteq {"decoder", "resize", "encoder"}
  /\ outputEnabled \in BOOLEAN /\ setupFailed \in BOOLEAN
  /\ inFree \in 0 .. InBuffers /\ decoding \in 0 .. InBuffers /\ inLost \in 0 .. InBuffers
  /\ outFree \in 0 .. OutBuffers /\ encoding \in 0 .. OutBuffers /\ outLost \in 0 .. OutBuffers
  /\ stale \in {0, 1}

\* Once m_PipelineSet is set, and it is never cleared, the pipeline is there:
\* both tunnels, and the components behind the decoder execute.
PipelineReady ==
  m_PipelineSet => /\ \A t \in Tunnels : tunnels[t] # 0
                   /\ {"resize", "encoder"} \subseteq executing

\* However reports of the decoder come before, during and after the setup, no
\* tunnel is set up twice, unless a setup has failed after its first tunnel.
TunnelsOnce == ~setupFailed => \A t \in Tunnels : tunnels[t] <= 1

\* While the callback of the encoder's first report takes its output port down
\* and up again, the reader has none of its buffers and the encoder has none
\* either; only a later report can take a buffer away from the reader.
OutputPortStable ==
  /\ (encoderEvent # "none" /\ reported = 1) =>
       (encoding = 0 /\ reader \notin {"getOutput", "giveOutput"})
  /\ stale = 1 => reported = 2

\* No report of the decoder is lost: when its callback is through, the pipeline
\* is set up or the next frame sets it up, however often a setup has failed.
ReportNotLost ==
  (asked /\ decoderEvent = "none") => (m_PipelineSet \/ m_PipelineNeedsToSetup)

\* No buffer is lost but by a call that failed, and none is made up: each is at
\* the client, at the component, in the hands of supplyFrame or was lost; one
\* whose port was taken down under supplyFrame is none.
BuffersConserved ==
  /\ inFree + decoding + inLost + (IF reader = "fillInput" THEN 1 ELSE 0) = InBuffers
  /\ outFree + encoding + outLost + (IF reader = "giveOutput" THEN 1 - stale ELSE 0)
       = (IF outputEnabled THEN OutBuffers ELSE 0)
  /\ stale = 1 => reader = "giveOutput"

\* What supplyFrame knows at each place of a setup that nobody else undoes.
SetupSoFar ==
  /\ reader \in SettingUp => ~m_PipelineSet
  /\ reader \in {"encoderTunnel", "enableOutput", "execute", "markSet"} => tunnels["decoder"] # 0
  /\ reader \in {"enableOutput", "execute", "markSet"} => tunnels["encoder"] # 0
  /\ reader = "markSet" => {"resize", "encoder"} \subseteq executing
  /\ "encoder" \in executing => m_PipelineSet \/ reader = "markSet"
  /\ (~setupFailed /\ ~m_PipelineSet) =>
       /\ tunnels["decoder"] # 0 =>
            reader \in {"encoderTunnel", "enableOutput", "execute", "markSet"}
       /\ tunnels["encoder"] # 0 => reader \in {"enableOutput", "execute", "markSet"}

\* m_EncoderSet is the last thing the callback of the encoder's first report
\* writes, and it stays.
EncoderSetLast ==
  /\ reported = 0 => encoderEvent = "none"
  /\ m_EncoderSet <=> (reported = 2 \/ (reported = 1 /\ encoderEvent = "none"))
  /\ reported # 0 => "encoder" \in executing
  /\ ~m_EncoderSet => /\ reader \notin {"getOutput", "giveOutput"}
                      /\ encoding = 0 /\ outLost = 0 /\ stale = 0
  /\ stale = 1 => reported = 2
  /\ "encoder" \in executing => (outputEnabled <=> encoderEvent # "enable")
  /\ reader \in {"execute", "markSet"} => outputEnabled \/ encoderEvent = "enable"

\* m_PipelineNeedsToSetup is cleared only when the pipeline is there.
NeedCleared ==
  /\ ReportNotLost
  /\ reader = "clearNeeds" => m_PipelineSet

\* The inductive invariant behind the safety properties above.
InductiveInv ==
  /\ TypeOK
  /\ PipelineReady
  /\ TunnelsOnce
  /\ BuffersConserved
  /\ SetupSoFar
  /\ EncoderSetLast
  /\ NeedCleared

\* A reader that waits for an input buffer either finds one, or the decoder has
\* one, or all are lost.
WaitsForDecoder ==
  reader = "getInput" => inFree > 0 \/ decoding > 0 \/ inLost = InBuffers

\* If all are lost, nothing that anybody does wakes it.
LostForGood ==
  [][(reader = "getInput" /\ inLost = InBuffers) => UNCHANGED <<reader, ins>>]_vars

\* A decoder that reports while the setup ends, or later, may still ask for a
\* setup; once one has succeeded supplyFrame does not begin another.
SetupOnce == [][m_PipelineSet => m_PipelineSet' /\ reader' \notin SettingUp]_vars

=============================================================================
