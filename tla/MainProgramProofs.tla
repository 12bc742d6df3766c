------------------------- MODULE MainProgramProofs -------------------------
(***************************************************************************)
(* Proofs that main() never destroys a source whose reader thread may      *)
(* still call it back, and that the whole file is read, of any length.     *)
(***************************************************************************)
EXTENDS MainProgram, TSSourceProofs

LEMMA MainInit == FileInit => InductiveInv /\ FinishedBeforeDying
BY InductiveInit, MainProgramAssumption
   DEF FileInit, Init, FinishedBeforeDying, At, Capturing

\* What main does is what a caller of the source may do.
LEMMA MainNextMaps == [MainNext]_allVars => [Next]_vars
<1> SUFFICES ASSUME [MainNext]_allVars PROVE [Next]_vars
  OBVIOUS
<1> USE MainProgramAssumption
<1>1. CASE MainStep
  BY <1>1 DEF MainStep, MainStarts, MainPolls, MainReturns, Call, Next
<1>2. CASE FileCallerStep(Owner)
  BY <1>2, FileCallerStepMaps DEF Next
<1>3. CASE FileReaderStep
  BY <1>3, FileReaderStepMaps DEF Next
<1>4. CASE UNCHANGED allVars
  BY <1>4 DEF allVars
<1> QED BY <1>1, <1>2, <1>3, <1>4 DEF MainNext

LEMMA MainStepPreserves ==
  ASSUME InductiveInv, FinishedBeforeDying, MainStep
  PROVE  FinishedBeforeDying'
<1> USE MainProgramAssumption
<1> USE DEF FinishedBeforeDying, At, Goto, Capturing
<1>1. TypeOK
  BY DEF InductiveInv
<1>2. CASE MainStarts
  BY <1>1, <1>2 DEF TypeOK, MainStarts, BeginStart, Enter
<1>3. CASE MainPolls
  BY <1>1, <1>3 DEF TypeOK, MainPolls, CallRunning, Running, Enter
<1>4. CASE MainReturns
  BY <1>1, <1>4 DEF TypeOK, MainReturns, BeginDestroy
<1> QED BY <1>2, <1>3, <1>4 DEF MainStep

LEMMA MainCallerPreserves ==
  ASSUME InductiveInv, FinishedBeforeDying, CallerStep(Owner)
  PROVE  FinishedBeforeDying'
<1> USE MainProgramAssumption
<1> USE DEF FinishedBeforeDying, At, Goto, Capturing
<1>1. TypeOK /\ CallsSeeReader /\ OwnerDestroys
  BY DEF InductiveInv
<1>2. CASE DoStart(Owner) \/ DoStartThrows(Owner)
  BY <1>1, <1>2 DEF TypeOK, CallsSeeReader, OwnerDestroys, DoStart, DoStartThrows
<1>3. CASE Spawn(Owner)
  BY <1>1, <1>3 DEF TypeOK, CallsSeeReader, Spawn
<1>4. CASE DoStop(Owner) \/ ClearStarted(Owner)
  BY <1>1, <1>4 DEF TypeOK, DoStop, ClearStarted
<1>5. CASE Join(Owner)
  BY <1>1, <1>5 DEF TypeOK, OwnerDestroys, Join, StopReturns
<1>6. CASE At(Owner, "destroy") /\ (StopAgain(Owner) \/ BeginStop(Owner))
  BY <1>1, <1>6 DEF TypeOK, OwnerDestroys, StopAgain, BeginStop, StopReturns
<1>7. CASE FinishDestroy(Owner)
  BY <1>1, <1>7 DEF TypeOK, FinishDestroy
<1> QED BY <1>2, <1>3, <1>4, <1>5, <1>6, <1>7 DEF CallerStep

LEMMA MainReaderPreserves ==
  ASSUME InductiveInv, FinishedBeforeDying, ReaderStep
  PROVE  FinishedBeforeDying'
<1> USE MainProgramAssumption
<1> USE DEF FinishedBeforeDying, TypeOK, At, Capturing, Ended, ReaderGoes
<1>0. TypeOK /\ TypeOK'
  BY ReaderPreserves DEF InductiveInv
<1>1. CASE EnterLoop
  BY <1>0, <1>1 DEF EnterLoop
<1>2. CASE TestStarted \/ Handle \/ Flush
  BY <1>0, <1>2 DEF TestStarted, Handle, Flush
<1>3. CASE \E to \in {"loop", "handle", "flush"} : ReadReturns(to)
  BY <1>0, <1>3 DEF ReadReturns
<1>4. CASE Finish \/ Cleanup
  BY <1>0, <1>4 DEF Finish, Cleanup
<1> QED BY <1>1, <1>2, <1>3, <1>4 DEF ReaderStep

LEMMA MainInductive ==
  InductiveInv /\ FinishedBeforeDying /\ [MainNext]_allVars
    => (InductiveInv /\ FinishedBeforeDying)'
<1> SUFFICES ASSUME InductiveInv, FinishedBeforeDying, [MainNext]_allVars
             PROVE  InductiveInv' /\ FinishedBeforeDying'
  OBVIOUS
<1>1. InductiveInv'
  BY MainNextMaps, InductiveNext
<1>2. CASE UNCHANGED vars
  BY <1>1, <1>2 DEF vars, FinishedBeforeDying, At
<1>3. CASE MainStep
  BY <1>1, <1>3, MainStepPreserves
<1>4. CASE FileCallerStep(Owner)
  BY <1>1, <1>2, <1>4, MainProgramAssumption, FileCallerStepMaps, MainCallerPreserves
<1>5. CASE FileReaderStep
  BY <1>1, <1>2, <1>5, FileReaderStepMaps, MainReaderPreserves
<1> QED BY <1>1, <1>2, <1>3, <1>4, <1>5 DEF MainNext, allVars

\* main() destroys the source only after it saw the capture finished, which it
\* cannot see early: m_ThreadFinished is never stale in a program that starts once.
THEOREM SourceFinishedBeforeDying == MainSpec => []FinishedBeforeDying
BY MainInit, MainInductive, PTL DEF MainSpec

\* main() destroys the source only when its reader thread has left the loop:
\* no callback of MySource is called after MySource is gone.
THEOREM CallbacksNotCalledWhenDying == MainSpec => []NoCallbackWhenDying
<1>1. FinishedBeforeDying => NoCallbackWhenDying
  BY DEF FinishedBeforeDying, NoCallbackWhenDying
<1> QED BY <1>1, SourceFinishedBeforeDying, PTL

-----------------------------------------------------------------------------

LEMMA ReadsInit == FileInit => ReadsWholeContent
BY MainProgramAssumption, FileSourceAssumption DEF FileInit, Init, ReadsWholeContent, At

LEMMA ReadsMainStep ==
  ASSUME InductiveInv, FinishedBeforeDying, ReadsWholeContent, MainStep
  PROVE  ReadsWholeContent'
<1> USE MainProgramAssumption
<1> USE DEF ReadsWholeContent, At, Goto, fileVars
<1>1. TypeOK
  BY DEF InductiveInv
<1>2. CASE MainStarts
  BY <1>1, <1>2 DEF TypeOK, MainStarts, BeginStart
<1>3. CASE MainPolls
  BY <1>1, <1>3 DEF TypeOK, MainPolls, CallRunning
<1>4. CASE MainReturns
  BY <1>1, <1>4 DEF TypeOK, MainReturns, BeginDestroy
<1> QED BY <1>2, <1>3, <1>4 DEF MainStep

LEMMA ReadsCallerStep ==
  ASSUME InductiveInv, FinishedBeforeDying, ReadsWholeContent, FileCallerStep(Owner)
  PROVE  ReadsWholeContent'
<1> USE MainProgramAssumption, FileSourceAssumption
<1> USE DEF ReadsWholeContent, At, Goto
<1>1. TypeOK /\ FinishedBeforeDying
  BY DEF InductiveInv
<1>2. CASE OpenAndKeep(Owner)
  BY <1>2 DEF OpenAndKeep
<1>3. CASE OpenAndPreload(Owner)
  BY <1>1, <1>3 DEF TypeOK, FinishedBeforeDying, OpenAndPreload, DoStart
<1>4. CASE OpenFails(Owner) \/ FormatFails(Owner)
  BY <1>1, <1>4 DEF TypeOK, FinishedBeforeDying, OpenFails, FormatFails, DoStartThrows
<1>5. CASE FileSpawn(Owner)
  <2>1. /\ reader = "none" /\ m_Offset = 0 /\ m_File = "null" /\ m_Content = Chunks
        /\ reader' = "created" /\ pc'[Owner] = "started" /\ delivered' = 0
        /\ UNCHANGED <<m_File, m_Content, m_Offset, reading>>
    BY <1>1, <1>5 DEF TypeOK, FinishedBeforeDying, FileSpawn, Spawn
  <2> QED BY <2>1
<1>6. CASE CloseFile(Owner)
  BY <1>6 DEF CloseFile, vars
<1>7. CASE ForgetFile(Owner)
  BY <1>1, <1>7 DEF TypeOK, ForgetFile, DoStop
<1>8. CASE CloseAndFinish(Owner)
  BY <1>1, <1>8 DEF TypeOK, CloseAndFinish, FinishDestroy
<1>9. CASE ClearStarted(Owner) /\ UNCHANGED fileVars
  BY <1>1, <1>9 DEF TypeOK, ClearStarted, fileVars
<1>10. CASE Join(Owner) /\ UNCHANGED fileVars
  BY <1>1, <1>10 DEF TypeOK, Join, StopReturns, fileVars
<1>11. CASE (StopAgain(Owner) \/ BeginStop(Owner)) /\ At(Owner, "destroy") /\ UNCHANGED fileVars
  BY <1>1, <1>11 DEF TypeOK, StopAgain, BeginStop, StopReturns, fileVars
<1> QED BY <1>2, <1>3, <1>4, <1>5, <1>6, <1>7, <1>8, <1>9, <1>10, <1>11 DEF FileCallerStep

LEMMA ReadsReaderStep ==
  ASSUME FinishedBeforeDying, ReadsWholeContent, FileReaderStep
  PROVE  ReadsWholeContent'
<1> USE MainProgramAssumption, FileSourceAssumption
<1> USE DEF ReadsWholeContent, At
<1>0. reader # "none" => pc[Owner] \notin {"idle", "doStart", "spawn"}
  BY DEF FinishedBeforeDying
<1>1. CASE TestFile
  BY <1>1 DEF TestFile, vars
<1>2. CASE ReadFile \/ ReadClosedFile
  BY <1>2 DEF ReadFile, ReadClosedFile
<1>3. CASE ReadContent
  <2>1. m_Content = Chunks /\ delivered = m_Offset /\ m_Offset \in 0 .. Chunks /\ m_File = "null"
    BY <1>3 DEF ReadContent
  <2>2. CASE m_Offset < m_Content
    <3>1. /\ reader' = "handle" /\ m_Offset' = m_Offset + 1 /\ delivered' = delivered + 1
          /\ reading' = "no" /\ reader = "read" /\ UNCHANGED <<pc, m_File, m_Content>>
      BY <1>3, <2>2 DEF ReadContent, ReadReturns, ReaderGoes
    <3>2. m_Offset + 1 \in 0 .. Chunks
      BY <2>1, <2>2
    <3>3. pc[Owner] \notin {"idle", "doStart", "spawn"}
      BY <1>0, <3>1
    <3> QED BY <2>1, <3>1, <3>2, <3>3
  <2>3. CASE ~(m_Offset < m_Content)
    BY <1>3, <2>1, <2>3 DEF ReadContent, ReadReturns, ReaderGoes
  <2> QED BY <2>2, <2>3
<1>4. CASE (EnterLoop \/ TestStarted \/ Handle \/ Flush \/ Finish \/ Cleanup) /\ UNCHANGED fileVars
  BY <1>4 DEF EnterLoop, TestStarted, Handle, Flush, Finish, Cleanup, ReaderGoes, fileVars
<1> QED BY <1>1, <1>2, <1>3, <1>4 DEF FileReaderStep

LEMMA ReadsInductive ==
  InductiveInv /\ FinishedBeforeDying /\ ReadsWholeContent /\ [MainNext]_allVars
    => ReadsWholeContent'
<1> SUFFICES ASSUME InductiveInv, FinishedBeforeDying, ReadsWholeContent, [MainNext]_allVars
             PROVE  ReadsWholeContent'
  OBVIOUS
<1>1. CASE UNCHANGED allVars
  BY <1>1 DEF allVars, vars, fileVars, ReadsWholeContent, At
<1> QED BY <1>1, ReadsMainStep, ReadsCallerStep, ReadsReaderStep DEF MainNext

\* When main() is told that the capture has ended by itself, the whole of the
\* preloaded file was delivered, whatever its length.
THEOREM WholeFileDelivered == MainSpec => []EosMeansAllDelivered
<1>1. ReadsWholeContent => EosMeansAllDelivered
  BY DEF ReadsWholeContent, EosMeansAllDelivered
<1>2. MainSpec => []ReadsWholeContent
  BY MainInit, MainInductive, ReadsInit, ReadsInductive, PTL DEF MainSpec
<1> QED BY <1>1, <1>2, PTL

-----------------------------------------------------------------------------
(* The program comes to its end *)

LEMMA WorkArithmetic ==
  ASSUME NEW n \in Nat, NEW o \in 0 .. n, NEW r \in 1 .. 8
  PROVE  /\ 4 * (n - o) + r \in Nat
         /\ \A o2 \in 0 .. n, r2 \in 1 .. 8 :
              (o2 = o /\ r2 < r) \/ (o2 = o + 1 /\ r = 5) => 4 * (n - o2) + r2 < 4 * (n - o) + r
<1>1. 4 * (n - o) + r \in Nat
  OBVIOUS
<1>2. ASSUME NEW r2 \in 1 .. 8, r2 < r PROVE 4 * (n - o) + r2 < 4 * (n - o) + r
  BY <1>2
<1>3. ASSUME NEW r2 \in 1 .. 8, r = 5 PROVE 4 * (n - (o + 1)) + r2 < 4 * (n - o) + r
  <2>1. 4 * (n - (o + 1)) = 4 * (n - o) - 4
    OBVIOUS
  <2> QED BY <1>3, <2>1
<1> QED BY <1>1, <1>2, <1>3

\* What the three invariants say of the ranks: they are natural numbers.
LEMMA MainWorkIsNat ==
  ASSUME InductiveInv, FinishedBeforeDying, ReadsWholeContent
  PROVE  /\ MainWork \in Nat /\ MainRank[pc[Owner]] \in 0 .. 11
         /\ reader # "none" =>
              /\ CaptureWork = 4 * (Chunks - m_Offset) + CaptureRank
              /\ CaptureRank \in 1 .. 8 /\ m_Offset \in 0 .. Chunks
<1> USE FileSourceAssumption
<1>1. TypeOK /\ OwnerDestroys
  BY DEF InductiveInv
<1>2. MainRank[pc[Owner]] \in 0 .. 11
  BY <1>1 DEF TypeOK, OwnerDestroys, FinishedBeforeDying, MainRank, At
<1>3. reader # "none" => CaptureRank \in 1 .. 8 /\ m_Offset \in 0 .. Chunks
  BY <1>1 DEF TypeOK, Capturing, Ended, CaptureRank, ReadsWholeContent
<1>4. reader # "none" => CaptureWork = 4 * (Chunks - m_Offset) + CaptureRank
  BY DEF CaptureWork, FinishedBeforeDying
<1>5. CaptureWork \in Nat
  BY <1>3, <1>4 DEF CaptureWork
<1> QED BY <1>2, <1>3, <1>4, <1>5 DEF MainWork

LEMMA MainWorkStaysNat ==
  (InductiveInv /\ FinishedBeforeDying /\ ReadsWholeContent)' => (MainWork \in Nat)'
<1>1. InductiveInv /\ FinishedBeforeDying /\ ReadsWholeContent => MainWork \in Nat
  BY MainWorkIsNat
<1> QED BY <1>1, PTL

LEMMA MainStepWorks ==
  ASSUME InductiveInv, FinishedBeforeDying, ReadsWholeContent, MainStep,
         MainWork \in Nat, MainRank[pc[Owner]] \in 0 .. 11
  PROVE  MainWork' < MainWork \/ UNCHANGED allVars
<1> USE MainProgramAssumption
<1>1. TypeOK /\ pc \in [{Owner} -> Outside \cup Inside]
  BY DEF InductiveInv, TypeOK
<1>2. pc' = pc \/ MainRank[pc'[Owner]] < MainRank[pc[Owner]]
  BY <1>1 DEF MainStep, MainStarts, MainPolls, MainReturns, BeginStart, CallRunning, BeginDestroy,
              Goto, At, MainRank
<1>3. UNCHANGED <<reader, m_Offset, reading>>
  BY DEF MainStep, MainStarts, MainPolls, MainReturns, BeginStart, CallRunning, BeginDestroy, fileVars
<1>4. pc[Owner] \in {"idle", "doStart", "spawn"} <=> pc'[Owner] \in {"idle", "doStart", "spawn"}
  BY <1>1 DEF MainStep, MainStarts, MainPolls, MainReturns, BeginStart, CallRunning, BeginDestroy,
              Goto, At
<1>5. CaptureWork' = CaptureWork
  BY <1>3, <1>4 DEF CaptureWork, CaptureRank
<1>6. MainRank[pc'[Owner]] \in 0 .. 11 \/ pc' = pc
  BY <1>1 DEF MainStep, MainStarts, MainPolls, MainReturns, BeginStart, CallRunning, BeginDestroy,
              Goto, At, MainRank
<1>7. pc' = pc => UNCHANGED allVars
  BY <1>1 DEF MainStep, MainStarts, MainPolls, MainReturns, BeginStart, CallRunning, BeginDestroy,
              Goto, At, allVars, vars, fileVars
<1>8. CaptureWork \in Nat
  <2>1. CASE reader = "none"
    BY <2>1, FileSourceAssumption DEF CaptureWork
  <2>2. CASE reader # "none"
    BY <2>2, MainWorkIsNat, FileSourceAssumption
  <2> QED BY <2>1, <2>2
<1> QED BY <1>2, <1>5, <1>6, <1>7, <1>8 DEF MainWork

LEMMA MainCallerWorks ==
  ASSUME InductiveInv, FinishedBeforeDying, ReadsWholeContent, FileCallerStep(Owner),
         (InductiveInv /\ FinishedBeforeDying /\ ReadsWholeContent)'
  PROVE  MainWork' < MainWork
<1> USE MainProgramAssumption, FileSourceAssumption
<1>1. TypeOK /\ pc \in [{Owner} -> Outside \cup Inside] /\ CallsSeeReader /\ OwnerDestroys
  BY DEF InductiveInv, TypeOK
<1>2. ~CloseFile(Owner)
  BY <1>1 DEF CloseFile, CallsSeeReader, ReadsWholeContent, At
<1>3. /\ MainRank[pc'[Owner]] < MainRank[pc[Owner]]
      /\ MainRank[pc'[Owner]] \in 0 .. 11 /\ MainRank[pc[Owner]] \in 0 .. 11
  <2>1. CASE OpenAndKeep(Owner) \/ OpenAndPreload(Owner)
    BY <1>1, <2>1 DEF OpenAndKeep, OpenAndPreload, DoStart, Goto, At, MainRank
  <2>2. CASE OpenFails(Owner) \/ FormatFails(Owner)
    BY <1>1, <2>2 DEF OpenFails, FormatFails, DoStartThrows, Goto, At, MainRank
  <2>3. CASE FileSpawn(Owner)
    BY <1>1, <2>3 DEF FileSpawn, Spawn, Goto, At, MainRank
  <2>4. CASE ForgetFile(Owner) \/ CloseAndFinish(Owner)
    BY <1>1, <2>4 DEF ForgetFile, CloseAndFinish, DoStop, FinishDestroy, Goto, At, MainRank
  <2>5. CASE ClearStarted(Owner)
    BY <1>1, <2>5 DEF ClearStarted, Goto, At, MainRank
  <2>6. CASE Join(Owner)
    <3>1. object = "dying"
      BY <1>1, <2>6 DEF Join, At, FinishedBeforeDying, OwnerDestroys, TypeOK
    <3> QED BY <1>1, <2>6, <3>1 DEF Join, StopReturns, Goto, At, MainRank
  <2>7. CASE At(Owner, "destroy") /\ (StopAgain(Owner) \/ BeginStop(Owner))
    <3>1. object = "dying"
      BY <1>1, <2>7 DEF At, FinishedBeforeDying, OwnerDestroys, TypeOK
    <3> QED BY <1>1, <2>7, <3>1 DEF StopAgain, BeginStop, StopReturns, Goto, At, MainRank
  <2> QED BY <1>2, <2>1, <2>2, <2>3, <2>4, <2>5, <2>6, <2>7 DEF FileCallerStep
<1>4. CaptureWork \in Nat /\ CaptureWork' \in Nat /\ CaptureWork' <= CaptureWork
  <2>1. CASE OpenAndKeep(Owner) \/ OpenAndPreload(Owner)
    BY <1>1, <2>1 DEF OpenAndKeep, OpenAndPreload, DoStart, Goto, At, CaptureWork
  <2>2. CASE OpenFails(Owner) \/ FormatFails(Owner)
    BY <1>1, <2>2 DEF OpenFails, FormatFails, DoStartThrows, Goto, At, CaptureWork, CallsSeeReader
  <2>3. CASE FileSpawn(Owner)
    BY <1>1, <2>3 DEF FileSpawn, Spawn, Goto, At, CaptureWork, CaptureRank, ReadsWholeContent,
                      FinishedBeforeDying
  <2>4. CASE Join(Owner) /\ UNCHANGED fileVars
    <3>1. reader = "exited" /\ reader' = "none" /\ pc'[Owner] \notin {"idle", "doStart", "spawn"}
      BY <1>1, <2>4 DEF Join, StopReturns, Goto, At
    <3>2. CaptureWork' = 0
      BY <3>1 DEF CaptureWork
    <3>3. CaptureWork \in Nat
      BY <3>1, MainWorkIsNat
    <3> QED BY <3>2, <3>3
  <2>5. CASE \/ ForgetFile(Owner) \/ CloseAndFinish(Owner)
             \/ ClearStarted(Owner) /\ UNCHANGED fileVars
             \/ At(Owner, "destroy") /\ (StopAgain(Owner) \/ BeginStop(Owner)) /\ UNCHANGED fileVars
    <3>1. UNCHANGED <<reader, m_Offset, reading>>
      BY <2>5 DEF ForgetFile, CloseAndFinish, DoStop, FinishDestroy, ClearStarted, StopAgain,
                  BeginStop, fileVars
    <3>2. {pc[Owner], pc'[Owner]} \cap {"idle", "doStart", "spawn"} = {}
      BY <1>1, <2>5 DEF ForgetFile, CloseAndFinish, DoStop, FinishDestroy, ClearStarted, StopAgain,
                        BeginStop, StopReturns, Goto, At
    <3>3. CaptureWork' = CaptureWork
      BY <3>1, <3>2 DEF CaptureWork, CaptureRank
    <3>4. CaptureWork \in Nat
      <4>1. CASE reader = "none"
        BY <3>2, <4>1 DEF CaptureWork
      <4>2. CASE reader # "none"
        BY <4>2, MainWorkIsNat
      <4> QED BY <4>1, <4>2
    <3> QED BY <3>3, <3>4
  <2> QED BY <1>2, <2>1, <2>2, <2>3, <2>4, <2>5 DEF FileCallerStep
<1> QED BY <1>3, <1>4 DEF MainWork

LEMMA MainReaderWorks ==
  ASSUME InductiveInv, FinishedBeforeDying, ReadsWholeContent, FileReaderStep,
         (InductiveInv /\ FinishedBeforeDying /\ ReadsWholeContent)'
  PROVE  MainWork' < MainWork
<1> USE MainProgramAssumption, FileSourceAssumption
<1>1. TypeOK /\ TypeOK' /\ reader # "none" /\ reader' # "none" /\ pc' = pc
  BY DEF InductiveInv, FileReaderStep, TestFile, ReadFile, ReadClosedFile, ReadContent, ReadReturns,
         EnterLoop, TestStarted, Handle, Flush, Finish, Cleanup, ReaderGoes, vars
<1>2. /\ CaptureWork = 4 * (Chunks - m_Offset) + CaptureRank
      /\ CaptureRank \in 1 .. 8 /\ m_Offset \in 0 .. Chunks
      /\ MainRank[pc[Owner]] \in 0 .. 11
  BY <1>1, MainWorkIsNat
<1>3. CaptureRank' \in 1 .. 8 /\ m_Offset' \in 0 .. Chunks
  BY <1>1 DEF TypeOK, Capturing, Ended, CaptureRank, ReadsWholeContent
<1>4. CaptureWork' = 4 * (Chunks - m_Offset') + CaptureRank'
  BY <1>1 DEF CaptureWork, FinishedBeforeDying
<1>5. \/ m_Offset' = m_Offset /\ CaptureRank' < CaptureRank
      \/ m_Offset' = m_Offset + 1 /\ CaptureRank = 5
  <2>1. CASE TestFile
    BY <1>1, <2>1 DEF TestFile, CaptureRank, ReadsWholeContent, vars
  <2>2. CASE ReadFile \/ ReadClosedFile
    BY <2>2 DEF ReadFile, ReadClosedFile, ReadsWholeContent
  <2>3. CASE ReadContent
    BY <2>3 DEF ReadContent, ReadReturns, ReaderGoes, CaptureRank
  <2>4. CASE (EnterLoop \/ TestStarted \/ Handle \/ Flush \/ Finish \/ Cleanup) /\ UNCHANGED fileVars
    <3>1. reading # "content" /\ reading' = reading /\ m_Offset' = m_Offset
      BY <2>4 DEF EnterLoop, TestStarted, Handle, Flush, Finish, Cleanup, ReaderGoes, fileVars,
                  ReadsWholeContent
    <3> QED BY <2>4, <3>1 DEF EnterLoop, TestStarted, Handle, Flush, Finish, Cleanup, ReaderGoes,
                              CaptureRank
  <2> QED BY <2>1, <2>2, <2>3, <2>4 DEF FileReaderStep
<1>6. CaptureWork' < CaptureWork
  BY <1>2, <1>3, <1>4, <1>5, WorkArithmetic
<1>7. CaptureWork \in Nat /\ CaptureWork' \in Nat
  BY <1>2, <1>3, <1>4, WorkArithmetic
<1> QED BY <1>1, <1>2, <1>6, <1>7 DEF MainWork

\* In whichever order main and the reader run, whatever the length of the file
\* and whatever fails, each step that changes anything leaves less to do: the
\* program can only run out of steps.
THEOREM MainRunsOut == MainSpec => WorkFalls
<1> DEFINE Inv == InductiveInv /\ FinishedBeforeDying /\ ReadsWholeContent
<1>1. Inv /\ [MainNext]_allVars => Inv'
  BY MainInductive, ReadsInductive
<1>2. Inv /\ Inv' /\ [MainNext]_allVars
        => [MainWork' < MainWork /\ {MainWork, MainWork'} \subseteq Nat]_allVars
  <2> SUFFICES ASSUME Inv, Inv', MainNext, allVars' # allVars
               PROVE  MainWork' < MainWork /\ MainWork \in Nat /\ MainWork' \in Nat
    OBVIOUS
  <2>1. MainWork \in Nat /\ MainRank[pc[Owner]] \in 0 .. 11
    BY MainWorkIsNat
  <2>2. MainWork' \in Nat
    BY MainWorkStaysNat
  <2>3. MainWork' < MainWork
    BY <2>1, MainStepWorks, MainCallerWorks, MainReaderWorks DEF MainNext
  <2> QED BY <2>1, <2>2, <2>3
<1> QED BY <1>1, <1>2, MainInit, ReadsInit, PTL DEF MainSpec, WorkFalls

=============================================================================
