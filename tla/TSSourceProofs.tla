--------------------------- MODULE TSSourceProofs ---------------------------
(***************************************************************************)
(* Proofs of the safety properties of TSSource for every set of callers,   *)
(* and of its two sources.  Both keep the protocol of TSSource.  DVBSource *)
(* loses no device, and reads a descriptor that is closed or used again    *)
(* only while a stop() is in progress.  FileSource loses no FILE if every  *)
(* file that opens is accepted, and delivers the file it reads, for every  *)
(* file, with or without preloading.                                       *)
(***************************************************************************)
EXTENDS DVBSource, FileSource, TLAPS

LEMMA InductiveInit == Init => InductiveInv
BY TSSourceAssumption
   DEF Init, InductiveInv, TypeOK, CallsSeeReader, OwnerDestroys, FinishedMeansEnded,
       At, Outside, Inside, Locked, Capturing, Ended

\* The actions of a caller that is not inside: nothing but its own place
\* changes, or it takes the mutex.
LEMMA CallPreserves ==
  ASSUME InductiveInv, NEW c \in Callers, Call(c)
  PROVE  InductiveInv'
<1> USE TSSourceAssumption
<1> USE DEF InductiveInv, TypeOK, CallsSeeReader, OwnerDestroys, FinishedMeansEnded,
            At, Outside, Inside, Locked, Capturing, Ended, Goto, Lock, Unlock
<1>1. CASE StartAgain(c)
  BY <1>1 DEF StartAgain, Enter
<1>2. CASE BeginStart(c)
  BY <1>2 DEF BeginStart, Enter
<1>3. CASE pc[c] \in Outside /\ StopAgain(c)
  BY <1>3 DEF StopAgain, StopCalled, StopReturns, Enter
<1>4. CASE pc[c] \in Outside /\ BeginStop(c)
  BY <1>4 DEF BeginStop, StopCalled, Enter
<1>5. CASE CallRunning(c)
  BY <1>5 DEF CallRunning, Enter
<1>6. CASE BeginDestroy(c)
  BY <1>6 DEF BeginDestroy
<1> QED BY <1>1, <1>2, <1>3, <1>4, <1>5, <1>6 DEF Call

\* A call in progress, which holds the mutex or destroys the source.
LEMMA CallerStepPreserves ==
  ASSUME InductiveInv, NEW c \in Callers, CallerStep(c)
  PROVE  InductiveInv'
<1> USE TSSourceAssumption
<1> USE DEF InductiveInv, TypeOK, CallsSeeReader, OwnerDestroys, FinishedMeansEnded,
            At, Outside, Inside, Locked, Capturing, Ended, Goto, Lock, Unlock
<1>1. CASE DoStart(c)
  BY <1>1 DEF DoStart
<1>2. CASE DoStartThrows(c)
  BY <1>2 DEF DoStartThrows
<1>3. CASE Spawn(c)
  BY <1>3 DEF Spawn
<1>4. CASE DoStop(c)
  BY <1>4 DEF DoStop
<1>5. CASE ClearStarted(c)
  BY <1>5 DEF ClearStarted
<1>6. CASE Join(c)
  BY <1>6 DEF Join, StopReturns
<1>7. CASE At(c, "destroy") /\ StopAgain(c)
  BY <1>7 DEF StopAgain, StopCalled, StopReturns, Enter
<1>8. CASE At(c, "destroy") /\ BeginStop(c)
  BY <1>8 DEF BeginStop, StopCalled, Enter
<1>9. CASE FinishDestroy(c)
  BY <1>9 DEF FinishDestroy
<1> QED BY <1>1, <1>2, <1>3, <1>4, <1>5, <1>6, <1>7, <1>8, <1>9 DEF CallerStep

\* The reader thread never leaves its states by itself, and reports that it
\* has finished only behind its last use of the source.
LEMMA ReaderPreserves ==
  ASSUME InductiveInv, ReaderStep
  PROVE  InductiveInv'
<1> USE TSSourceAssumption
<1> USE DEF InductiveInv, TypeOK, CallsSeeReader, OwnerDestroys, FinishedMeansEnded,
            At, Outside, Inside, Locked, Capturing, Ended, ReaderGoes
<1>1. CASE EnterLoop
  BY <1>1 DEF EnterLoop
<1>2. CASE TestStarted
  BY <1>2 DEF TestStarted
<1>3. ASSUME NEW to \in {"loop", "handle", "flush"}, ReadReturns(to)
      PROVE  InductiveInv'
  BY <1>3 DEF ReadReturns
<1>4. CASE Handle
  BY <1>4 DEF Handle
<1>5. CASE Flush
  BY <1>5 DEF Flush
<1>6. CASE Finish
  BY <1>6 DEF Finish
<1>7. CASE Cleanup
  BY <1>7 DEF Cleanup
<1> QED BY <1>1, <1>2, <1>3, <1>4, <1>5, <1>6, <1>7 DEF ReaderStep

LEMMA InductiveNext == InductiveInv /\ [Next]_vars => InductiveInv'
<1> SUFFICES ASSUME InductiveInv, [Next]_vars PROVE InductiveInv'
  OBVIOUS
<1>1. CASE Next
  BY <1>1, CallPreserves, CallerStepPreserves, ReaderPreserves DEF Next
<1>2. CASE UNCHANGED vars
  BY <1>2 DEF vars, InductiveInv, TypeOK, CallsSeeReader, OwnerDestroys, FinishedMeansEnded, At
<1> QED BY <1>1, <1>2

\* Whatever the callers do, the type invariant holds and what each call knows
\* of the reader thread stays true.
THEOREM Invariance == Spec => []InductiveInv
BY InductiveInit, InductiveNext, PTL DEF Spec

\* The mutex is held exactly by the caller inside start or stop.
THEOREM TypeCorrect == Spec => []TypeOK
BY Invariance, PTL DEF InductiveInv

LEMMA InductiveReaderNotOrphaned == InductiveInv => NoOrphanReader
BY TSSourceAssumption
   DEF InductiveInv, TypeOK, CallsSeeReader, OwnerDestroys, NoOrphanReader, At, Outside, Locked

\* The source never loses its reader thread: between calls one exists exactly if
\* the source is started, and none when the source is gone.
THEOREM ReaderNotOrphaned == Spec => []NoOrphanReader
BY Invariance, InductiveReaderNotOrphaned, PTL

\* A caller that sees the reader finished knows that it delivers nothing more.
THEOREM FinishedReaderEnded == Spec => []FinishedMeansEnded
BY Invariance, PTL DEF InductiveInv

\* Only spawn creates a reader, and it finds none.
LEMMA SpawnFindsNoReader ==
  ASSUME InductiveInv, Next, reader' = "created", reader # "created"
  PROVE  reader = "none"
<1>1. ~ReaderStep
  BY DEF ReaderStep, ReaderGoes, EnterLoop, TestStarted, ReadReturns, Handle, Flush,
         Finish, Cleanup
<1>2. ASSUME NEW c \in Callers, Call(c) PROVE FALSE
  BY <1>2 DEF Call, StartAgain, BeginStart, StopAgain, BeginStop, CallRunning, BeginDestroy
<1>3. PICK c \in Callers : CallerStep(c)
  BY <1>1, <1>2 DEF Next
<1>4. At(c, "spawn")
  BY <1>3 DEF CallerStep, DoStart, DoStartThrows, Spawn, DoStop, ClearStarted, Join,
              StopAgain, BeginStop, FinishDestroy
<1> QED BY <1>4 DEF InductiveInv, CallsSeeReader

\* What a step of the protocol does to a reader that a caller joins, before and
\* after the step.
LEMMA JoinedReaderDescends ==
  ASSUME InductiveInv, Next, NEW c \in Callers, At(c, "join"), At(c, "join")', reader' # reader
  PROVE  ReaderRank[reader'] < ReaderRank[reader]
<1>1. TypeOK /\ mutex = c /\ ~m_Started
  BY TSSourceAssumption DEF InductiveInv, CallsSeeReader, TypeOK, Locked, At
<1>2. ASSUME NEW d \in Callers, Call(d) PROVE FALSE
  BY <1>2 DEF Call, StartAgain, BeginStart, StopAgain, BeginStop, CallRunning, BeginDestroy
<1>3. ASSUME NEW d \in Callers, CallerStep(d) PROVE FALSE
  <2>1. d = c
    <3> SUFFICES ASSUME d # c PROVE FALSE
      OBVIOUS
    <3>1. pc[d] \notin Locked
      BY <1>1 DEF TypeOK
    <3>2. ~At(d, "spawn") /\ ~At(d, "join")
      BY <3>1 DEF Locked, At
    <3> QED BY <1>3, <3>2 DEF CallerStep, DoStart, DoStartThrows, Spawn, DoStop, ClearStarted,
                              Join, StopAgain, BeginStop, FinishDestroy
  <2>2. Join(c)
    BY <1>3, <2>1 DEF CallerStep, DoStart, DoStartThrows, Spawn, DoStop, ClearStarted,
                      StopAgain, BeginStop, FinishDestroy, At
  <2> QED BY <1>1, <2>2 DEF Join, StopReturns, Goto, TypeOK, At
<1>4. ReaderStep
  BY <1>2, <1>3 DEF Next
<1> QED BY <1>1, <1>4 DEF ReaderStep, ReaderGoes, EnterLoop, TestStarted, ReadReturns, Handle,
                          Flush, Finish, Cleanup, ReaderRank

\* The safety properties follow from the protocol alone, without fairness: every
\* source whose steps are steps of TSSource has them.
LEMMA ProtocolIsSafe ==
  Init /\ [][Next]_vars =>
    /\ []NoOrphanReader /\ []FinishedMeansEnded
    /\ OneReader /\ JoinDescends
<1>1. InductiveInv => FinishedMeansEnded
  BY DEF InductiveInv
<1>2. InductiveInv /\ [Next]_vars =>
        [(reader' = "created" /\ reader # "created") => reader = "none"]_vars
  BY SpawnFindsNoReader
<1>3. InductiveInv /\ [Next]_vars =>
        [\A c \in Callers : (At(c, "join") /\ At(c, "join")' /\ reader' # reader)
                              => ReaderRank[reader'] < ReaderRank[reader]]_vars
  BY JoinedReaderDescends
<1> QED BY <1>1, <1>2, <1>3, InductiveInit, InductiveNext, InductiveReaderNotOrphaned, PTL
        DEF OneReader, JoinDescends

\* start() never replaces a thread that was not joined.
THEOREM OneReaderAtATime == Spec => OneReader
BY ProtocolIsSafe, PTL DEF Spec

\* The reader that stop() waits for comes closer to its end with each of its
\* steps, and nobody sets it back.
THEOREM JoinedReaderEnds == Spec => JoinDescends
BY ProtocolIsSafe, PTL DEF Spec

-----------------------------------------------------------------------------
(* DVBSource *)

\* What a caller of a DVBSource does is what a caller of a TSSource does.
LEMMA DvbCallerStepMaps ==
  ASSUME NEW c \in Callers, DvbCallerStep(c)
  PROVE  CallerStep(c) \/ UNCHANGED vars
<1>1. CASE OpenDemux(c) \/ OpenDemuxFails(c)
  BY <1>1 DEF OpenDemux, OpenDemuxFails, CallerStep
<1>2. CASE CloseDemux(c)
  BY <1>2 DEF CloseDemux, vars
<1>3. CASE ForgetDemux(c) \/ CloseFrontend(c)
  BY <1>3 DEF ForgetDemux, CloseFrontend, CallerStep
<1>4. CASE Spawn(c) \/ ClearStarted(c) \/ Join(c)
           \/ (At(c, "destroy") /\ (StopAgain(c) \/ BeginStop(c)))
  BY <1>4 DEF CallerStep
<1> QED BY <1>1, <1>2, <1>3, <1>4 DEF DvbCallerStep

\* What its reader thread does is what the reader of a TSSource does.
LEMMA DvbReaderStepMaps ==
  ASSUME DvbReaderStep
  PROVE  ReaderStep \/ UNCHANGED vars
<1>1. CASE TestDemux
  BY <1>1 DEF TestDemux, vars
<1>2. CASE ReadDemux
  <2>1. \E to \in {"loop", "handle", "flush"} : ReadReturns(to)
    BY <1>2 DEF ReadDemux
  <2> QED BY <2>1 DEF ReaderStep
<1>3. CASE EnterLoop \/ TestStarted \/ Handle \/ Finish \/ Cleanup
  BY <1>3 DEF ReaderStep
<1> QED BY <1>1, <1>2, <1>3 DEF DvbReaderStep

LEMMA DvbNextMaps == [DvbNext]_dvbAllVars => [Next]_vars
<1> SUFFICES ASSUME [DvbNext]_dvbAllVars PROVE [Next]_vars
  OBVIOUS
<1>1. CASE OpenFrontend
  BY <1>1 DEF OpenFrontend
<1>2. CASE DvbReaderStep
  BY <1>2, DvbReaderStepMaps DEF Next
<1>3. ASSUME NEW c \in Callers, DvbCallerStep(c) PROVE [Next]_vars
  BY <1>3, DvbCallerStepMaps DEF Next
<1>4. ASSUME NEW c \in Callers, Call(c) PROVE Next
  BY <1>4 DEF Next
<1>5. CASE UNCHANGED dvbAllVars
  BY <1>5 DEF dvbAllVars
<1> QED BY <1>1, <1>2, <1>3, <1>4, <1>5 DEF DvbNext

\* A DVBSource keeps the protocol of TSSource: it starts as one and each of its
\* steps is one of its steps or leaves its variables alone.
THEOREM DvbKeepsProtocol == DvbSpec => Init /\ [][Next]_vars
<1>1. DvbInit => Init
  BY DEF DvbInit
<1> QED BY <1>1, DvbNextMaps, PTL DEF DvbSpec

\* So a DVBSource has its safety properties, whatever its devices do.
THEOREM DvbInheritsSafety ==
  DvbSpec => /\ []NoOrphanReader /\ []FinishedMeansEnded
             /\ OneReader /\ JoinDescends
BY DvbKeepsProtocol, ProtocolIsSafe, PTL

-----------------------------------------------------------------------------

LEMMA DvbInductiveInit == DvbInit => DvbInductiveInv
BY InductiveInit DEF DvbInit, DvbInductiveInv, Init, At

LEMMA DvbCallerPreserves ==
  ASSUME DvbInductiveInv, NEW c \in Callers, DvbCallerStep(c), InductiveInv'
  PROVE  DvbInductiveInv'
<1> USE TSSourceAssumption
<1> USE DEF DvbInductiveInv, At
<1>1. TypeOK /\ CallsSeeReader
  BY DEF InductiveInv
<1>2. CASE OpenDemux(c)
  BY <1>1, <1>2 DEF OpenDemux, DoStart, TypeOK, CallsSeeReader, Locked, Goto
<1>3. CASE OpenDemuxFails(c)
  BY <1>1, <1>3 DEF OpenDemuxFails, DoStartThrows, TypeOK, CallsSeeReader, Goto, Unlock
<1>4. CASE CloseDemux(c)
  BY <1>1, <1>4 DEF CloseDemux, CallsSeeReader, vars
<1>5. CASE ForgetDemux(c)
  BY <1>1, <1>5 DEF ForgetDemux, DoStop, TypeOK, Goto
<1>6. CASE CloseFrontend(c)
  BY <1>1, <1>6 DEF CloseFrontend, FinishDestroy, TypeOK, Goto
<1>7. CASE Spawn(c) /\ UNCHANGED dvbVars
  BY <1>1, <1>7 DEF Spawn, TypeOK, CallsSeeReader, Goto, Unlock, dvbVars
<1>8. CASE ClearStarted(c) /\ UNCHANGED dvbVars
  BY <1>1, <1>8 DEF ClearStarted, TypeOK, Locked, Goto, dvbVars
<1>9. CASE Join(c) /\ UNCHANGED dvbVars
  BY <1>1, <1>9 DEF Join, StopReturns, TypeOK, Goto, Unlock, dvbVars
<1>10. CASE At(c, "destroy") /\ (StopAgain(c) \/ BeginStop(c)) /\ UNCHANGED dvbVars
  BY <1>1, <1>10 DEF StopAgain, BeginStop, StopReturns, TypeOK, Goto, Lock, dvbVars
<1> QED BY <1>2, <1>3, <1>4, <1>5, <1>6, <1>7, <1>8, <1>9, <1>10 DEF DvbCallerStep

LEMMA DvbCallPreserves ==
  ASSUME DvbInductiveInv, NEW c \in Callers, Call(c), UNCHANGED dvbVars, InductiveInv'
  PROVE  DvbInductiveInv'
<1>1. TypeOK
  BY DEF DvbInductiveInv, InductiveInv
<1>2. UNCHANGED <<m_Started, reader>> /\ object' \in {object, "dying"} /\ object # "gone"
  BY <1>1 DEF Call, StartAgain, BeginStart, StopAgain, BeginStop, CallRunning, BeginDestroy,
              StopCalled, Enter, At, Outside
<1>3. \A d \in Callers :
        /\ At(d, "clear")' <=> At(d, "clear")
        /\ At(d, "doStop") => At(d, "doStop")'
  BY <1>1 DEF TypeOK, Call, StartAgain, BeginStart, StopAgain, BeginStop, CallRunning, BeginDestroy,
              StopReturns, Goto, At, Outside, Enter
<1> QED BY <1>2, <1>3 DEF DvbInductiveInv, dvbVars, At

LEMMA DvbReaderPreserves ==
  ASSUME DvbInductiveInv, DvbReaderStep, InductiveInv'
  PROVE  DvbInductiveInv'
<1> USE DEF DvbInductiveInv, At
<1>1. CASE TestDemux
  BY <1>1 DEF TestDemux, vars
<1>2. CASE ReadDemux
  BY <1>2 DEF ReadDemux, ReadReturns, ReaderGoes
<1>3. CASE (EnterLoop \/ TestStarted \/ Handle \/ Finish \/ Cleanup) /\ UNCHANGED dvbVars
  BY <1>3 DEF EnterLoop, TestStarted, Handle, Finish, Cleanup, ReaderGoes, dvbVars
<1> QED BY <1>1, <1>2, <1>3 DEF DvbReaderStep

LEMMA DvbInductiveNext == DvbInductiveInv /\ [DvbNext]_dvbAllVars => DvbInductiveInv'
<1> SUFFICES ASSUME DvbInductiveInv, [DvbNext]_dvbAllVars PROVE DvbInductiveInv'
  OBVIOUS
<1>1. InductiveInv'
  BY DvbNextMaps, InductiveNext DEF DvbInductiveInv
<1>2. CASE UNCHANGED dvbAllVars
  BY <1>1, <1>2 DEF DvbInductiveInv, dvbAllVars, vars, dvbVars, At
<1>3. CASE OpenFrontend
  BY <1>1, <1>3 DEF OpenFrontend, DvbInductiveInv, vars, At
<1>4. CASE DvbNext /\ ~OpenFrontend
  BY <1>1, <1>4, DvbReaderPreserves, DvbCallerPreserves, DvbCallPreserves DEF DvbNext
<1> QED BY <1>2, <1>3, <1>4

\* What each step of a call knows of the descriptor stays true.
THEOREM DvbInvariance == DvbSpec => []DvbInductiveInv
BY DvbInductiveInit, DvbInductiveNext, PTL DEF DvbSpec

\* The demultiplexer and the frontend are closed on every path.
THEOREM DevicesClosed == DvbSpec => []DevicesNotLeaked
<1>1. DvbInductiveInv => DevicesNotLeaked
  BY DEF DvbInductiveInv, InductiveInv, OwnerDestroys, DevicesNotLeaked
<1> QED BY <1>1, DvbInvariance, PTL

\* Without a lock, the reader still uses a stale descriptor only inside stop().
THEOREM StaleReadsConfined == DvbSpec => []StaleReadOnlyInStop
<1>1. DvbInductiveInv => StaleReadOnlyInStop
  <2> SUFFICES ASSUME DvbInductiveInv, demuxRead # "no", m_DemuxIO # "open"
               PROVE  \E c \in Callers : pc[c] \in {"doStop", "clear", "join"}
    BY DEF StaleReadOnlyInStop
  <2>1. CASE m_Started
    BY <2>1 DEF DvbInductiveInv
  <2>2. CASE ~m_Started
    <3>1. reader # "none" /\ TypeOK /\ CallsSeeReader
      BY DEF DvbInductiveInv, InductiveInv
    <3>2. mutex \in Callers
      BY <2>2, <3>1 DEF CallsSeeReader, TypeOK
    <3> QED BY <3>1, <3>2 DEF CallsSeeReader, TypeOK, Locked, At
  <2> QED BY <2>1, <2>2
<1> QED BY <1>1, DvbInvariance, PTL

-----------------------------------------------------------------------------
(* FileSource *)

\* What a caller of a FileSource does is what a caller of a TSSource does.
LEMMA FileCallerStepMaps ==
  ASSUME NEW c \in Callers, FileCallerStep(c)
  PROVE  CallerStep(c) \/ UNCHANGED vars
<1>1. CASE OpenAndKeep(c) \/ OpenAndPreload(c)
  BY <1>1 DEF OpenAndKeep, OpenAndPreload, CallerStep
<1>2. CASE OpenFails(c) \/ FormatFails(c)
  BY <1>2 DEF OpenFails, FormatFails, CallerStep
<1>3. CASE FileSpawn(c)
  BY <1>3 DEF FileSpawn, CallerStep
<1>4. CASE CloseFile(c)
  BY <1>4 DEF CloseFile, vars
<1>5. CASE ForgetFile(c) \/ CloseAndFinish(c)
  BY <1>5 DEF ForgetFile, CloseAndFinish, CallerStep
<1>6. CASE ClearStarted(c) \/ Join(c) \/ (At(c, "destroy") /\ (StopAgain(c) \/ BeginStop(c)))
  BY <1>6 DEF CallerStep
<1> QED BY <1>1, <1>2, <1>3, <1>4, <1>5, <1>6 DEF FileCallerStep

\* What its reader thread does is what the reader of a TSSource does.
LEMMA FileReaderStepMaps ==
  ASSUME FileReaderStep
  PROVE  ReaderStep \/ UNCHANGED vars
<1>1. CASE TestFile
  BY <1>1 DEF TestFile, vars
<1>2. CASE ReadFile \/ ReadClosedFile \/ ReadContent
  <2>1. \E to \in {"loop", "handle", "flush"} : ReadReturns(to)
    BY <1>2 DEF ReadFile, ReadClosedFile, ReadContent
  <2> QED BY <2>1 DEF ReaderStep
<1>3. CASE EnterLoop \/ TestStarted \/ Handle \/ Flush \/ Finish \/ Cleanup
  BY <1>3 DEF ReaderStep
<1> QED BY <1>1, <1>2, <1>3 DEF FileReaderStep

LEMMA FileNextMaps == [FileNext]_allVars => [Next]_vars
<1> SUFFICES ASSUME [FileNext]_allVars PROVE [Next]_vars
  OBVIOUS
<1>1. CASE FileReaderStep
  BY <1>1, FileReaderStepMaps DEF Next
<1>2. ASSUME NEW c \in Callers, FileCallerStep(c) PROVE [Next]_vars
  BY <1>2, FileCallerStepMaps DEF Next
<1>3. ASSUME NEW c \in Callers, Call(c) PROVE Next
  BY <1>3 DEF Next
<1>4. CASE UNCHANGED allVars
  BY <1>4 DEF allVars
<1> QED BY <1>1, <1>2, <1>3, <1>4 DEF FileNext

\* A FileSource keeps the protocol of TSSource: it starts as one and each of
\* its steps is one of its steps or leaves its variables alone.
THEOREM FileKeepsProtocol == FileSpec => Init /\ [][Next]_vars
<1>1. FileInit => Init
  BY DEF FileInit
<1> QED BY <1>1, FileNextMaps, PTL DEF FileSpec

\* So a FileSource has its safety properties, whatever fails.
THEOREM FileInheritsSafety ==
  FileSpec => /\ []NoOrphanReader /\ []FinishedMeansEnded
              /\ OneReader /\ JoinDescends
BY FileKeepsProtocol, ProtocolIsSafe, PTL

-----------------------------------------------------------------------------

LEMMA FileInductiveInit == FileInit => FileInductiveInv
BY InductiveInit, TSSourceAssumption, FileSourceAssumption
   DEF FileInit, FileInductiveInv, FileTypeOK, HandlesAccounted, Init, At

\* A caller resets positions only while there is no reader, which goes by them.
LEMMA FileCallerTypes ==
  ASSUME FileInductiveInv, NEW c \in Callers, FileCallerStep(c)
  PROVE  FileTypeOK'
<1> USE FileSourceAssumption
<1> USE DEF FileTypeOK
<1>1. TypeOK /\ CallsSeeReader /\ FileTypeOK
  BY DEF FileInductiveInv, InductiveInv
<1>2. /\ m_File = "open" /\ m_Started /\ object # "gone" => handles = refused + 1
      /\ m_File = "open" /\ ~m_Started /\ object # "gone" => handles = refused /\ refused > 0
  BY DEF FileInductiveInv, HandlesAccounted
<1>3. CASE OpenAndKeep(c)
  BY <1>1, <1>3 DEF OpenAndKeep, CanOpen, ReadMayFail, DoStart, CallsSeeReader
<1>4. CASE OpenAndPreload(c)
  BY <1>1, <1>4 DEF OpenAndPreload, DoStart, CallsSeeReader
<1>5. CASE OpenFails(c)
  BY <1>1, <1>5 DEF OpenFails, DoStartThrows
<1>6. CASE FormatFails(c)
  BY <1>1, <1>6 DEF FormatFails, CanOpen, ReadMayFail, DoStartThrows, CallsSeeReader
<1>7. CASE FileSpawn(c)
  BY <1>1, <1>7 DEF FileSpawn, Spawn, CallsSeeReader
<1>8. CASE CloseFile(c)
  <2>1. m_Started /\ object # "gone"
    BY <1>8 DEF CloseFile, CallsSeeReader, FileInductiveInv, InductiveInv, OwnerDestroys, At
  <2> QED BY <1>1, <1>2, <1>8, <2>1 DEF CloseFile, vars
<1>9. CASE ForgetFile(c)
  BY <1>1, <1>9 DEF ForgetFile, DoStop
<1>10. CASE CloseAndFinish(c)
  <2>1. ~m_Started /\ object # "gone"
    BY <1>10, TSSourceAssumption DEF CloseAndFinish, FinishDestroy, FileInductiveInv, InductiveInv,
                                     OwnerDestroys, Outside, At
  <2> QED BY <1>1, <1>2, <1>10, <2>1 DEF CloseAndFinish, FinishDestroy
<1>11. CASE (ClearStarted(c) \/ StopAgain(c) \/ BeginStop(c)) /\ UNCHANGED fileVars
  BY <1>1, <1>11 DEF ClearStarted, StopAgain, BeginStop, fileVars
<1>12. CASE Join(c) /\ UNCHANGED fileVars
  BY <1>1, <1>12 DEF Join, fileVars
<1> QED BY <1>3, <1>4, <1>5, <1>6, <1>7, <1>8, <1>9, <1>10, <1>11, <1>12 DEF FileCallerStep

\* A read advances one position, by one, and not past the end.
LEMMA FileReaderTypes ==
  ASSUME FileInductiveInv, FileReaderStep
  PROVE  FileTypeOK'
<1> USE FileSourceAssumption
<1> USE DEF FileTypeOK
<1>1. FileTypeOK /\ (m_File = "open" /\ reader # "none" => ~Preload)
  BY DEF FileInductiveInv
<1>2. CASE TestFile
  BY <1>1, <1>2 DEF TestFile, vars
<1>3. CASE ReadFile
  BY <1>1, <1>3 DEF ReadFile, ReadReturns, ReaderGoes
<1>4. CASE ReadClosedFile
  BY <1>1, <1>4 DEF ReadClosedFile, ReadReturns, ReaderGoes
<1>5. CASE ReadContent
  BY <1>1, <1>5 DEF ReadContent, ReadReturns, ReaderGoes
<1>6. CASE (EnterLoop \/ TestStarted \/ Handle \/ Flush \/ Finish \/ Cleanup) /\ UNCHANGED fileVars
  BY <1>1, <1>6 DEF EnterLoop, TestStarted, Handle, Flush, Finish, Cleanup, ReaderGoes, fileVars
<1> QED BY <1>2, <1>3, <1>4, <1>5, <1>6 DEF FileReaderStep

LEMMA FileCallTypes ==
  ASSUME FileInductiveInv, NEW c \in Callers, Call(c), UNCHANGED fileVars
  PROVE  FileTypeOK'
<1>1. UNCHANGED reader
  BY DEF Call, StartAgain, BeginStart, StopAgain, BeginStop, CallRunning, BeginDestroy
<1> QED BY <1>1 DEF FileInductiveInv, FileTypeOK, fileVars

\* What a caller does to the files: doStart opens the file of the capture or one
\* that nobody will read, doStop closes the one, the destructor the last other.
LEMMA FileCallerAccounts ==
  ASSUME FileInductiveInv, NEW c \in Callers, FileCallerStep(c), FileTypeOK'
  PROVE  HandlesAccounted' /\ (m_File = "open" /\ ~m_Started => refused > 0)'
<1> USE DEF HandlesAccounted, FileTypeOK
<1>1. /\ TypeOK /\ CallsSeeReader /\ OwnerDestroys /\ FileTypeOK /\ HandlesAccounted
      /\ m_File = "open" /\ ~m_Started => refused > 0
  BY DEF FileInductiveInv, InductiveInv
<1>2. \A d \in Callers : At(d, "clear") => m_File # "open"
  BY DEF FileInductiveInv
<1>3. pc[c] \in {"doStart", "spawn", "doStop", "clear", "join", "destroy", "close"}
        => object # "gone"
  BY <1>1, TSSourceAssumption DEF OwnerDestroys, TypeOK, Outside, At
<1>4. CASE OpenAndKeep(c) \/ OpenAndPreload(c)
  <2>1. ~m_Started /\ object # "gone" /\ handles = refused
    BY <1>1, <1>3, <1>4 DEF OpenAndKeep, OpenAndPreload, DoStart, CallsSeeReader, At
  <2>2. CASE OpenAndKeep(c)
    BY <2>1, <2>2 DEF OpenAndKeep, DoStart
  <2>3. CASE OpenAndPreload(c)
    BY <2>1, <2>3 DEF OpenAndPreload, DoStart
  <2> QED BY <1>4, <2>2, <2>3
<1>5. CASE OpenFails(c) \/ FormatFails(c)
  <2>1. ~m_Started /\ object # "gone" /\ handles = refused
    BY <1>1, <1>3, <1>5 DEF OpenFails, FormatFails, DoStartThrows, CallsSeeReader, At
  <2>2. CASE OpenFails(c)
    BY <2>1, <2>2 DEF OpenFails, DoStartThrows
  <2>3. CASE FormatFails(c)
    BY <1>1, <2>1, <2>3 DEF FormatFails, DoStartThrows
  <2> QED BY <1>5, <2>2, <2>3
<1>6. CASE FileSpawn(c)
  BY <1>1, <1>6 DEF FileSpawn, Spawn
<1>7. CASE CloseFile(c)
  BY <1>1, <1>3, <1>7 DEF CloseFile, CallsSeeReader, At, vars
<1>8. CASE ForgetFile(c)
  BY <1>1, <1>8 DEF ForgetFile, DoStop
<1>9. CASE CloseAndFinish(c)
  BY <1>1, <1>3, <1>9 DEF CloseAndFinish, FinishDestroy, At
<1>10. CASE ClearStarted(c) /\ UNCHANGED fileVars
  BY <1>1, <1>2, <1>10 DEF ClearStarted, fileVars
<1>11. CASE (Join(c) \/ StopAgain(c) \/ BeginStop(c)) /\ UNCHANGED fileVars
  BY <1>1, <1>11 DEF Join, StopAgain, BeginStop, fileVars
<1> QED BY <1>4, <1>5, <1>6, <1>7, <1>8, <1>9, <1>10, <1>11 DEF FileCallerStep

LEMMA FileCallerPreserves ==
  ASSUME FileInductiveInv, NEW c \in Callers, FileCallerStep(c), InductiveInv', FileTypeOK'
  PROVE  FileInductiveInv'
<1> USE TSSourceAssumption
<1> USE DEF At
<1>1. TypeOK /\ CallsSeeReader
  BY DEF FileInductiveInv, InductiveInv
<1>2. /\ m_File = "open" /\ (m_Started \/ reader # "none") => ~Preload
      /\ \A d \in Callers : At(d, "clear") => m_File # "open"
  BY DEF FileInductiveInv
<1>3. /\ m_File' = "open" /\ (m_Started' \/ reader' # "none") => ~Preload
      /\ \A d \in Callers : pc'[d] = "clear" => m_File' # "open"
  <2>1. CASE OpenAndKeep(c)
    BY <1>1, <2>1 DEF OpenAndKeep, DoStart, TypeOK, CallsSeeReader, Locked, Goto
  <2>2. CASE OpenAndPreload(c) \/ OpenFails(c)
    BY <2>2 DEF OpenAndPreload, OpenFails
  <2>3. CASE FormatFails(c)
    BY <1>1, <2>3 DEF FormatFails, DoStartThrows, TypeOK, CallsSeeReader, Locked, Goto
  <2>4. CASE FileSpawn(c)
    BY <1>1, <1>2, <2>4 DEF FileSpawn, Spawn, TypeOK, CallsSeeReader, Goto
  <2>5. CASE CloseFile(c) \/ ForgetFile(c)
    BY <2>5 DEF CloseFile, ForgetFile
  <2>6. CASE CloseAndFinish(c)
    BY <1>1, <1>2, <2>6 DEF CloseAndFinish, FinishDestroy, TypeOK, Goto
  <2>7. CASE ClearStarted(c) /\ UNCHANGED fileVars
    BY <1>1, <1>2, <2>7 DEF ClearStarted, TypeOK, Goto, fileVars
  <2>8. CASE Join(c) /\ UNCHANGED fileVars
    BY <1>1, <1>2, <2>8 DEF Join, StopReturns, TypeOK, Goto, fileVars
  <2>9. CASE (StopAgain(c) \/ BeginStop(c)) /\ UNCHANGED fileVars
    BY <1>1, <1>2, <2>9 DEF StopAgain, BeginStop, StopReturns, TypeOK, Goto, fileVars
  <2> QED BY <2>1, <2>2, <2>3, <2>4, <2>5, <2>6, <2>7, <2>8, <2>9 DEF FileCallerStep
<1> QED BY <1>3, FileCallerAccounts DEF FileInductiveInv

LEMMA FileCallPreserves ==
  ASSUME FileInductiveInv, NEW c \in Callers, Call(c), UNCHANGED fileVars, InductiveInv', FileTypeOK'
  PROVE  FileInductiveInv'
<1>1. TypeOK
  BY DEF FileInductiveInv, InductiveInv
<1>2. UNCHANGED <<m_Started, reader>> /\ \A d \in Callers : At(d, "clear")' => At(d, "clear")
  BY <1>1 DEF TypeOK, Call, StartAgain, BeginStart, StopAgain, BeginStop, CallRunning, BeginDestroy,
              StopReturns, Goto, At
<1>3. object' = "gone" <=> object = "gone"
  BY DEF Call, StartAgain, BeginStart, StopAgain, BeginStop, CallRunning, BeginDestroy
<1> QED BY <1>2, <1>3 DEF FileInductiveInv, HandlesAccounted, fileVars

LEMMA FileReaderPreserves ==
  ASSUME FileInductiveInv, FileReaderStep, InductiveInv', FileTypeOK'
  PROVE  FileInductiveInv'
<1>1. UNCHANGED <<m_Started, pc, object>> /\ reader # "none"
  BY DEF FileReaderStep, TestFile, ReadFile, ReadClosedFile, ReadContent, ReadReturns, EnterLoop,
         TestStarted, Handle, Flush, Finish, Cleanup, ReaderGoes, vars
<1>2. UNCHANGED <<m_File, handles, refused>>
  BY DEF FileReaderStep, TestFile, ReadFile, ReadClosedFile, ReadContent, fileVars
<1> QED BY <1>1, <1>2 DEF FileInductiveInv, HandlesAccounted, At

LEMMA FileInductiveNext == FileInductiveInv /\ [FileNext]_allVars => FileInductiveInv'
<1> SUFFICES ASSUME FileInductiveInv, [FileNext]_allVars PROVE FileInductiveInv'
  OBVIOUS
<1>1. InductiveInv'
  BY FileNextMaps, InductiveNext DEF FileInductiveInv
<1>2. CASE UNCHANGED allVars
  BY <1>1, <1>2 DEF FileInductiveInv, FileTypeOK, HandlesAccounted, allVars, vars, fileVars, At
<1>3. CASE FileNext
  <2>1. CASE FileReaderStep
    BY <1>1, <2>1, FileReaderTypes, FileReaderPreserves
  <2>2. ASSUME NEW c \in Callers, FileCallerStep(c) PROVE FileInductiveInv'
    BY <1>1, <2>2, FileCallerTypes, FileCallerPreserves
  <2>3. ASSUME NEW c \in Callers, Call(c), UNCHANGED fileVars PROVE FileInductiveInv'
    BY <1>1, <2>3, FileCallTypes, FileCallPreserves
  <2> QED BY <1>3, <2>1, <2>2, <2>3 DEF FileNext
<1> QED BY <1>2, <1>3

\* Whatever fails, a started source has a file of its own, if it has one, and
\* stop() has closed it when it clears m_Started.
THEOREM FileInvariance == FileSpec => []FileInductiveInv
BY FileInductiveInit, FileInductiveNext, PTL DEF FileSpec

\* The handle of a capture is closed on every path: stop(), a restart, the
\* destructor.  The only files that are left open are those of a start() that
\* refused the format, one for each, but for the last if the destructor finds it.
THEOREM HandlesAreAccounted == FileSpec => []HandlesAccounted
<1>1. FileInductiveInv => HandlesAccounted
  BY DEF FileInductiveInv
<1> QED BY <1>1, FileInvariance, PTL

-----------------------------------------------------------------------------
(* What the reader finds when it reads *)

LEMMA ReaderFileInit == FileInit => ReaderFileInv
BY InductiveInit DEF FileInit, ReaderFileInv, Init, At

\* Start and stop: the file is opened, or not, before there is a reader, and
\* closed by the call that holds the mutex.
LEMMA ReaderFileCaller ==
  ASSUME ReaderFileInv, NEW c \in Callers, FileCallerStep(c), InductiveInv'
  PROVE  ReaderFileInv'
<1> USE TSSourceAssumption
<1> USE DEF ReaderFileInv, At
<1>1. TypeOK /\ CallsSeeReader
  BY DEF InductiveInv
<1>2. CASE OpenAndKeep(c)
  BY <1>1, <1>2 DEF OpenAndKeep, DoStart, TypeOK, CallsSeeReader, Locked, Goto
<1>3. CASE OpenAndPreload(c)
  BY <1>1, <1>3 DEF OpenAndPreload, DoStart, TypeOK, CallsSeeReader, Locked, Goto
<1>4. CASE OpenFails(c)
  BY <1>1, <1>4 DEF OpenFails, DoStartThrows, TypeOK, CallsSeeReader, Locked, Goto, Unlock
<1>5. CASE FormatFails(c)
  BY <1>1, <1>5 DEF FormatFails, DoStartThrows, TypeOK, CallsSeeReader, Locked, Goto, Unlock
<1>6. CASE FileSpawn(c)
  BY <1>1, <1>6 DEF FileSpawn, Spawn, TypeOK, CallsSeeReader, Locked, Goto, Unlock
<1>7. CASE CloseFile(c)
  BY <1>1, <1>7 DEF CloseFile, TypeOK, CallsSeeReader, Locked, vars
<1>8. CASE ForgetFile(c)
  BY <1>1, <1>8 DEF ForgetFile, DoStop, TypeOK, CallsSeeReader, Locked, Goto
<1>9. CASE CloseAndFinish(c)
  BY <1>1, <1>9 DEF CloseAndFinish, FinishDestroy, TypeOK, Goto
<1>10. CASE ClearStarted(c) /\ UNCHANGED fileVars
  BY <1>1, <1>10 DEF ClearStarted, TypeOK, Goto, fileVars
<1>11. CASE Join(c) /\ UNCHANGED fileVars
  BY <1>1, <1>11 DEF Join, StopReturns, TypeOK, Goto, Unlock, fileVars
<1>12. CASE At(c, "destroy") /\ (StopAgain(c) \/ BeginStop(c)) /\ UNCHANGED fileVars
  BY <1>1, <1>12 DEF StopAgain, BeginStop, StopReturns, TypeOK, Goto, Lock, fileVars
<1> QED BY <1>2, <1>3, <1>4, <1>5, <1>6, <1>7, <1>8, <1>9, <1>10, <1>11, <1>12 DEF FileCallerStep

LEMMA ReaderFileCall ==
  ASSUME ReaderFileInv, NEW c \in Callers, Call(c), UNCHANGED fileVars, InductiveInv'
  PROVE  ReaderFileInv'
<1>1. TypeOK
  BY DEF ReaderFileInv, InductiveInv
<1>2. UNCHANGED reader /\ (mutex' = NoOwner => mutex = NoOwner)
  BY TSSourceAssumption DEF Call, StartAgain, BeginStart, StopAgain, BeginStop, CallRunning,
                            BeginDestroy, StopCalled, Enter, Lock
<1>3. \A d \in Callers : At(d, "spawn")' => At(d, "spawn")
  BY <1>1 DEF TypeOK, Call, StartAgain, BeginStart, StopAgain, BeginStop, CallRunning, BeginDestroy,
              StopReturns, Goto, At
<1> QED BY <1>2, <1>3 DEF ReaderFileInv, fileVars, At

\* A read: while nobody holds the mutex it is a read of the open file, which ends
\* the capture only at the end, or by failing.
LEMMA ReaderFileReader ==
  ASSUME ReaderFileInv, FileReaderStep, InductiveInv'
  PROVE  ReaderFileInv'
<1> USE DEF ReaderFileInv, At
<1>1. CASE TestFile
  BY <1>1 DEF TestFile, vars
<1>2. CASE ReadFile
  <2>1. ~Preload /\ delivered = filePos
    BY <1>2 DEF ReadFile
  <2>2. UNCHANGED <<mutex, pc, m_File>> /\ reading' = "no"
        /\ reader' \in {"loop", "handle", "flush"}
    BY <1>2 DEF ReadFile, ReadReturns, ReaderGoes
  <2>3. delivered' = filePos'
    BY <1>2, <2>1 DEF ReadFile
  <2>4. reader' = "flush" => filePos' = Chunks \/ ferror' = 1
    BY <1>2 DEF ReadFile, ReadReturns, ReaderGoes
  <2>5. \A d \in Callers : ~At(d, "spawn")
    BY <1>2 DEF ReadFile, InductiveInv, CallsSeeReader
  <2> QED BY <1>2, <2>1, <2>2, <2>3, <2>4, <2>5 DEF ReadFile
<1>3. CASE ReadClosedFile
  BY <1>3 DEF ReadClosedFile, ReadReturns, ReaderGoes
<1>4. CASE ReadContent
  BY <1>4 DEF ReadContent, ReadReturns, ReaderGoes
<1>5. CASE (EnterLoop \/ TestStarted \/ Handle \/ Flush \/ Finish \/ Cleanup) /\ UNCHANGED fileVars
  BY <1>5 DEF EnterLoop, TestStarted, Handle, Flush, Finish, Cleanup, ReaderGoes, fileVars
<1> QED BY <1>1, <1>2, <1>3, <1>4, <1>5 DEF FileReaderStep

LEMMA ReaderFileNext == ReaderFileInv /\ [FileNext]_allVars => ReaderFileInv'
<1> SUFFICES ASSUME ReaderFileInv, [FileNext]_allVars PROVE ReaderFileInv'
  OBVIOUS
<1>1. InductiveInv'
  BY FileNextMaps, InductiveNext DEF ReaderFileInv
<1>2. CASE UNCHANGED allVars
  BY <1>1, <1>2 DEF ReaderFileInv, allVars, vars, fileVars, At
<1>3. CASE FileNext
  BY <1>1, <1>3, ReaderFileCaller, ReaderFileCall, ReaderFileReader DEF FileNext
<1> QED BY <1>2, <1>3

\* The reader reads its file, from the beginning, until somebody stops it.
THEOREM FileReaderInvariance == FileSpec => []ReaderFileInv
BY ReaderFileInit, ReaderFileNext, PTL DEF FileSpec

\* A source that preloads its file never uses a FILE that stop() has closed.
THEOREM PreloadNeverReadsClosed == ASSUME Preload PROVE FileSpec => []NoUseAfterClose
<1>1. ReaderFileInv => NoUseAfterClose
  BY DEF ReaderFileInv, NoUseAfterClose
<1> QED BY <1>1, FileReaderInvariance, PTL

\* A source that reads from the file may use a closed one, but only while a
\* stop() is in progress: that window is the only one.
THEOREM ClosedReadsConfined == FileSpec => []UseAfterCloseOnlyInStop
<1>1. ReaderFileInv => UseAfterCloseOnlyInStop
  <2> SUFFICES ASSUME ReaderFileInv, reading = "file", m_File # "open"
               PROVE  \E c \in Callers : pc[c] \in {"doStop", "clear", "join"}
    BY DEF UseAfterCloseOnlyInStop
  <2>1. TypeOK /\ CallsSeeReader /\ reader # "none"
    BY DEF ReaderFileInv, InductiveInv
  <2>2. mutex \in Callers
    BY <2>1 DEF ReaderFileInv, TypeOK
  <2> QED BY <2>1, <2>2 DEF CallsSeeReader, TypeOK, Locked, At
<1> QED BY <1>1, FileReaderInvariance, PTL

\* When a source that reads from the file reports the end of the stream, and
\* nobody is stopping it, the whole file was delivered since start(), unless an
\* fread of it failed, which returns the same 0.
THEOREM EndMeansWholeFile == ASSUME ~Preload PROVE FileSpec => []EosMeansAllDelivered
<1>1. ReaderFileInv => EosMeansAllDelivered
  BY DEF ReaderFileInv, EosMeansAllDelivered
<1> QED BY <1>1, FileReaderInvariance, PTL

=============================================================================
