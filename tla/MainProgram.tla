---------------------------- MODULE MainProgram ----------------------------
(***************************************************************************)
(* main() of src/src/main.cpp: one thread starts a FileSource with         *)
(* preloading, polls running() and, when it returns false, leaves main, so *)
(* that the source is destroyed.  MySource implements the callbacks: its   *)
(* part of the object is gone before ~FileSource stops the thread.         *)
(***************************************************************************)
EXTENDS FileSource

ASSUME MainProgramAssumption == Callers = {Owner} /\ Preload

\* src.start()
MainStarts == At(Owner, "idle") /\ BeginStart(Owner) /\ UNCHANGED fileVars

\* while (src.running())
MainPolls == pc[Owner] \in {"started", "sawRunning"} /\ CallRunning(Owner) /\ UNCHANGED fileVars

MainReturnsAtOnce ==   \* faulty: main does not wait
  pc[Owner] \in {"started", "sawRunning", "sawFinished"} /\ BeginDestroy(Owner) /\ UNCHANGED fileVars

\* return 0
MainReturns == At(Owner, "sawFinished") /\ BeginDestroy(Owner) /\ UNCHANGED fileVars

MainStep == MainStarts \/ MainPolls \/ MainReturns

MainNext == MainStep \/ FileCallerStep(Owner) \/ FileReaderStep

MainFairness ==
  /\ WF_allVars(MainStep) /\ WF_allVars(FileCallerStep(Owner)) /\ WF_allVars(FileReaderStep)

MainSpec == FileInit /\ [][MainNext]_allVars /\ MainFairness

-----------------------------------------------------------------------------

\* The reader never calls a callback of a source whose implementing part has
\* been destroyed (a call of a pure virtual function).
NoCallbackWhenDying == object # "alive" => reader \notin Capturing

\* Why: main starts the source once, so m_ThreadFinished is not stale, and it
\* leaves only when it has seen it set, from where the reader cannot come back.
FinishedBeforeDying ==
  /\ object = "alive" => pc[Owner] \in {"idle", "doStart", "spawn", "started", "sawRunning",
                                      "sawFinished", "threw"}
  /\ pc[Owner] \in {"idle", "doStart", "spawn"} => reader = "none" /\ ~m_ThreadFinished
  /\ pc[Owner] \in {"started", "sawRunning", "sawFinished"} => m_Started
  /\ m_ThreadFinished => reader \notin Capturing
  /\ (At(Owner, "sawFinished") \/ object # "alive") => m_ThreadFinished

\* Why the whole file is read: the only capture of the program starts at the
\* beginning of the content, reads nothing else, and ends only behind it.
ReadsWholeContent ==
  /\ reading # "file" /\ (reading = "content" => reader = "read")
  /\ pc[Owner] \in {"idle", "doStart", "spawn"} => m_Offset = 0
  /\ At(Owner, "spawn") \/ reader # "none" => m_File = "null" /\ m_Content = Chunks
  /\ reader # "none" => delivered = m_Offset /\ m_Offset \in 0 .. Chunks
  /\ reader = "flush" => m_Offset = Chunks

\* The program ends: the source is destroyed, or start() threw.
MainTerminates == <>(object = "gone" \/ At(Owner, "threw"))

\* What main and the reader have left to do: the steps of main to its end, and
\* those of the reader to its own, four for each read of the content to come.
MainRank == [idle |-> 11, doStart |-> 10, spawn |-> 9, started |-> 8, sawRunning |-> 7,
             sawFinished |-> 6, destroy |-> 5, doStop |-> 4, clear |-> 3, join |-> 2,
             close |-> 1, threw |-> 0, gone |-> 0]

CaptureRank ==
  IF reading = "content" THEN 5
  ELSE [created |-> 8, handle |-> 8, loop |-> 7, read |-> 6, flush |-> 4, finish |-> 3,
        cleanup |-> 2, exited |-> 1][reader]

CaptureWork ==
  IF pc[Owner] \in {"idle", "doStart", "spawn"} THEN 4 * Chunks + 8
  ELSE IF reader = "none" THEN 0
  ELSE 4 * (Chunks - m_Offset) + CaptureRank

MainWork == MainRank[pc[Owner]] + CaptureWork

\* Why the program ends: every step that is not a poll that changes nothing
\* lowers the work that is left, in whichever order main and the reader run, so
\* that there are at most 4 * Chunks + 19 of them.
WorkFalls == [][MainWork' < MainWork /\ {MainWork, MainWork'} \subseteq Nat]_allVars

=============================================================================
