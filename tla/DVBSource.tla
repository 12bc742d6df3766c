------------------------------ MODULE DVBSource ------------------------------
(***************************************************************************)
(* DVBSource (src/src/capture/dvbSource.cpp) in the capture thread of      *)
(* TSSource: the frontend, which the constructor opens and the destructor  *)
(* closes, and the demultiplexer's descriptor, which doStart opens, doStop *)
(* closes and readDataInto reads without a lock.  The device is external:  *)
(* it opens or fails, delivers or fails.  Steps of this module are steps   *)
(* of TSSource, or leave its variables alone.                              *)
(***************************************************************************)
EXTENDS TSSource, Naturals

VARIABLES m_Frontend,   \* "null", "open", "closed"
          m_DemuxIO,    \* "none" for -1, "open", "stale": closed and not yet -1
          demuxRead,    \* where readDataInto is: "no", "none" (saw -1), "device"
          demuxers      \* descriptors of the demultiplexer that are open

dvbVars    == <<m_Frontend, m_DemuxIO, demuxRead, demuxers>>
dvbAllVars == <<vars, dvbVars>>

DvbInit ==
  /\ Init
  /\ m_Frontend = "null" /\ m_DemuxIO = "none" /\ demuxRead = "no" /\ demuxers = 0

\* The constructor: nobody has the source before it returns.  If the frontend
\* does not open it throws, and there is no source.
OpenFrontend ==
  /\ m_Frontend = "null"
  /\ m_Frontend' = "open"
  /\ UNCHANGED <<vars, m_DemuxIO, demuxRead, demuxers>>

-----------------------------------------------------------------------------
(* doStart and doStop *)

OpenDemux(c) ==
  /\ DoStart(c)
  /\ m_DemuxIO' = "open" /\ demuxers' = demuxers + 1
  /\ UNCHANGED <<m_Frontend, demuxRead>>

OpenDemuxFails(c) ==
  /\ DoStartThrows(c)
  /\ m_DemuxIO' = "none"
  /\ UNCHANGED <<m_Frontend, demuxRead, demuxers>>

CloseDemuxNot(c) ==   \* faulty: the descriptor is stopped but not closed
  /\ At(c, "doStop") /\ m_DemuxIO = "open"
  /\ m_DemuxIO' = "stale"
  /\ UNCHANGED <<vars, m_Frontend, demuxRead, demuxers>>

\* dvb_dmx_stop(m_DemuxIO); dvb_dmx_close(m_DemuxIO)
CloseDemux(c) ==
  /\ At(c, "doStop") /\ m_DemuxIO = "open"
  /\ m_DemuxIO' = "stale" /\ demuxers' = demuxers - 1
  /\ UNCHANGED <<vars, m_Frontend, demuxRead>>

\* m_DemuxIO = -1, or it was -1 before
ForgetDemux(c) ==
  /\ m_DemuxIO # "open"
  /\ DoStop(c)
  /\ m_DemuxIO' = "none"
  /\ UNCHANGED <<m_Frontend, demuxRead, demuxers>>

-----------------------------------------------------------------------------
(* readDataInto *)

\* if (m_DemuxIO != -1)
TestDemux ==
  /\ reader = "read" /\ demuxRead = "no"
  /\ demuxRead' = IF m_DemuxIO = "none" THEN "none" ELSE "device"
  /\ UNCHANGED <<vars, m_Frontend, m_DemuxIO, demuxers>>

ReadDemuxOrEnd ==   \* faulty: a read of nothing is not taken for a failure
  /\ demuxRead # "no"
  /\ ReadReturns("loop") \/ ReadReturns("flush") \/ (demuxRead = "device" /\ ReadReturns("handle"))
  /\ demuxRead' = "no"
  /\ UNCHANGED <<m_Frontend, m_DemuxIO, demuxers>>

ReadDemuxWaits ==   \* faulty: without a descriptor the reader waits for one
  /\ demuxRead = "device"
  /\ ReadReturns("loop") \/ ReadReturns("handle")
  /\ demuxRead' = "no"
  /\ UNCHANGED <<m_Frontend, m_DemuxIO, demuxers>>

\* read() fails, returns nothing, or is not reached: an exception.  Or it
\* returns data, of whatever has the number of a descriptor closed in between.
ReadDemux ==
  /\ demuxRead # "no"
  /\ ReadReturns("loop") \/ (demuxRead = "device" /\ ReadReturns("handle"))
  /\ demuxRead' = "no"
  /\ UNCHANGED <<m_Frontend, m_DemuxIO, demuxers>>

-----------------------------------------------------------------------------
(* ~DVBSource, after stop() *)

CloseFrontend(c) ==
  /\ FinishDestroy(c)
  /\ m_Frontend' = "closed"
  /\ UNCHANGED <<m_DemuxIO, demuxRead, demuxers>>

-----------------------------------------------------------------------------

DvbCallerStep(c) ==
  \/ OpenDemux(c) \/ OpenDemuxFails(c) \/ CloseDemux(c) \/ ForgetDemux(c)
  \/ CloseFrontend(c)
  \/ /\ \/ Spawn(c) \/ ClearStarted(c) \/ Join(c)
        \/ (At(c, "destroy") /\ (StopAgain(c) \/ BeginStop(c)))
     /\ UNCHANGED dvbVars

DvbReaderStep ==
  \/ TestDemux \/ ReadDemux
  \/ (EnterLoop \/ TestStarted \/ Handle \/ Finish \/ Cleanup) /\ UNCHANGED dvbVars

DvbNext ==
  \/ OpenFrontend
  \/ DvbReaderStep
  \/ \E c \in Callers :
       DvbCallerStep(c) \/ (m_Frontend = "open" /\ Call(c) /\ UNCHANGED dvbVars)

\* A read of the device is assumed to return, with data or without.
DvbFairness ==
  WF_dvbAllVars(DvbReaderStep) /\ \A c \in Callers : WF_dvbAllVars(DvbCallerStep(c))

DvbSpec == DvbInit /\ [][DvbNext]_dvbAllVars /\ DvbFairness

-----------------------------------------------------------------------------

\* DVBSource is a TSSource: it keeps its protocol and its progress.
DvbImplementsTSSource == Spec

\* A reader that has seen a descriptor finds it open when it reads, but while a
\* stop() is in progress: no read of a closed or reused descriptor can happen
\* before or after, however starts, failed starts and stops follow each other.
StaleReadOnlyInStop ==
  (demuxRead # "no" /\ m_DemuxIO # "open") =>
    \E c \in Callers : pc[c] \in {"doStop", "clear", "join"}

\* No device is lost over any sequence of starts, failures and stops, and
\* nothing is open when the source is gone.
DevicesNotLeaked ==
  /\ demuxers = IF m_DemuxIO = "open" THEN 1 ELSE 0
  /\ object = "gone" => demuxers = 0 /\ m_Frontend = "closed"

\* The inductive invariant: the types, what each step of a call knows of the
\* descriptor, and that a capture from a device has no end of its own: a gap in
\* the reception never ends the reader.
DvbInductiveInv ==
  /\ InductiveInv
  /\ m_Frontend \in {"null", "open", "closed"} /\ m_DemuxIO \in {"none", "open", "stale"}
  /\ demuxRead \in {"no", "none", "device"} /\ (demuxRead # "no" => reader = "read")
  /\ demuxers = IF m_DemuxIO = "open" THEN 1 ELSE 0
  /\ m_DemuxIO # "none" => m_Started
  /\ m_DemuxIO = "stale" => \E c \in Callers : At(c, "doStop")
  /\ \A c \in Callers : At(c, "clear") => m_DemuxIO = "none"
  /\ m_Started => m_DemuxIO = "open" \/ \E c \in Callers : pc[c] \in {"doStop", "clear"}
  /\ object = "gone" <=> m_Frontend = "closed"
  /\ reader # "flush"

=============================================================================
