------------------------------ MODULE TSSource ------------------------------
(***************************************************************************)
(* The capture thread of TSSource (src/src/capture/tsSource.cpp): start(), *)
(* stop(), running() and the destructor, called by any threads under the   *)
(* recursive mutex, and mainLoop, the reader thread, which reads m_Started *)
(* and writes m_ThreadFinished without it.  These are plain bools: the     *)
(* race is modelled as an interleaving of single reads and writes, which   *)
(* is what the build does with them across the calls between.  The virtual *)
(* functions of the source are left open: doStart returns or throws,       *)
(* readDataInto returns data or 0 or throws.                               *)
(***************************************************************************)
EXTENDS Naturals

CONSTANTS Callers,       \* the threads that use the source
          Owner,         \* the thread that destroys it
          NoOwner        \* the mutex is free

ASSUME TSSourceAssumption == Owner \in Callers /\ NoOwner \notin Callers

VARIABLES m_Started, m_ThreadFinished,
          mutex,     \* the thread that holds m_Mutex
          pc,        \* where each caller is
          reader,    \* where the reader thread is, "none" before it is created
                     \* and after it was joined
          object     \* "alive"; "dying" once the destructor of the class that
                     \* implements the callbacks has run; "gone"

vars == <<m_Started, m_ThreadFinished, mutex, pc, reader, object>>

\* A caller outside the source: it has not called it yet, or its last call
\* returned (from running(), with TRUE or with FALSE) or threw.
Outside == {"idle", "started", "stopped", "sawRunning", "sawFinished", "threw"}
Inside  == {"doStart", "spawn", "doStop", "clear", "join", "destroy", "close", "gone"}

\* From its creation to the end of the stream the reader may call the source's
\* virtual functions and the streams.
Capturing == {"created", "loop", "read", "handle", "flush"}
Ended     == {"finish", "cleanup", "exited"}

Init ==
  /\ m_Started = FALSE /\ m_ThreadFinished = FALSE
  /\ mutex = NoOwner
  /\ pc = [c \in Callers |-> "idle"]
  /\ reader = "none"
  /\ object = "alive"

At(c, p)   == pc[c] = p
Goto(c, p) == pc' = [pc EXCEPT ![c] = p]
Enter(c)   == pc[c] \in Outside /\ object = "alive" /\ mutex = NoOwner
Lock(c)    == mutex' = c
Unlock     == mutex' = NoOwner

-----------------------------------------------------------------------------
(* start() *)

StartAgain(c) ==   \* already started: nothing is done
  /\ Enter(c) /\ m_Started
  /\ Goto(c, "started")
  /\ UNCHANGED <<m_Started, m_ThreadFinished, mutex, reader, object>>

BeginStartAgain(c) ==   \* faulty: a source whose capture has ended starts anew
  /\ Enter(c) /\ (~m_Started \/ m_ThreadFinished)
  /\ Lock(c) /\ Goto(c, "doStart")
  /\ UNCHANGED <<m_Started, m_ThreadFinished, reader, object>>

BeginStart(c) ==
  /\ Enter(c) /\ ~m_Started
  /\ Lock(c) /\ Goto(c, "doStart")
  /\ UNCHANGED <<m_Started, m_ThreadFinished, reader, object>>

DoStart(c) ==
  /\ At(c, "doStart")
  /\ m_Started' = TRUE
  /\ Goto(c, "spawn")
  /\ UNCHANGED <<m_ThreadFinished, mutex, reader, object>>

DoStartThrowsLocked(c) ==   \* faulty: the exception leaves the mutex locked
  /\ At(c, "doStart")
  /\ Goto(c, "threw")
  /\ UNCHANGED <<m_Started, m_ThreadFinished, mutex, reader, object>>

DoStartThrows(c) ==
  /\ At(c, "doStart")
  /\ Unlock /\ Goto(c, "threw")
  /\ UNCHANGED <<m_Started, m_ThreadFinished, reader, object>>

Spawn(c) ==
  /\ At(c, "spawn")
  /\ reader' = "created"
  /\ Unlock /\ Goto(c, "started")
  /\ UNCHANGED <<m_Started, m_ThreadFinished, object>>

-----------------------------------------------------------------------------
(* stop(), which the destructor calls too *)

\* stop() was called: by the owner's destructor, or on a source that is alive.
StopCalled(c) == Enter(c) \/ (At(c, "destroy") /\ mutex = NoOwner)
StopReturns(c) == Goto(c, IF object = "dying" THEN "close" ELSE "stopped")

StopAgain(c) ==   \* not started: nothing is done
  /\ StopCalled(c) /\ ~m_Started
  /\ StopReturns(c)
  /\ UNCHANGED <<m_Started, m_ThreadFinished, mutex, reader, object>>

BeginStop(c) ==
  /\ StopCalled(c) /\ m_Started
  /\ Lock(c) /\ Goto(c, "doStop")
  /\ UNCHANGED <<m_Started, m_ThreadFinished, reader, object>>

DoStop(c) ==
  /\ At(c, "doStop")
  /\ Goto(c, "clear")
  /\ UNCHANGED <<m_Started, m_ThreadFinished, mutex, reader, object>>

ClearStarted(c) ==
  /\ At(c, "clear")
  /\ m_Started' = FALSE
  /\ Goto(c, "join")
  /\ UNCHANGED <<m_ThreadFinished, mutex, reader, object>>

JoinNobody(c) ==   \* faulty: the reader is not waited for
  /\ At(c, "join")
  /\ Unlock /\ StopReturns(c)
  /\ UNCHANGED <<m_Started, m_ThreadFinished, reader, object>>

Join(c) ==
  /\ At(c, "join") /\ reader = "exited"
  /\ reader' = "none"
  /\ Unlock /\ StopReturns(c)
  /\ UNCHANGED <<m_Started, m_ThreadFinished, object>>

-----------------------------------------------------------------------------
(* running(): the mutex is taken and given back in one step, m_Started does *)
(* not change in between and m_ThreadFinished is read once                  *)

Running == m_Started /\ ~m_ThreadFinished

CallRunning(c) ==
  /\ Enter(c)
  /\ Goto(c, IF Running THEN "sawRunning" ELSE "sawFinished")
  /\ UNCHANGED <<m_Started, m_ThreadFinished, mutex, reader, object>>

-----------------------------------------------------------------------------
(* destruction, when no other thread is inside or comes back *)

BeginDestroy(c) ==
  /\ c = Owner /\ pc[c] \in Outside /\ object = "alive"
  /\ \A d \in Callers : pc[d] \in Outside
  /\ object' = "dying"
  /\ Goto(c, "destroy")
  /\ UNCHANGED <<m_Started, m_ThreadFinished, mutex, reader>>

\* The rest of the derived class's destructor, then ~TSSource, which finds the
\* thread stopped.
FinishDestroy(c) ==
  /\ At(c, "close") /\ ~m_Started
  /\ object' = "gone"
  /\ Goto(c, "gone")
  /\ UNCHANGED <<m_Started, m_ThreadFinished, mutex, reader>>

-----------------------------------------------------------------------------
(* mainLoop *)

ReaderGoes(from, to) == reader = from /\ reader' = to

EnterLoop ==
  /\ ReaderGoes("created", "loop")
  /\ m_ThreadFinished' = FALSE
  /\ UNCHANGED <<m_Started, mutex, pc, object>>

TestStartedNever ==   \* faulty: the loop does not look at m_Started
  /\ ReaderGoes("loop", "read")
  /\ UNCHANGED <<m_Started, m_ThreadFinished, mutex, pc, object>>

\* while (thiz->m_Started)
TestStarted ==
  /\ ReaderGoes("loop", IF m_Started THEN "read" ELSE "finish")
  /\ UNCHANGED <<m_Started, m_ThreadFinished, mutex, pc, object>>

ReadReturnsFinished(to) ==   \* faulty: finished is reported before the last resets
  /\ to \in {"loop", "handle", "flush"}
  /\ ReaderGoes("read", to)
  /\ m_ThreadFinished' = (m_ThreadFinished \/ to = "flush")
  /\ UNCHANGED <<m_Started, mutex, pc, object>>

\* readDataInto threw: try again; returned data: handle it; returned 0: reset
\* every handler and leave the loop.
ReadReturns(to) ==
  /\ to \in {"loop", "handle", "flush"}
  /\ ReaderGoes("read", to)
  /\ UNCHANGED <<m_Started, m_ThreadFinished, mutex, pc, object>>

\* The packets of the buffer go to their handlers; an exception that no handler
\* caught ends the loop.
Handle ==
  /\ reader = "handle" /\ reader' \in {"loop", "finish"}
  /\ UNCHANGED <<m_Started, m_ThreadFinished, mutex, pc, object>>

Flush ==
  /\ ReaderGoes("flush", "finish")
  /\ UNCHANGED <<m_Started, m_ThreadFinished, mutex, pc, object>>

Finish ==
  /\ ReaderGoes("finish", "cleanup")
  /\ m_ThreadFinished' = TRUE
  /\ UNCHANGED <<m_Started, mutex, pc, object>>

Cleanup ==
  /\ ReaderGoes("cleanup", "exited")
  /\ UNCHANGED <<m_Started, m_ThreadFinished, mutex, pc, object>>

-----------------------------------------------------------------------------

\* What a caller does once it is inside, up to its return.
CallerStep(c) ==
  \/ DoStart(c) \/ DoStartThrows(c) \/ Spawn(c)
  \/ DoStop(c) \/ ClearStarted(c) \/ Join(c)
  \/ (At(c, "destroy") /\ (StopAgain(c) \/ BeginStop(c)))
  \/ FinishDestroy(c)

Call(c) ==
  \/ StartAgain(c) \/ BeginStart(c)
  \/ (pc[c] \in Outside /\ (StopAgain(c) \/ BeginStop(c)))
  \/ CallRunning(c)
  \/ BeginDestroy(c)

ReaderStep ==
  \/ EnterLoop \/ TestStarted
  \/ \E to \in {"loop", "handle", "flush"} : ReadReturns(to)
  \/ Handle \/ Flush \/ Finish \/ Cleanup

Next == ReaderStep \/ \E c \in Callers : CallerStep(c) \/ Call(c)

\* The scheduler runs every thread that can run; nobody has to call anything.
Fairness == WF_vars(ReaderStep) /\ \A c \in Callers : WF_vars(CallerStep(c))

Spec == Init /\ [][Next]_vars /\ Fairness

-----------------------------------------------------------------------------

Locked == {"doStart", "spawn", "doStop", "clear", "join"}

\* Type invariant, with the mutex held exactly by the caller that is between
\* taking and giving it back.
TypeOK ==
  /\ m_Started \in BOOLEAN /\ m_ThreadFinished \in BOOLEAN
  /\ mutex \in Callers \cup {NoOwner}
  /\ pc \in [Callers -> Outside \cup Inside]
  /\ reader \in {"none"} \cup Capturing \cup Ended
  /\ object \in {"alive", "dying", "gone"}
  /\ \A c \in Callers : mutex = c <=> pc[c] \in Locked

\* When no call is in progress there is a reader thread (running, or ended and
\* not yet joined) exactly if the source is started: stop() leaves no thread
\* behind that would still read or deliver, and a source that is gone has none.
NoOrphanReader ==
  /\ mutex = NoOwner => (m_Started <=> reader # "none")
  /\ object = "gone" => reader = "none"

\* A reader thread is only created when the previous one was joined: otherwise
\* the std::thread that m_Thread replaces would end the program.
OneReader == [][(reader' = "created" /\ reader # "created") => reader = "none"]_vars

\* Once a reader has entered its loop, a caller that finds m_ThreadFinished
\* set knows that the reader delivers nothing any more.
FinishedMeansEnded ==
  (m_ThreadFinished /\ reader \in Capturing) => reader = "created"

\* What a call in progress knows, which the mutex makes true: a call of start()
\* finds no reader thread, a call of stop() finds one.
CallsSeeReader ==
  /\ mutex = NoOwner => (m_Started <=> reader # "none")
  /\ \A c \in Callers :
       /\ At(c, "doStart") => ~m_Started /\ reader = "none"
       /\ At(c, "spawn") => m_Started /\ reader = "none"
       /\ pc[c] \in {"doStop", "clear"} => m_Started /\ reader # "none"
       /\ At(c, "join") => ~m_Started /\ reader # "none"

\* The owner is alone in the source from the moment it destroys it.
OwnerDestroys ==
  /\ object = "alive" => \A c \in Callers : pc[c] \notin {"destroy", "close", "gone"}
  /\ object # "alive" => \A c \in Callers \ {Owner} : pc[c] \in Outside
  /\ object = "dying" => pc[Owner] \in {"destroy", "doStop", "clear", "join", "close"}
  /\ object = "gone" => At(Owner, "gone") /\ ~m_Started

\* The inductive invariant behind the safety properties above.
InductiveInv ==
  /\ TypeOK
  /\ CallsSeeReader
  /\ OwnerDestroys
  /\ FinishedMeansEnded

\* stop() returns, even if the caller finds the reader in a read, in its
\* handlers or at the end of the stream.
StopCompletes ==
  \A c \in Callers : At(c, "doStop") ~> pc[c] \in {"stopped", "close"}

\* How far a reader that finds m_Started cleared is from its end.
ReaderRank == [created |-> 7, read |-> 6, handle |-> 5, flush |-> 4, loop |-> 4,
               finish |-> 3, cleanup |-> 2, exited |-> 1, none |-> 0]

\* Why the wait of stop() ends: while it joins the reader, each step of the
\* reader brings it closer to its end; it begins no other read, and whatever
\* the other callers do, nobody sets it back.
JoinDescends ==
  [][\A c \in Callers :
       (At(c, "join") /\ At(c, "join")' /\ reader' # reader)
         => ReaderRank[reader'] < ReaderRank[reader]]_vars

=============================================================================
