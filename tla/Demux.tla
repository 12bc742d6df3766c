------------------------------- MODULE Demux -------------------------------
(***************************************************************************)
(* The packet dispatch of TSSource::mainLoop (src/src/capture/tsSource.cpp)*)
(* over all PIDs: the table pidPayload, which grows while packets are      *)
(* dispatched.  A PAT makes handlers for the PMTs, a PMT makes stream      *)
(* objects and, if its program is wanted, handlers for their PIDs.  A      *)
(* handler gives its stream what it has collected only when the next unit  *)
(* of its PID starts, or at the end of the input.  How it collects the     *)
(* packets of a unit is PayloadHandler; here a unit is one value, intact   *)
(* or damaged, and an action is the arrival of a packet that starts one.   *)
(***************************************************************************)
EXTENDS Naturals, Sequences, FiniteSets

CONSTANTS MaxPid,    \* the PIDs are 0 .. MaxPid, 8191 in the code
          Pat,       \* the entries of the PAT: [pid, service]
          Pmt,       \* for each PMT's PID, its streams: [pid, kind]
          MaxUnits   \* bound: units that start on each PID

Pids     == 0 .. MaxPid
PatPid   == 0
Kinds    == {"video", "audio", "other"}
\* The services of the PAT; service 0 is not a program.
Services == {entry.pid : entry \in {e \in Pat : e.service # 0}}

ASSUME DemuxAssumption ==
  /\ MaxPid \in Nat /\ MaxUnits \in [Pids -> Nat]
  /\ Pat \subseteq [pid : Pids, service : Nat]
  /\ Pmt \in [Services -> SUBSET [pid : Pids, kind : Kinds]]

VARIABLES handlers,    \* pidPayload: "none", "pat", "pmt", or the stream object that is fed
          collected,   \* what each handler holds
          parsed,      \* the PIDs whose handler has m_PAT or m_PMT
          latched,     \* those of them whose table was a damaged one
          programs,    \* the programs that programSpawned has accepted: [pmt, streams]
          received,    \* the frames each stream object got
          units,       \* units started on each PID
          closed,      \* PIDs whose handler was reset with an intact unit in it
          eosAt,       \* MaxPid + 2 while input arrives, then the PID to flush next
          crashed      \* the program has ended: a null m_PAT or m_PMT was dereferenced

vars == <<handlers, collected, parsed, latched, programs, received, units, closed, eosAt, crashed>>

\* A stream object is named by the PMT it was created for and its PID.
Streams == {[pmt |-> p, pid |-> q] : p \in Services, q \in Pids}
Units   == [unit : Nat \ {0}, intact : BOOLEAN]
Empty   == [unit |-> 0, intact |-> TRUE]

None    == [role |-> "none"]
PatRole == [role |-> "pat"]
PmtRole == [role |-> "pmt"]
Feeds(s) == [role |-> "es", stream |-> s]

Reading  == eosAt = MaxPid + 2
Flushing == eosAt \in Pids

Init ==
  /\ handlers = [p \in Pids |-> None]
  /\ collected = [p \in Pids |-> Empty]
  /\ parsed = {} /\ latched = {} /\ programs = {} /\ closed = {}
  /\ received = [s \in Streams |-> <<>>]
  /\ units = [p \in Pids |-> 0]
  /\ eosAt = MaxPid + 2
  /\ crashed = FALSE

-----------------------------------------------------------------------------

\* A PAT or PMT handler looks at a unit only if it has no table yet and the unit
\* is not empty.
Looks(p)   == p \notin parsed /\ collected[p] # Empty
Damaged(p) == ~collected[p].intact

\* The parser (external) takes an intact table.  A damaged one it may refuse with
\* -1, the only error that the handlers test: nothing is done.
Refuses(p) == ~Looks(p) \/ Damaged(p)

\* Or it returns another error, or none, with a table of the entries it has got
\* to, perhaps of none: the handler goes on as with an intact one, and keeps it.
Takes(p) ==
  /\ Looks(p)
  /\ parsed' = parsed \cup {p}
  /\ latched' = IF Damaged(p) THEN latched \cup {p} ELSE latched
  /\ UNCHANGED crashed

\* Or it returns another error before it has made a table (-2, say, for a table
\* of another kind): the handler dereferences null.
Crashes(p) ==
  /\ Looks(p) /\ Damaged(p)
  /\ crashed' = TRUE
  /\ UNCHANGED <<parsed, latched>>

\* Those of the entries that a table may have.
Entries(p, all) == IF Damaged(p) THEN SUBSET all ELSE {all}

AddedReplacing(hs, new) == [p \in Pids |-> IF p \in DOMAIN new THEN new[p] ELSE hs[p]]   \* faulty

\* Handlers are added for those of the PIDs that have none.
Added(hs, new) == [p \in Pids |-> IF p \in DOMAIN new /\ hs[p] = None THEN new[p] ELSE hs[p]]

SupplyPatLatched(p, hs) ==   \* faulty: m_PAT is set even if the table was refused
  /\ hs[p] = PatRole
  /\ \/ /\ Refuses(p)
        /\ handlers' = hs
        /\ parsed' = IF Looks(p) THEN parsed \cup {p} ELSE parsed
        /\ UNCHANGED <<latched, crashed>>
     \/ /\ Takes(p)
        /\ \E listed \in Entries(p, Services) : handlers' = Added(hs, [q \in listed |-> PmtRole])
  /\ UNCHANGED <<programs, received>>

SupplyPat(p, hs) ==
  /\ hs[p] = PatRole
  /\ \/ /\ Refuses(p)
        /\ handlers' = hs /\ UNCHANGED <<parsed, latched, crashed>>
     \/ /\ Takes(p)
        /\ \E listed \in Entries(p, Services) : handlers' = Added(hs, [q \in listed |-> PmtRole])
     \/ Crashes(p) /\ handlers' = hs
  /\ UNCHANGED <<programs, received>>

\* createStream is asked for video and audio; of any other stream it makes nothing.
Creatable(p) == {s.pid : s \in {t \in Pmt[p] : t.kind # "other"}}

StreamObjects(p, qs) == [q \in qs |-> Feeds([pmt |-> p, pid |-> q])]

SupplyPmtUnasked(p, hs) ==   \* faulty: the streams are attached whatever programSpawned returns
  /\ hs[p] = PmtRole
  /\ \/ /\ Refuses(p)
        /\ handlers' = hs /\ UNCHANGED <<parsed, latched, programs, crashed>>
     \/ /\ Takes(p)
        /\ \E qs \in SUBSET Creatable(p) : \E wanted \in {FALSE, qs # {}} :
             /\ handlers' = Added(hs, StreamObjects(p, qs))
             /\ programs' = IF wanted THEN programs \cup {[pmt |-> p, streams |-> qs]} ELSE programs
  /\ UNCHANGED received

\* The callbacks may refuse each stream (null, or an exception), and refuse the
\* program; which streams a damaged table has got makes no difference to that.
SupplyPmt(p, hs) ==
  /\ hs[p] = PmtRole
  /\ \/ /\ Refuses(p)
        /\ handlers' = hs /\ UNCHANGED <<parsed, latched, programs, crashed>>
     \/ /\ Takes(p)
        /\ \E qs \in SUBSET Creatable(p) : \E wanted \in {FALSE, qs # {}} :
             /\ handlers' = IF wanted THEN Added(hs, StreamObjects(p, qs)) ELSE hs
             /\ programs' = IF wanted THEN programs \cup {[pmt |-> p, streams |-> qs]} ELSE programs
     \/ Crashes(p) /\ handlers' = hs /\ UNCHANGED programs
  /\ UNCHANGED received

SupplyStreamIntact(p, hs) ==   \* faulty: a damaged unit is not supplied
  /\ hs[p].role = "es"
  /\ received' = IF collected[p].intact
                   THEN [received EXCEPT ![hs[p].stream] = Append(@, collected[p])] ELSE received
  /\ handlers' = hs
  /\ UNCHANGED <<parsed, latched, programs, crashed>>

\* An elementary stream gets what was collected, even nothing.  (A unit that is
\* a PES header without payload, which supplies nothing, is left out.)
SupplyStream(p, hs) ==
  /\ hs[p].role = "es"
  /\ received' = [received EXCEPT ![hs[p].stream] = Append(@, collected[p])]
  /\ handlers' = hs
  /\ UNCHANGED <<parsed, latched, programs, crashed>>

\* reset() of the handler of p, in the table hs.
ResetHandler(p, hs) ==
  /\ SupplyPat(p, hs) \/ SupplyPmt(p, hs) \/ SupplyStream(p, hs)
  /\ closed' = IF collected[p] # Empty /\ collected[p].intact THEN closed \cup {p} ELSE closed

-----------------------------------------------------------------------------

\* The first packet on the PAT's PID makes its handler.
WithPat(p) == IF p = PatPid THEN Added(handlers, [q \in {p} |-> PatRole]) ELSE handlers

\* A packet that starts a unit, on a PID that has a handler.
StartUnit(p, intact) ==
  /\ Reading /\ units[p] < MaxUnits[p]
  /\ WithPat(p)[p] # None
  /\ ResetHandler(p, WithPat(p))
  /\ units' = [units EXCEPT ![p] = @ + 1]
  /\ collected' = [collected EXCEPT ![p] = [unit |-> units[p] + 1, intact |-> intact]]
  /\ UNCHANGED eosAt

\* The same on a PID without a handler: the packet is dropped.
DropUnit(p) ==
  /\ Reading /\ units[p] < MaxUnits[p]
  /\ WithPat(p)[p] = None
  /\ units' = [units EXCEPT ![p] = @ + 1]
  /\ UNCHANGED <<handlers, collected, parsed, latched, programs, received, closed, eosAt, crashed>>

\* readDataInto returned 0: the table is flushed from PID 0 upwards, and may
\* grow while it is.
EndOfStream ==
  /\ Reading
  /\ eosAt' = 0
  /\ UNCHANGED <<handlers, collected, parsed, latched, programs, received, units, closed, crashed>>

FlushHandler ==
  /\ Flushing
  /\ IF handlers[eosAt] # None
       THEN /\ ResetHandler(eosAt, handlers)
            /\ collected' = [collected EXCEPT ![eosAt] = Empty]
       ELSE UNCHANGED <<handlers, collected, parsed, latched, programs, received, closed, crashed>>
  /\ eosAt' = eosAt + 1
  /\ UNCHANGED units

Next ==
  /\ ~crashed
  /\ \/ \E p \in Pids : DropUnit(p) \/ \E intact \in BOOLEAN : StartUnit(p, intact)
     \/ EndOfStream
     \/ FlushHandler

Spec == Init /\ [][Next]_vars

-----------------------------------------------------------------------------

Roles == {None, PatRole, PmtRole} \cup {Feeds(s) : s \in Streams}

\* Type invariant.
TypeOK ==
  /\ handlers \in [Pids -> Roles]
  /\ collected \in [Pids -> Units \cup {Empty}]
  /\ parsed \subseteq Pids /\ latched \subseteq parsed /\ closed \subseteq Pids
  /\ programs \subseteq [pmt : Services, streams : SUBSET Pids]
  /\ received \in [Streams -> Seq(Units \cup {Empty})]
  /\ units \in [Pids -> Nat]
  /\ eosAt \in 0 .. MaxPid + 2
  /\ crashed \in BOOLEAN

\* A handler that is in the table stays there: none is leaked, and none is
\* replaced by a table that it is just handing over.
HandlersNotReplaced ==
  [][\A p \in Pids : handlers[p] # None => handlers'[p] = handlers[p]]_vars

\* Only streams of programs that programSpawned has accepted are fed, and only
\* from their own PID.
OnlyWantedFed ==
  \A s \in Streams :
    /\ \A p \in Pids : handlers[p] = Feeds(s) => p = s.pid
    /\ (handlers[s.pid] = Feeds(s) \/ received[s] # <<>>) =>
         \E pr \in programs : pr.pmt = s.pmt /\ s.pid \in pr.streams

\* No intact table is missed unless a damaged one was taken in its place: once a
\* handler of a table was reset with an intact unit in it, it has a table, and all
\* the PMTs that the PAT lists have handlers if the PAT's is not a damaged one.  A
\* table that was refused hides nothing; one that was taken damaged hides, for
\* good, what it lacks.
TablesTaken ==
  /\ \A p \in closed : handlers[p] \in {PatRole, PmtRole} => p \in parsed
  /\ PatPid \in parsed \ latched => \A p \in Services : handlers[p] # None

\* The table grows from the PAT: whatever it holds, the PAT's PID has the PAT
\* handler, a PMT handler's PID is one that the PAT lists, and what was reset
\* is still there.
TableRooted ==
  /\ \A p \in Pids : handlers[p] # None => handlers[PatPid] = PatRole
  /\ \A p \in Pids : handlers[p] = PatRole => p = PatPid
  /\ \A p \in Pids : handlers[p] = PmtRole => p \in Services
  /\ \A p \in closed : handlers[p] # None

\* The inductive invariant behind OnlyWantedFed and TablesTaken.
InductiveInv == TypeOK /\ TableRooted /\ OnlyWantedFed /\ TablesTaken

\* All that a stream got and will get, when n units have started on its PID: an
\* empty frame, then the latest units, none missing; c is still being collected.
OnceInOrder(got, c, n) ==
  LET all == IF c = Empty THEN got ELSE Append(got, c)
  IN  /\ got # <<>> => got[1] = Empty
      /\ \A k \in 2 .. Len(all) : all[k].unit = n - (Len(all) - k)

\* A stream that is fed gets every unit that starts on its PID from then on,
\* damaged or not, each once and in order, after one empty frame; the last is
\* still being collected until the PID is flushed.
EveryUnitOnce ==
  \A p \in Pids : handlers[p].role = "es" =>
    OnceInOrder(received[handlers[p].stream], collected[p], units[p])

\* The PID's handler is still to be flushed.
Unflushed(p) == Reading \/ eosAt <= p

\* A stream that is fed was fed from the first reset of its handler on: it has
\* got something if and only if its handler has begun to collect.
FedFromStart ==
  /\ \A p \in Pids : collected[p] # Empty => handlers[p] # None
  /\ \A s \in Streams : received[s] # <<>> => handlers[s.pid] = Feeds(s)
  /\ \A p \in Pids : handlers[p].role = "es" /\ Unflushed(p) =>
       (collected[p] = Empty <=> received[handlers[p].stream] = <<>>)

\* The inductive invariant behind EveryUnitOnce.
HistoryInv == InductiveInv /\ FedFromStart /\ EveryUnitOnce

\* Every stream of a program that was accepted has a handler on its PID, for
\* good: its own, or that of another program or table which had the PID before.
WantedListened == \A pr \in programs : \A q \in pr.streams : handlers[q] # None

\* A handler that was flushed collects nothing any more.
FlushedIsEmpty == \A p \in Pids : ~Unflushed(p) => collected[p] = Empty

\* At the end of the input nothing is kept back: when its PID has been flushed,
\* a stream that is fed has got all units that started on the PID since then.
EndDelivers ==
  \A p \in Pids : (~Unflushed(p) /\ handlers[p].role = "es") =>
    OnceInOrder(received[handlers[p].stream], Empty, units[p])

=============================================================================
