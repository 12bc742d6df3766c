---------------------------- MODULE DemuxProofs ----------------------------
(***************************************************************************)
(* Proofs about Demux for every PAT and every set of PMTs, including ones  *)
(* that share PIDs or list the PIDs of other tables.                       *)
(***************************************************************************)
EXTENDS Demux, SequenceTheorems, TLAPS

\* Adding handlers fills empty places of the table only.
LEMMA AddedKeeps ==
  ASSUME NEW hs, NEW new, NEW p \in Pids
  PROVE  /\ hs[p] # None => Added(hs, new)[p] = hs[p]
         /\ p \notin DOMAIN new => Added(hs, new)[p] = hs[p]
         /\ p \in DOMAIN new => Added(hs, new)[p] \in {hs[p], new[p]}
         /\ (p \in DOMAIN new /\ new[p] # None) => Added(hs, new)[p] # None
BY DEF Added

LEMMA AddedType ==
  ASSUME NEW hs \in [Pids -> Roles], NEW new, \A q \in DOMAIN new : new[q] \in Roles
  PROVE  Added(hs, new) \in [Pids -> Roles]
BY DEF Added

\* The kinds of handlers differ in their role.
LEMMA RolesDiffer ==
  /\ None # PatRole /\ None # PmtRole /\ PatRole # PmtRole
  /\ \A s : /\ Feeds(s) # None /\ Feeds(s) # PatRole /\ Feeds(s) # PmtRole
            /\ Feeds(s).role = "es" /\ Feeds(s).stream = s
  /\ \A r \in Roles : r.role = "es" => \E s \in Streams : r = Feeds(s)
BY DEF None, PatRole, PmtRole, Feeds, Roles

\* What ResetHandler needs of the table it looks at: handlers, or handlers and
\* the PAT handler that the same packet has made.
Table(hs) ==
  /\ hs \in [Pids -> Roles]
  /\ \A p \in Pids : hs[p] # None => hs[PatPid] = PatRole
  /\ \A p \in Pids : hs[p] = PatRole => p = PatPid
  /\ \A p \in Pids : hs[p] = PmtRole => p \in Services
  /\ \A p \in Pids : handlers[p] # None => hs[p] = handlers[p]
  /\ \A p \in Pids : hs[p] # handlers[p] => p = PatPid /\ hs[p] = PatRole

LEMMA HandlersTable == ASSUME InductiveInv PROVE Table(handlers)
BY DEF InductiveInv, TypeOK, TableRooted, Table

LEMMA WithPatTable == ASSUME InductiveInv, NEW p \in Pids PROVE Table(WithPat(p))
<1> USE DemuxAssumption
<1>1. CASE p # PatPid
  BY <1>1, HandlersTable DEF WithPat
<1>2. CASE p = PatPid
  <2> DEFINE hs == WithPat(p)
  <2>1. hs = Added(handlers, [q \in {p} |-> PatRole])
    BY <1>2 DEF WithPat
  <2>2. hs \in [Pids -> Roles]
    <3>1. handlers \in [Pids -> Roles]
      BY DEF InductiveInv, TypeOK
    <3>2. \A q \in DOMAIN [r \in {p} |-> PatRole] : [r \in {p} |-> PatRole][q] \in Roles
      BY DEF Roles
    <3> QED BY <2>1, <3>1, <3>2, AddedType, Zenon
  <2>3. \A q \in Pids : q # PatPid => hs[q] = handlers[q]
    BY <1>2, <2>1, AddedKeeps
  <2>4. hs[PatPid] = PatRole
    <3>1. handlers[PatPid] \in {None, PatRole}
      BY <1>2, RolesDiffer DEF InductiveInv, TableRooted
    <3> QED BY <1>2, <2>1, <3>1, AddedKeeps, RolesDiffer
  <2>5. handlers[PatPid] \in {None, PatRole}
    BY <1>2, RolesDiffer DEF InductiveInv, TableRooted
  <2> HIDE DEF hs
  <2>6. Table(hs)
    BY <1>2, <2>2, <2>3, <2>4, <2>5, RolesDiffer DEF InductiveInv, TypeOK, TableRooted, Table
  <2> QED BY <2>6 DEF hs
<1> QED BY <1>1, <1>2

\* What resetting a handler does to the table: it only grows, by PMT handlers for
\* listed PIDs and by handlers of streams whose program was accepted.
Grown(hs) ==
  /\ \A q \in Pids : handlers'[q] \in Roles /\ (hs[q] # None => handlers'[q] = hs[q])
  /\ \A q \in Pids : handlers'[q] # hs[q] =>
       \/ handlers'[q] = PmtRole /\ q \in Services
       \/ \E s \in Streams, pr \in programs' :
            handlers'[q] = Feeds(s) /\ s.pid = q /\ pr.pmt = s.pmt /\ q \in pr.streams

\* What a look at a unit means to the table of a PAT or PMT handler.
Looked(p) ==
  /\ parsed' \in {parsed, parsed \cup {p}} /\ latched \subseteq latched' /\ latched' \subseteq parsed'
  /\ PatPid # p => (PatPid \in latched' <=> PatPid \in latched)
  /\ (collected[p] # Empty /\ ~Damaged(p)) => p \in parsed'
  /\ crashed' \in BOOLEAN

LEMMA LookedAt ==
  ASSUME InductiveInv, NEW p \in Pids,
         \/ Refuses(p) /\ UNCHANGED <<parsed, latched, crashed>>
         \/ Takes(p)
         \/ Crashes(p)
  PROVE  Looked(p)
<1>1. latched \subseteq parsed /\ crashed \in BOOLEAN
  BY DEF InductiveInv, TypeOK
<1>2. CASE Refuses(p) /\ UNCHANGED <<parsed, latched, crashed>>
  BY <1>1, <1>2 DEF Refuses, Looks, Looked
<1>3. CASE Takes(p)
  BY <1>1, <1>3 DEF Takes, Looked
<1>4. CASE Crashes(p)
  BY <1>1, <1>4 DEF Crashes, Looked
<1> QED BY <1>2, <1>3, <1>4

LEMMA SupplyPatOutcome ==
  ASSUME InductiveInv, NEW p \in Pids, NEW hs, Table(hs), SupplyPat(p, hs)
  PROVE  /\ handlers' \in [Pids -> Roles] /\ Grown(hs) /\ Looked(p)
         /\ (p \in parsed' \ latched' /\ p \notin parsed) => \A q \in Services : handlers'[q] # None
         /\ UNCHANGED <<programs, received>>
<1> USE DemuxAssumption
<1>1. hs \in [Pids -> Roles]
  BY DEF Table
<1>2. Looked(p) /\ UNCHANGED <<programs, received>>
  BY LookedAt DEF SupplyPat
<1>3. CASE \/ Refuses(p) /\ handlers' = hs /\ UNCHANGED <<parsed, latched, crashed>>
           \/ Crashes(p) /\ handlers' = hs
  BY <1>1, <1>2, <1>3 DEF Crashes, Grown
<1>4. CASE /\ Takes(p)
           /\ \E listed \in Entries(p, Services) : handlers' = Added(hs, [q \in listed |-> PmtRole])
  <2>1. PICK listed \in Entries(p, Services) : handlers' = Added(hs, [q \in listed |-> PmtRole])
    BY <1>4
  <2> DEFINE new == [q \in listed |-> PmtRole]
  <2>2. listed \subseteq Services /\ (~Damaged(p) => listed = Services)
    BY <2>1 DEF Entries
  <2>3. handlers' = Added(hs, new) /\ DOMAIN new = listed /\ \A q \in listed : new[q] = PmtRole
    BY <2>1
  <2> HIDE DEF new
  <2>4. handlers' \in [Pids -> Roles]
    BY <1>1, <2>3, AddedType DEF Roles
  <2>5. \A q \in Pids : /\ hs[q] # None => handlers'[q] = hs[q]
                        /\ q \notin listed => handlers'[q] = hs[q]
                        /\ q \in listed => handlers'[q] \in {hs[q], PmtRole} /\ handlers'[q] # None
    BY <2>3, AddedKeeps, RolesDiffer
  <2>6. \A q \in Services : q \in Pids
    BY DEF Services
  <2>7. Grown(hs)
    BY <2>2, <2>4, <2>5 DEF Grown
  <2>8. p \in parsed' \ latched' => ~Damaged(p)
    BY <1>4 DEF Takes
  <2> QED BY <1>2, <2>2, <2>4, <2>5, <2>6, <2>7, <2>8
<1> QED BY <1>3, <1>4 DEF SupplyPat

LEMMA SupplyPmtOutcome ==
  ASSUME InductiveInv, NEW p \in Pids, NEW hs, Table(hs), SupplyPmt(p, hs)
  PROVE  /\ handlers' \in [Pids -> Roles] /\ Grown(hs) /\ Looked(p)
         /\ p \in Services /\ p # PatPid
         /\ programs \subseteq programs'
         /\ programs' \subseteq [pmt : Services, streams : SUBSET Pids]
         /\ UNCHANGED received
<1> USE DemuxAssumption
<1>1. hs \in [Pids -> Roles] /\ hs[p] = PmtRole /\ p \in Services /\ p # PatPid
  BY RolesDiffer DEF Table, SupplyPmt
<1>2. programs \subseteq [pmt : Services, streams : SUBSET Pids]
  BY DEF InductiveInv, TypeOK
<1>3. Looked(p) /\ UNCHANGED received
  BY LookedAt DEF SupplyPmt
<1>4. CASE handlers' = hs /\ UNCHANGED programs
  BY <1>1, <1>2, <1>3, <1>4 DEF Grown
<1>5. CASE /\ Takes(p)
           /\ \E qs \in SUBSET Creatable(p) : \E wanted \in {FALSE, qs # {}} :
                /\ handlers' = IF wanted THEN Added(hs, StreamObjects(p, qs)) ELSE hs
                /\ programs' = IF wanted THEN programs \cup {[pmt |-> p, streams |-> qs]} ELSE programs
  <2>1. PICK qs \in SUBSET Creatable(p) :
          \/ handlers' = Added(hs, StreamObjects(p, qs))
             /\ programs' = programs \cup {[pmt |-> p, streams |-> qs]}
          \/ handlers' = hs /\ UNCHANGED programs
    BY <1>5
  <2>2. qs \subseteq Pids
    <3>1. Pmt[p] \subseteq [pid : Pids, kind : Kinds]
      BY <1>1
    <3> QED BY <3>1 DEF Creatable
  <2>4. CASE handlers' = hs /\ UNCHANGED programs
    BY <1>4, <2>4
  <2>5. CASE handlers' = Added(hs, StreamObjects(p, qs))
             /\ programs' = programs \cup {[pmt |-> p, streams |-> qs]}
    <3> DEFINE new == StreamObjects(p, qs)
    <3>1. handlers' = Added(hs, new) /\ programs' = programs \cup {[pmt |-> p, streams |-> qs]}
      BY <2>5
    <3>2. DOMAIN new = qs /\ \A q \in qs : new[q] = Feeds([pmt |-> p, pid |-> q])
      BY DEF StreamObjects
    <3>3. \A q \in qs : [pmt |-> p, pid |-> q] \in Streams
      BY <1>1, <2>2 DEF Streams
    <3>4. \A q \in DOMAIN new : new[q] \in Roles
      BY <3>2, <3>3 DEF Roles
    <3> HIDE DEF new
    <3>5. handlers' \in [Pids -> Roles]
      BY <1>1, <3>1, <3>4, AddedType, Zenon
    <3>6. \A q \in Pids : /\ hs[q] # None => handlers'[q] = hs[q]
                          /\ q \notin qs => handlers'[q] = hs[q]
                          /\ q \in qs => handlers'[q] \in {hs[q], Feeds([pmt |-> p, pid |-> q])}
      BY <3>1, <3>2, AddedKeeps
    <3>7. programs' \subseteq [pmt : Services, streams : SUBSET Pids]
      BY <1>1, <1>2, <2>2, <3>1
    <3>8. Grown(hs)
      <4>1. ASSUME NEW q \in Pids, handlers'[q] # hs[q]
            PROVE  \E s \in Streams, pr \in programs' :
                     handlers'[q] = Feeds(s) /\ s.pid = q /\ pr.pmt = s.pmt /\ q \in pr.streams
        <5>1. q \in qs /\ handlers'[q] = Feeds([pmt |-> p, pid |-> q])
          BY <3>6, <4>1
        <5>2. [pmt |-> p, pid |-> q] \in Streams /\ [pmt |-> p, streams |-> qs] \in programs'
          BY <3>1, <3>3, <5>1
        <5> QED BY <5>1, <5>2
      <4>2. \A q \in Pids : handlers'[q] \in Roles /\ (hs[q] # None => handlers'[q] = hs[q])
        BY <3>5, <3>6
      <4> QED BY <4>1, <4>2 DEF Grown
    <3> QED BY <1>1, <1>3, <3>1, <3>5, <3>7, <3>8
  <2> QED BY <2>1, <2>4, <2>5
<1> QED BY <1>4, <1>5 DEF SupplyPmt

LEMMA SupplyStreamOutcome ==
  ASSUME InductiveInv, NEW p \in Pids, NEW hs, Table(hs), SupplyStream(p, hs)
  PROVE  /\ handlers' \in [Pids -> Roles] /\ Grown(hs)
         /\ UNCHANGED <<parsed, latched, programs, crashed>>
         /\ received' \in [Streams -> Seq(Units \cup {Empty})]
         /\ \E s \in Streams : /\ hs[p] = Feeds(s)
                               /\ \A t \in Streams \ {s} : received'[t] = received[t]
<1> USE DemuxAssumption
<1>1. hs \in [Pids -> Roles] /\ hs[p].role = "es" /\ handlers' = hs
     /\ UNCHANGED <<parsed, latched, programs, crashed>>
  BY DEF Table, SupplyStream
<1>2. PICK s \in Streams : hs[p] = Feeds(s)
  BY <1>1, RolesDiffer
<1>3. hs[p].stream = s
  BY <1>2, RolesDiffer
<1>4. received' = [received EXCEPT ![s] = Append(received[s], collected[p])]
  BY <1>3 DEF SupplyStream
<1>5. received \in [Streams -> Seq(Units \cup {Empty})] /\ collected[p] \in Units \cup {Empty}
  BY DEF InductiveInv, TypeOK
<1>6. Append(received[s], collected[p]) \in Seq(Units \cup {Empty})
  BY <1>5
<1>7. received' \in [Streams -> Seq(Units \cup {Empty})]
  BY <1>4, <1>5, <1>6
<1>8. \A t \in Streams \ {s} : received'[t] = received[t]
  BY <1>4, <1>5
<1> QED BY <1>1, <1>2, <1>7, <1>8 DEF Grown

\* Whichever handler is reset, these are the effects.
ResetEffect(p, hs) ==
  /\ handlers' \in [Pids -> Roles] /\ Grown(hs)
  /\ hs[p] # None
  /\ parsed' \in {parsed, parsed \cup {p}} /\ closed' \in {closed, closed \cup {p}}
  /\ latched \subseteq latched' /\ latched' \subseteq parsed' /\ crashed' \in BOOLEAN
  /\ (hs[p] \in {PatRole, PmtRole} /\ p \in closed') => (p \in parsed' \/ p \in closed)
  /\ (PatPid \in parsed' \ latched' /\ PatPid \notin parsed) => \A q \in Services : handlers'[q] # None
  /\ programs \subseteq programs'
  /\ programs' \subseteq [pmt : Services, streams : SUBSET Pids]
  /\ received' \in [Streams -> Seq(Units \cup {Empty})]
  /\ \A s \in Streams : hs[p] # Feeds(s) => received'[s] = received[s]

LEMMA ResetOutcome ==
  ASSUME InductiveInv, NEW p \in Pids, NEW hs, Table(hs), ResetHandler(p, hs)
  PROVE  ResetEffect(p, hs)
<1> USE DemuxAssumption
<1>1. closed' = IF collected[p] # Empty /\ collected[p].intact THEN closed \cup {p} ELSE closed
  BY DEF ResetHandler
<1>2. (p \in closed' /\ p \notin closed /\ Looked(p)) => p \in parsed'
  BY <1>1 DEF Looked, Damaged
<1>3. /\ programs \subseteq [pmt : Services, streams : SUBSET Pids]
      /\ received \in [Streams -> Seq(Units \cup {Empty})]
      /\ latched \subseteq parsed /\ crashed \in BOOLEAN
  BY DEF InductiveInv, TypeOK
<1>4. CASE SupplyPat(p, hs)
  <2>1. hs[p] = PatRole /\ p = PatPid
    BY <1>4 DEF SupplyPat, Table
  <2>2. /\ handlers' \in [Pids -> Roles] /\ Grown(hs) /\ Looked(p)
        /\ (p \in parsed' \ latched' /\ p \notin parsed) => \A q \in Services : handlers'[q] # None
        /\ UNCHANGED <<programs, received>>
    BY <1>4, SupplyPatOutcome
  <2> QED BY <1>1, <1>2, <1>3, <2>1, <2>2, RolesDiffer DEF ResetEffect, Looked
<1>5. CASE SupplyPmt(p, hs)
  <2>1. hs[p] = PmtRole
    BY <1>5 DEF SupplyPmt
  <2>2. /\ handlers' \in [Pids -> Roles] /\ Grown(hs) /\ Looked(p)
        /\ p \in Services /\ p # PatPid
        /\ programs \subseteq programs'
        /\ programs' \subseteq [pmt : Services, streams : SUBSET Pids]
        /\ UNCHANGED received
    BY <1>5, SupplyPmtOutcome
  <2> QED BY <1>1, <1>2, <1>3, <2>1, <2>2, RolesDiffer DEF ResetEffect, Looked
<1>6. CASE SupplyStream(p, hs)
  <2>1. PICK s \in Streams : hs[p] = Feeds(s) /\ \A t \in Streams \ {s} : received'[t] = received[t]
    BY <1>6, SupplyStreamOutcome
  <2> QED BY <1>1, <1>3, <1>6, <2>1, SupplyStreamOutcome, RolesDiffer DEF ResetEffect
<1> QED BY <1>4, <1>5, <1>6 DEF ResetHandler

\* A step that resets a handler keeps the invariant.
LEMMA ResetKeepsInv ==
  ASSUME InductiveInv, NEW p \in Pids, NEW hs, Table(hs), ResetHandler(p, hs),
         collected' \in [Pids -> Units \cup {Empty}],
         units' \in [Pids -> Nat], eosAt' \in 0 .. MaxPid + 2
  PROVE  InductiveInv' /\ \A q \in Pids : handlers[q] # None => handlers'[q] = handlers[q]
<1> USE DemuxAssumption
<1>0. ResetEffect(p, hs)
  BY ResetOutcome
<1>1. /\ parsed \subseteq Pids /\ closed \subseteq Pids /\ handlers \in [Pids -> Roles]
      /\ programs \subseteq [pmt : Services, streams : SUBSET Pids]
  BY DEF InductiveInv, TypeOK
<1>2. \A q \in Pids : handlers[q] # None => handlers'[q] = handlers[q]
  BY <1>0 DEF Table, Grown, ResetEffect
<1>3. TypeOK'
  BY <1>1, <1>0 DEF TypeOK, ResetEffect
<1>4. PatPid \in Pids /\ hs[PatPid] = PatRole /\ handlers'[PatPid] = PatRole
  <2>1. PatPid \in Pids
    BY DEF PatPid, Pids
  <2>2. hs[PatPid] = PatRole
    BY <1>0 DEF Table, ResetEffect
  <2> QED BY <2>1, <2>2, <1>0, RolesDiffer DEF Grown, ResetEffect
<1>5. TableRooted'
  <2>1. \A q \in Pids : handlers'[q] = PatRole => q = PatPid
    BY <1>0, RolesDiffer DEF Table, Grown, ResetEffect
  <2>2. \A q \in Pids : handlers'[q] = PmtRole => q \in Services
    BY <1>0, RolesDiffer DEF Table, Grown, ResetEffect
  <2>3. handlers'[p] # None
    BY <1>0 DEF Grown, ResetEffect
  <2>4. \A q \in closed : handlers'[q] # None
    BY <1>1, <1>2 DEF InductiveInv, TableRooted
  <2>5. \A q \in closed' : handlers'[q] # None
    BY <2>3, <2>4, <1>0 DEF ResetEffect
  <2> QED BY <1>4, <2>1, <2>2, <2>5 DEF TableRooted
<1>6. OnlyWantedFed'
  <2> SUFFICES ASSUME NEW s \in Streams
               PROVE  /\ \A q \in Pids : handlers'[q] = Feeds(s) => q = s.pid
                      /\ (handlers'[s.pid] = Feeds(s) \/ received'[s] # <<>>) =>
                           \E pr \in programs' : pr.pmt = s.pmt /\ s.pid \in pr.streams
    BY DEF OnlyWantedFed
  <2>1. \A q \in Pids : hs[q] = Feeds(s) => handlers[q] = Feeds(s)
    BY RolesDiffer DEF Table
  <2>2. \A q \in Pids : handlers[q] = Feeds(s) =>
          q = s.pid /\ \E pr \in programs' : pr.pmt = s.pmt /\ s.pid \in pr.streams
    <3>1. programs \subseteq programs'
      BY <1>0 DEF ResetEffect
    <3> QED BY <3>1 DEF InductiveInv, OnlyWantedFed
  <2>3. \A q \in Pids : handlers'[q] = Feeds(s) =>
          q = s.pid /\ \E pr \in programs' : pr.pmt = s.pmt /\ s.pid \in pr.streams
    <3> SUFFICES ASSUME NEW q \in Pids, handlers'[q] = Feeds(s)
                 PROVE  q = s.pid /\ \E pr \in programs' : pr.pmt = s.pmt /\ s.pid \in pr.streams
      OBVIOUS
    <3>1. CASE handlers'[q] = hs[q]
      BY <2>1, <2>2, <3>1
    <3>2. CASE handlers'[q] # hs[q]
      <4>1. PICK t \in Streams, pr \in programs' :
              handlers'[q] = Feeds(t) /\ t.pid = q /\ pr.pmt = t.pmt /\ q \in pr.streams
        BY <3>2, <1>0, RolesDiffer DEF Grown, ResetEffect
      <4>2. s = t
        <5>1. Feeds(s) = Feeds(t)
          BY <4>1
        <5>2. Feeds(s).stream = s /\ Feeds(t).stream = t
          BY RolesDiffer
        <5> QED BY <5>1, <5>2
      <4> QED BY <4>1, <4>2
    <3> QED BY <3>1, <3>2
  <2>4. received'[s] # <<>> => \E pr \in programs' : pr.pmt = s.pmt /\ s.pid \in pr.streams
    <3>1. CASE hs[p] = Feeds(s)
      BY <2>1, <2>2, <3>1
    <3>2. CASE hs[p] # Feeds(s)
      <4>1. received'[s] = received[s] /\ programs \subseteq programs'
        BY <3>2, <1>0 DEF ResetEffect
      <4> QED BY <4>1 DEF InductiveInv, OnlyWantedFed
    <3> QED BY <3>1, <3>2
  <2>5. s.pid \in Pids
    BY DEF Streams
  <2> QED BY <2>3, <2>4, <2>5
<1>7. TablesTaken'
  <2>1. ASSUME NEW q \in closed', handlers'[q] \in {PatRole, PmtRole}
        PROVE  q \in parsed'
    <3>1. CASE q \in closed
      <4>1. handlers[q] # None /\ q \in Pids
        BY <1>1, <3>1 DEF InductiveInv, TableRooted
      <4>2. q \in parsed
        BY <1>2, <2>1, <3>1, <4>1 DEF InductiveInv, TablesTaken
      <4> QED BY <4>2, <1>0 DEF ResetEffect
    <3>2. CASE q \notin closed
      <4>1. q = p /\ handlers'[p] = hs[p]
        BY <2>1, <3>2, <1>0 DEF Grown, ResetEffect
      <4> QED BY <2>1, <3>2, <4>1, <1>0 DEF ResetEffect
    <3> QED BY <3>1, <3>2
  <2>2. ASSUME PatPid \in parsed' \ latched', NEW q \in Services
        PROVE  handlers'[q] # None
    <3>1. CASE PatPid \in parsed
      <4>0. PatPid \in parsed \ latched
        BY <2>2, <3>1, <1>0 DEF ResetEffect
      <4>1. handlers[q] # None /\ q \in Pids
        BY <4>0 DEF InductiveInv, TablesTaken, Services
      <4> QED BY <1>2, <4>1
    <3>2. CASE PatPid \notin parsed
      BY <2>2, <3>2, <1>0 DEF ResetEffect
    <3> QED BY <3>1, <3>2
  <2> QED BY <2>1, <2>2 DEF TablesTaken
<1> QED BY <1>2, <1>3, <1>5, <1>6, <1>7 DEF InductiveInv

LEMMA InductiveInit == Init => InductiveInv
<1> SUFFICES ASSUME Init PROVE InductiveInv
  OBVIOUS
<1> USE DemuxAssumption
<1>1. \A p \in Pids : handlers[p] = None
  BY DEF Init
<1>2. \A s \in Streams : received[s] = <<>> /\ s.pid \in Pids
  BY DEF Init, Streams
<1>3. TypeOK
  <2>1. received \in [Streams -> Seq(Units \cup {Empty})]
    BY DEF Init
  <2>2. collected \in [Pids -> Units \cup {Empty}] /\ handlers \in [Pids -> Roles]
    BY DEF Init, Roles
  <2>3. units \in [Pids -> Nat] /\ eosAt \in 0 .. MaxPid + 2
    BY DEF Init
  <2>4. crashed \in BOOLEAN
    BY Zenon DEF Init
  <2>5. latched \subseteq parsed /\ parsed \subseteq Pids /\ closed \subseteq Pids
        /\ programs \subseteq [pmt : Services, streams : SUBSET Pids]
    BY DEF Init
  <2> QED BY <2>1, <2>2, <2>3, <2>4, <2>5 DEF TypeOK
<1>4. TableRooted
  BY <1>1, RolesDiffer DEF Init, TableRooted
<1>5. OnlyWantedFed
  BY <1>1, <1>2, RolesDiffer DEF OnlyWantedFed
<1>6. TablesTaken
  BY DEF Init, TablesTaken
<1> QED BY <1>3, <1>4, <1>5, <1>6 DEF InductiveInv

LEMMA StartUnitStep ==
  ASSUME InductiveInv, NEW p \in Pids, NEW intact \in BOOLEAN, StartUnit(p, intact)
  PROVE  InductiveInv' /\ \A q \in Pids : handlers[q] # None => handlers'[q] = handlers[q]
<1> USE DemuxAssumption
<1>1. /\ units \in [Pids -> Nat] /\ collected \in [Pids -> Units \cup {Empty}]
      /\ eosAt \in 0 .. MaxPid + 2
  BY DEF InductiveInv, TypeOK
<1>2. units[p] \in Nat /\ units[p] + 1 \in Nat \ {0}
  BY <1>1 DEF StartUnit
<1>3. units' \in [Pids -> Nat]
  BY <1>1, <1>2 DEF StartUnit
<1>4. [unit |-> units[p] + 1, intact |-> intact] \in Units
  BY <1>2 DEF Units
<1>5. collected' \in [Pids -> Units \cup {Empty}]
  BY <1>1, <1>4 DEF StartUnit
<1>6. Table(WithPat(p)) /\ ResetHandler(p, WithPat(p)) /\ eosAt' \in 0 .. MaxPid + 2
  BY <1>1, WithPatTable DEF StartUnit
<1> QED BY <1>3, <1>5, <1>6, ResetKeepsInv

LEMMA FlushHandlerStep ==
  ASSUME InductiveInv, FlushHandler
  PROVE  InductiveInv' /\ \A q \in Pids : handlers[q] # None => handlers'[q] = handlers[q]
<1> USE DemuxAssumption
<1>1. /\ units \in [Pids -> Nat] /\ collected \in [Pids -> Units \cup {Empty}]
      /\ eosAt \in Pids /\ eosAt' = eosAt + 1 /\ units' = units
  BY DEF InductiveInv, TypeOK, FlushHandler, Flushing
<1>2. eosAt' \in 0 .. MaxPid + 2
  BY <1>1 DEF Pids
<1>3. CASE handlers[eosAt] = None
  <2>1. UNCHANGED <<handlers, collected, parsed, latched, programs, received, closed, crashed>>
    BY <1>3 DEF FlushHandler
  <2> QED BY <1>1, <1>2, <2>1 DEF InductiveInv, TypeOK, TableRooted, OnlyWantedFed, TablesTaken
<1>4. CASE handlers[eosAt] # None
  <2>1. ResetHandler(eosAt, handlers) /\ collected' = [collected EXCEPT ![eosAt] = Empty]
    BY <1>4 DEF FlushHandler
  <2>2. collected' \in [Pids -> Units \cup {Empty}]
    BY <1>1, <2>1
  <2> QED BY <1>1, <1>2, <2>1, <2>2, HandlersTable, ResetKeepsInv
<1> QED BY <1>3, <1>4

\* The steps that touch no handler.
LEMMA QuietStep ==
  ASSUME InductiveInv, units' \in [Pids -> Nat], eosAt' \in 0 .. MaxPid + 2,
         UNCHANGED <<handlers, collected, parsed, latched, programs, received, closed, crashed>>
  PROVE  InductiveInv'
BY DEF InductiveInv, TypeOK, TableRooted, OnlyWantedFed, TablesTaken

LEMMA InductiveNext ==
  ASSUME InductiveInv, [Next]_vars
  PROVE  InductiveInv' /\ \A q \in Pids : handlers[q] # None => handlers'[q] = handlers[q]
<1> USE DemuxAssumption
<1>1. units \in [Pids -> Nat] /\ eosAt \in 0 .. MaxPid + 2
  BY DEF InductiveInv, TypeOK
<1>2. ASSUME NEW p \in Pids, NEW intact \in BOOLEAN, StartUnit(p, intact)
      PROVE  InductiveInv' /\ \A q \in Pids : handlers[q] # None => handlers'[q] = handlers[q]
  BY <1>2, StartUnitStep
<1>3. ASSUME NEW p \in Pids, DropUnit(p)
      PROVE  InductiveInv' /\ \A q \in Pids : handlers[q] # None => handlers'[q] = handlers[q]
  <2>1. units' \in [Pids -> Nat]
    BY <1>1, <1>3 DEF DropUnit
  <2> QED BY <1>1, <1>3, <2>1, QuietStep DEF DropUnit
<1>4. CASE EndOfStream
  <2>1. eosAt' \in 0 .. MaxPid + 2
    BY <1>4 DEF EndOfStream
  <2> QED BY <1>1, <1>4, <2>1, QuietStep DEF EndOfStream
<1>5. CASE FlushHandler
  BY <1>5, FlushHandlerStep
<1>6. CASE UNCHANGED vars
  BY <1>1, <1>6, QuietStep DEF vars
<1> QED BY <1>2, <1>3, <1>4, <1>5, <1>6 DEF Next

\* For every PAT and every set of PMTs the table of handlers stays consistent.
THEOREM Invariance == Spec => []InductiveInv
<1>1. InductiveInv /\ [Next]_vars => InductiveInv'
  BY InductiveNext
<1> QED BY <1>1, InductiveInit, PTL DEF Spec

\* No stream object gets a frame unless programSpawned accepted its program.
THEOREM UnwantedNotFed == Spec => []OnlyWantedFed
BY Invariance, PTL DEF InductiveInv

\* An intact PAT or PMT is kept from being taken only by a damaged one that was
\* taken before it, never by one that was refused.
THEOREM TablesNotMissed == Spec => []TablesTaken
BY Invariance, PTL DEF InductiveInv

\* No handler in the table is ever replaced.
THEOREM HandlersKept == Spec => HandlersNotReplaced
<1>1. InductiveInv /\ [Next]_vars =>
        [\A p \in Pids : handlers[p] # None => handlers'[p] = handlers[p]]_vars
  BY InductiveNext
<1> QED BY <1>1, Invariance, PTL DEF Spec, HandlersNotReplaced

-----------------------------------------------------------------------------

\* A handler in the table that feeds something feeds the stream of its own PID.
LEMMA FedStream ==
  ASSUME InductiveInv, NEW q \in Pids, handlers[q].role = "es"
  PROVE  \E s \in Streams : handlers[q] = Feeds(s) /\ handlers[q].stream = s /\ s.pid = q
<1>1. PICK s \in Streams : handlers[q] = Feeds(s)
  BY RolesDiffer DEF InductiveInv, TypeOK
<1> QED BY <1>1, RolesDiffer DEF InductiveInv, OnlyWantedFed

LEMMA OnceInOrderIntro ==
  ASSUME NEW got, NEW c, NEW n, NEW all, all = (IF c = Empty THEN got ELSE Append(got, c)),
         got[1] = Empty, \A k \in 2 .. Len(all) : all[k].unit = n - (Len(all) - k)
  PROVE  OnceInOrder(got, c, n)
BY Zenon DEF OnceInOrder

\* One more unit: what was collected is supplied, and the next one is collected.
LEMMA NextUnitInOrder ==
  ASSUME NEW got \in Seq(Units \cup {Empty}), NEW c \in Units \cup {Empty}, NEW n \in Nat,
         NEW d \in Units, d.unit = n + 1,
         c = Empty <=> got = <<>>, OnceInOrder(got, c, n)
  PROVE  OnceInOrder(Append(got, c), d, n + 1)
<1> DEFINE more == Append(got, c)
           all  == Append(more, d)
<1>1. d # Empty
  BY DEF Units, Empty
<1>2. more \in Seq(Units \cup {Empty}) /\ Len(more) = Len(got) + 1
      /\ \A k \in 1 .. Len(got) : more[k] = got[k]
  OBVIOUS
<1>2a. more[Len(got) + 1] = c
  OBVIOUS
<1>3. all \in Seq(Units \cup {Empty}) /\ Len(all) = Len(more) + 1
      /\ \A k \in 1 .. Len(more) : all[k] = more[k]
  BY <1>2
<1>3a. all[Len(more) + 1] = d
  BY <1>2
<1>4. more[1] = Empty
  <2>1. CASE got = <<>>
    BY <2>1, <1>2a
  <2>2. CASE got # <<>>
    BY <2>2, <1>2 DEF OnceInOrder
  <2> QED BY <2>1, <2>2
<1>5. ASSUME NEW k \in 2 .. Len(more)
      PROVE  more[k].unit = n - (Len(more) - k)
  <2>1. CASE got = <<>>
    BY <2>1, <1>2, <1>5
  <2>2. CASE got # <<>>
    <3>1. c # Empty
      BY <2>2
    <3>2. \A j \in 2 .. Len(more) : more[j].unit = n - (Len(more) - j)
      BY <3>1 DEF OnceInOrder
    <3> QED BY <3>2
  <2> QED BY <2>1, <2>2
<1> HIDE DEF more, all
<1>6. ASSUME NEW k \in 2 .. Len(all)
      PROVE  all[k].unit = n + 1 - (Len(all) - k)
  <2>0. Len(got) \in Nat
    OBVIOUS
  <2>1. CASE k = Len(all)
    BY <2>0, <2>1, <1>2, <1>3, <1>3a
  <2>2. CASE k # Len(all)
    <3>1. k \in 2 .. Len(more) /\ k \in 1 .. Len(more)
      BY <2>0, <2>2, <1>2, <1>3
    <3>2. all[k].unit = n - (Len(more) - k)
      BY <3>1, <1>3, <1>5
    <3> QED BY <2>0, <3>1, <3>2, <1>2, <1>3
  <2> QED BY <2>1, <2>2
<1>7. (IF d = Empty THEN more ELSE Append(more, d)) = all
  BY <1>1 DEF all
<1>8. OnceInOrder(more, d, n + 1)
  <2>1. \A k \in 2 .. Len(all) : all[k].unit = (n + 1) - (Len(all) - k)
    BY <1>6
  <2> QED BY <1>4, <1>7, <2>1, OnceInOrderIntro, Zenon
<1> QED BY <1>8 DEF more

\* The last unit is supplied.
LEMMA LastUnitInOrder ==
  ASSUME NEW got \in Seq(Units \cup {Empty}), NEW c \in Units \cup {Empty}, NEW n \in Nat,
         c = Empty <=> got = <<>>, OnceInOrder(got, c, n)
  PROVE  OnceInOrder(Append(got, c), Empty, n)
<1> DEFINE more == Append(got, c)
<1>1. Len(more) = Len(got) + 1 /\ more[Len(got) + 1] = c
      /\ \A k \in 1 .. Len(got) : more[k] = got[k]
  OBVIOUS
<1>2. CASE got = <<>>
  <2>1. Len(more) = 1 /\ more[1] = Empty
    BY <1>1, <1>2
  <2> HIDE DEF more
  <2>2. OnceInOrder(more, Empty, n)
    <3>1. \A k \in 2 .. Len(more) : more[k].unit = n - (Len(more) - k)
      BY <2>1
    <3> QED BY <2>1, <3>1, OnceInOrderIntro, Zenon
  <2> QED BY <2>2 DEF more
<1>3. CASE got # <<>>
  <2>1. \A k \in 2 .. Len(more) : more[k].unit = n - (Len(more) - k)
    BY <1>3 DEF OnceInOrder
  <2>2. more[1] = Empty
    BY <1>1, <1>3 DEF OnceInOrder
  <2> HIDE DEF more
  <2>3. OnceInOrder(more, Empty, n)
    BY <2>1, <2>2 DEF OnceInOrder
  <2> QED BY <2>3 DEF more
<1> QED BY <1>2, <1>3

\* What a reset means to the streams: only the stream of the PID gets a frame,
\* and a stream that is fed from now on has nothing yet.
LEMMA ResetHistory ==
  ASSUME InductiveInv, FedFromStart, NEW p \in Pids, NEW hs, Table(hs), ResetHandler(p, hs)
  PROVE  /\ \A q \in Pids : handlers[q] # None => handlers'[q] = handlers[q]
         /\ handlers'[p] # None
         /\ \A q \in Pids : (handlers[q] = None /\ handlers'[q].role = "es") =>
              q # p /\ received'[handlers'[q].stream] = <<>>
         /\ \A q \in Pids \ {p} : handlers[q].role = "es" =>
              received'[handlers[q].stream] = received[handlers[q].stream]
         /\ handlers[p].role = "es" =>
              received'[handlers[p].stream] = Append(received[handlers[p].stream], collected[p])
         /\ \A s \in Streams : received'[s] # <<>> => handlers'[s.pid] = Feeds(s)
<1>0. ResetEffect(p, hs)
  BY ResetOutcome
<1>1. \A q \in Pids : handlers[q] # None => handlers'[q] = handlers[q]
  BY <1>0 DEF Table, Grown, ResetEffect
<1>2. handlers'[p] # None /\ handlers'[p] = hs[p]
  BY <1>0 DEF Grown, ResetEffect
<1>3. \A s \in Streams : hs[p] = Feeds(s) => handlers[p] = Feeds(s)
  BY RolesDiffer DEF Table
<1>4. \A s \in Streams : s.pid \in Pids
  BY DEF Streams
<1>5. \A s \in Streams : received'[s] # <<>> => handlers[s.pid] = Feeds(s)
  <2> SUFFICES ASSUME NEW s \in Streams, received'[s] # <<>>
               PROVE  handlers[s.pid] = Feeds(s)
    OBVIOUS
  <2>1. CASE hs[p] = Feeds(s)
    BY <1>3, <2>1 DEF InductiveInv, OnlyWantedFed
  <2>2. CASE hs[p] # Feeds(s)
    BY <1>0, <2>2 DEF ResetEffect, FedFromStart
  <2> QED BY <2>1, <2>2
<1>6. \A s \in Streams : received'[s] # <<>> => handlers'[s.pid] = Feeds(s)
  BY <1>1, <1>4, <1>5, RolesDiffer
<1>7. ASSUME NEW q \in Pids, handlers[q] = None, handlers'[q].role = "es"
      PROVE  q # p /\ received'[handlers'[q].stream] = <<>>
  <2>1. hs[q] = None \/ hs[q] = PatRole
    BY <1>7 DEF Table
  <2>2. hs[q].role # "es" /\ hs[q] # handlers'[q]
    BY <2>1, <1>7 DEF None, PatRole
  <2>3. q # p
    BY <2>2, <1>2
  <2>4. PICK s \in Streams : handlers'[q] = Feeds(s) /\ s.pid = q
    <3>1. handlers'[q] # PmtRole
      BY <1>7 DEF PmtRole
    <3> QED BY <3>1, <2>2, <1>0 DEF Grown, ResetEffect
  <2>5. handlers'[q].stream = s
    BY <2>4, RolesDiffer
  <2>6. handlers[s.pid] # Feeds(s)
    BY <2>4, <1>7, RolesDiffer
  <2> QED BY <2>3, <2>5, <2>6, <1>5
<1>8. ASSUME NEW q \in Pids \ {p}, handlers[q].role = "es"
      PROVE  received'[handlers[q].stream] = received[handlers[q].stream]
  <2>1. PICK s \in Streams : handlers[q] = Feeds(s) /\ handlers[q].stream = s /\ s.pid = q
    BY <1>8, FedStream
  <2>2. hs[p] # Feeds(s)
    <3>1. handlers[p] # Feeds(s)
      BY <2>1 DEF InductiveInv, OnlyWantedFed
    <3> QED BY <3>1, <1>3
  <2> QED BY <2>1, <2>2, <1>0 DEF ResetEffect
<1>9. ASSUME handlers[p].role = "es"
      PROVE  received'[handlers[p].stream] = Append(received[handlers[p].stream], collected[p])
  <2>1. PICK s \in Streams : handlers[p] = Feeds(s) /\ handlers[p].stream = s
    BY <1>9, FedStream
  <2>2. hs[p] = Feeds(s)
    BY <2>1, RolesDiffer DEF Table
  <2>3. SupplyStream(p, hs)
    BY <2>2, RolesDiffer DEF ResetHandler, SupplyPat, SupplyPmt
  <2>4. received' = [received EXCEPT ![s] = Append(received[s], collected[p])]
    BY <2>2, <2>3, RolesDiffer DEF SupplyStream
  <2>5. DOMAIN received = Streams
    BY DEF InductiveInv, TypeOK
  <2> QED BY <2>1, <2>4, <2>5
<1> QED BY <1>1, <1>2, <1>6, <1>7, <1>8, <1>9

LEMMA StartUnitHistory ==
  ASSUME HistoryInv, NEW p \in Pids, NEW intact \in BOOLEAN, StartUnit(p, intact)
  PROVE  (FedFromStart /\ EveryUnitOnce)'
<1> USE DemuxAssumption
<1> DEFINE new == [unit |-> units[p] + 1, intact |-> intact]
<1>1. /\ collected \in [Pids -> Units \cup {Empty}] /\ units \in [Pids -> Nat]
      /\ received \in [Streams -> Seq(Units \cup {Empty})]
      /\ handlers \in [Pids -> Roles] /\ Reading /\ Reading'
      /\ InductiveInv /\ FedFromStart
  BY DEF HistoryInv, InductiveInv, TypeOK, StartUnit, Reading
<1>2. new \in Units /\ new # Empty /\ new.unit = units[p] + 1
  BY <1>1 DEF StartUnit, Units, Empty
<1>3. /\ collected'[p] = new /\ units'[p] = units[p] + 1
      /\ \A q \in Pids \ {p} : collected'[q] = collected[q] /\ units'[q] = units[q]
  BY <1>1 DEF StartUnit
<1> HIDE DEF new
<1>4. Table(WithPat(p)) /\ ResetHandler(p, WithPat(p))
  BY <1>1, WithPatTable DEF StartUnit
<1>5. /\ \A q \in Pids : handlers[q] # None => handlers'[q] = handlers[q]
      /\ handlers'[p] # None
      /\ \A q \in Pids : (handlers[q] = None /\ handlers'[q].role = "es") =>
           q # p /\ received'[handlers'[q].stream] = <<>>
      /\ \A q \in Pids \ {p} : handlers[q].role = "es" =>
           received'[handlers[q].stream] = received[handlers[q].stream]
      /\ handlers[p].role = "es" =>
           received'[handlers[p].stream] = Append(received[handlers[p].stream], collected[p])
      /\ \A s \in Streams : received'[s] # <<>> => handlers'[s.pid] = Feeds(s)
  BY <1>1, <1>4, ResetHistory
<1>6. ASSUME NEW q \in Pids, handlers'[q].role = "es"
      PROVE  /\ collected'[q] = Empty <=> received'[handlers'[q].stream] = <<>>
             /\ OnceInOrder(received'[handlers'[q].stream], collected'[q], units'[q])
  <2>1. CASE handlers[q] = None
    <3>1. collected'[q] = Empty /\ received'[handlers'[q].stream] = <<>>
      BY <2>1, <1>1, <1>3, <1>5, <1>6 DEF FedFromStart
    <3> QED BY <3>1 DEF OnceInOrder
  <2>2. CASE handlers[q] # None
    <3>1. handlers'[q] = handlers[q] /\ handlers[q].role = "es"
      BY <2>2, <1>5, <1>6
    <3>2. PICK s \in Streams : handlers[q] = Feeds(s) /\ handlers[q].stream = s
      BY <3>1, <1>1, FedStream
    <3>3. /\ collected[q] = Empty <=> received[s] = <<>>
          /\ OnceInOrder(received[s], collected[q], units[q])
      BY <3>1, <3>2, <1>1 DEF HistoryInv, FedFromStart, EveryUnitOnce, Unflushed
    <3>4. CASE q # p
      BY <3>1, <3>2, <3>3, <3>4, <1>3, <1>5
    <3>5. CASE q = p
      <4>1. received'[s] = Append(received[s], collected[p])
        BY <3>1, <3>2, <3>5, <1>5
      <4>2. received[s] \in Seq(Units \cup {Empty}) /\ collected[p] \in Units \cup {Empty}
            /\ units[p] \in Nat
        BY <1>1
      <4>3. Append(received[s], collected[p]) # <<>>
        BY <4>2
      <4>4. OnceInOrder(received'[s], new, units[p] + 1)
        BY <3>3, <3>5, <4>1, <4>2, <1>2, NextUnitInOrder
      <4> QED BY <3>1, <3>2, <3>5, <4>1, <4>3, <4>4, <1>2, <1>3
    <3> QED BY <3>4, <3>5
  <2> QED BY <2>1, <2>2
<1>7. ASSUME NEW q \in Pids, collected'[q] # Empty PROVE handlers'[q] # None
  BY <1>1, <1>3, <1>5, <1>7 DEF FedFromStart
<1> QED BY <1>5, <1>6, <1>7 DEF FedFromStart, EveryUnitOnce

LEMMA FlushHandlerHistory ==
  ASSUME HistoryInv, FlushHandler
  PROVE  (FedFromStart /\ EveryUnitOnce)'
<1> USE DemuxAssumption
<1>1. /\ collected \in [Pids -> Units \cup {Empty}] /\ units \in [Pids -> Nat]
      /\ received \in [Streams -> Seq(Units \cup {Empty})]
      /\ handlers \in [Pids -> Roles]
      /\ InductiveInv /\ FedFromStart /\ EveryUnitOnce
  BY DEF HistoryInv, InductiveInv, TypeOK
<1>2. eosAt \in Pids /\ eosAt' = eosAt + 1 /\ units' = units
  BY DEF FlushHandler, Flushing
<1>3. /\ Unflushed(eosAt)
      /\ \A q \in Pids : Unflushed(q)' => Unflushed(q) /\ q # eosAt
  BY <1>2 DEF Unflushed, Reading, Pids
<1>4. CASE handlers[eosAt] = None
  <2>1. UNCHANGED <<handlers, collected, received>>
    BY <1>4 DEF FlushHandler
  <2> QED BY <1>1, <1>2, <1>3, <2>1 DEF FedFromStart, EveryUnitOnce
<1>5. CASE handlers[eosAt] # None
  <2>1. ResetHandler(eosAt, handlers) /\ collected' = [collected EXCEPT ![eosAt] = Empty]
    BY <1>5 DEF FlushHandler
  <2>2. /\ collected'[eosAt] = Empty
        /\ \A q \in Pids \ {eosAt} : collected'[q] = collected[q]
    BY <1>1, <1>2, <2>1
  <2>3. /\ \A q \in Pids : handlers[q] # None => handlers'[q] = handlers[q]
        /\ handlers'[eosAt] # None
        /\ \A q \in Pids : (handlers[q] = None /\ handlers'[q].role = "es") =>
             q # eosAt /\ received'[handlers'[q].stream] = <<>>
        /\ \A q \in Pids \ {eosAt} : handlers[q].role = "es" =>
             received'[handlers[q].stream] = received[handlers[q].stream]
        /\ handlers[eosAt].role = "es" =>
             received'[handlers[eosAt].stream]
               = Append(received[handlers[eosAt].stream], collected[eosAt])
        /\ \A s \in Streams : received'[s] # <<>> => handlers'[s.pid] = Feeds(s)
    BY <1>1, <1>2, <2>1, HandlersTable, ResetHistory
  <2>4. ASSUME NEW q \in Pids, handlers'[q].role = "es"
        PROVE  /\ Unflushed(q)' => (collected'[q] = Empty <=> received'[handlers'[q].stream] = <<>>)
               /\ OnceInOrder(received'[handlers'[q].stream], collected'[q], units'[q])
    <3>1. CASE handlers[q] = None
      <4>1. collected'[q] = Empty /\ received'[handlers'[q].stream] = <<>>
        BY <3>1, <1>1, <2>2, <2>3, <2>4 DEF FedFromStart
      <4> QED BY <4>1 DEF OnceInOrder
    <3>2. CASE handlers[q] # None
      <4>1. handlers'[q] = handlers[q] /\ handlers[q].role = "es"
        BY <3>2, <2>3, <2>4
      <4>2. PICK s \in Streams : handlers[q] = Feeds(s) /\ handlers[q].stream = s
        BY <4>1, <1>1, FedStream
      <4>3. /\ Unflushed(q) => (collected[q] = Empty <=> received[s] = <<>>)
            /\ OnceInOrder(received[s], collected[q], units[q])
        BY <4>1, <4>2, <1>1 DEF FedFromStart, EveryUnitOnce
      <4>4. CASE q # eosAt
        BY <4>1, <4>2, <4>3, <4>4, <1>2, <1>3, <2>2, <2>3
      <4>5. CASE q = eosAt
        <5>1. received'[s] = Append(received[s], collected[q])
          BY <4>1, <4>2, <4>5, <2>3
        <5>2. received[s] \in Seq(Units \cup {Empty}) /\ collected[q] \in Units \cup {Empty}
              /\ units[q] \in Nat
          BY <1>1
        <5>3. OnceInOrder(received'[s], Empty, units[q])
          BY <4>3, <4>5, <1>3, <5>1, <5>2, LastUnitInOrder
        <5> QED BY <4>1, <4>2, <4>5, <5>3, <1>2, <1>3, <2>2
      <4> QED BY <4>4, <4>5
    <3> QED BY <3>1, <3>2
  <2>5. ASSUME NEW q \in Pids, collected'[q] # Empty PROVE handlers'[q] # None
    BY <1>1, <2>2, <2>3, <2>5 DEF FedFromStart
  <2> QED BY <2>3, <2>4, <2>5 DEF FedFromStart, EveryUnitOnce
<1> QED BY <1>4, <1>5

LEMMA HistoryInit == Init => HistoryInv
<1> SUFFICES ASSUME Init PROVE HistoryInv
  OBVIOUS
<1>1. \A p \in Pids : handlers[p].role # "es" /\ collected[p] = Empty
  BY DEF Init, None
<1>2. \A s \in Streams : received[s] = <<>>
  BY DEF Init
<1> QED BY <1>1, <1>2, InductiveInit DEF HistoryInv, FedFromStart, EveryUnitOnce

LEMMA HistoryNext == HistoryInv /\ [Next]_vars => HistoryInv'
<1> SUFFICES ASSUME HistoryInv, [Next]_vars PROVE (FedFromStart /\ EveryUnitOnce)'
  BY InductiveNext DEF HistoryInv
<1> USE DemuxAssumption
<1>1. ASSUME NEW p \in Pids, NEW intact \in BOOLEAN, StartUnit(p, intact)
      PROVE  (FedFromStart /\ EveryUnitOnce)'
  BY <1>1, StartUnitHistory
<1>2. ASSUME NEW p \in Pids, DropUnit(p)
      PROVE  (FedFromStart /\ EveryUnitOnce)'
  <2>1. /\ UNCHANGED <<handlers, collected, received, eosAt>>
        /\ \A q \in Pids \ {p} : units'[q] = units[q]
    BY <1>2 DEF DropUnit, HistoryInv, InductiveInv, TypeOK
  <2>2. handlers[p].role # "es"
    <3>1. WithPat(p)[p] = None
      BY <1>2 DEF DropUnit
    <3>2. handlers[p] = None
      BY <3>1, WithPatTable DEF Table, HistoryInv
    <3> QED BY <3>2 DEF None
  <2> QED BY <2>1, <2>2 DEF HistoryInv, FedFromStart, EveryUnitOnce, Unflushed, Reading
<1>3. CASE EndOfStream
  <2>1. UNCHANGED <<handlers, collected, received, units>> /\ \A q \in Pids : Unflushed(q)
    BY <1>3 DEF EndOfStream, Unflushed
  <2> QED BY <2>1 DEF HistoryInv, FedFromStart, EveryUnitOnce
<1>4. CASE FlushHandler
  BY <1>4, FlushHandlerHistory
<1>5. CASE UNCHANGED vars
  BY <1>5 DEF vars, HistoryInv, FedFromStart, EveryUnitOnce, Unflushed, Reading
<1> QED BY <1>1, <1>2, <1>3, <1>4, <1>5 DEF Next

\* A stream that is fed was fed from the first reset of its handler on.
THEOREM HistoryInvariance == Spec => []HistoryInv
BY HistoryInit, HistoryNext, PTL DEF Spec

\* For every stream of tables and units, a stream that is fed gets each unit of
\* its PID exactly once and in order, as mainLoop resets a handler only when the
\* next unit starts or the input ends.
THEOREM UnitsReachStream == Spec => []EveryUnitOnce
BY HistoryInvariance, PTL DEF HistoryInv

-----------------------------------------------------------------------------
(* The programs that were accepted, and the end of the input *)

\* A reset that accepts a program leaves none of its PIDs without a handler.
LEMMA ResetListens ==
  ASSUME InductiveInv, NEW p \in Pids, NEW hs, Table(hs), ResetHandler(p, hs)
  PROVE  \A pr \in programs' : pr \in programs \/ \A q \in pr.streams : handlers'[q] # None
<1>1. CASE ~SupplyPmt(p, hs)
  BY <1>1 DEF ResetHandler, SupplyPat, SupplyStream
<1>2. CASE SupplyPmt(p, hs)
  <2>1. hs[p] = PmtRole /\ p \in Services
    BY <1>2 DEF SupplyPmt, Table
  <2>2. CASE UNCHANGED programs
    BY <2>2
  <2>3. CASE ~UNCHANGED programs
    <3>1. PICK qs \in SUBSET Creatable(p) :
            /\ handlers' = Added(hs, StreamObjects(p, qs))
            /\ programs' = programs \cup {[pmt |-> p, streams |-> qs]}
      BY <1>2, <2>3 DEF SupplyPmt
    <3>2. qs \subseteq Pids
      <4>1. Pmt[p] \subseteq [pid : Pids, kind : Kinds]
        BY <2>1, DemuxAssumption
      <4> QED BY <4>1 DEF Creatable
    <3> DEFINE new == StreamObjects(p, qs)
    <3>3. DOMAIN new = qs /\ \A q \in qs : new[q] # None
      BY RolesDiffer DEF StreamObjects
    <3>4. handlers' = Added(hs, new)
      BY <3>1
    <3> HIDE DEF new
    <3>5. \A q \in qs : handlers'[q] # None
      BY <3>2, <3>3, <3>4, AddedKeeps
    <3> QED BY <3>1, <3>5
  <2> QED BY <2>2, <2>3
<1> QED BY <1>1, <1>2

LEMMA ListenedNext ==
  ASSUME HistoryInv, WantedListened, FlushedIsEmpty, [Next]_vars
  PROVE  WantedListened' /\ FlushedIsEmpty'
<1> USE DemuxAssumption
<1>1. /\ InductiveInv /\ collected \in [Pids -> Units \cup {Empty}]
      /\ \A q \in Pids : handlers[q] # None => handlers'[q] = handlers[q]
      /\ \A pr \in programs : pr.streams \subseteq Pids
  BY InductiveNext DEF HistoryInv, InductiveInv, TypeOK
<1>2. ASSUME NEW p \in Pids, NEW hs, Table(hs), ResetHandler(p, hs)
      PROVE  WantedListened'
  BY <1>1, <1>2, ResetListens DEF WantedListened
<1>3. ASSUME NEW p \in Pids, NEW intact \in BOOLEAN, StartUnit(p, intact)
      PROVE  WantedListened' /\ FlushedIsEmpty'
  <2>1. WantedListened'
    BY <1>1, <1>2, <1>3, WithPatTable DEF StartUnit
  <2>2. \A q \in Pids : Unflushed(q)'
    BY <1>3 DEF StartUnit, Unflushed, Reading
  <2> QED BY <2>1, <2>2 DEF FlushedIsEmpty
<1>4. CASE FlushHandler
  <2>1. eosAt \in Pids /\ eosAt' = eosAt + 1
    BY <1>4 DEF FlushHandler, Flushing
  <2>2. \A q \in Pids : ~Unflushed(q)' => ~Unflushed(q) \/ q = eosAt
    BY <2>1 DEF Unflushed, Reading, Pids
  <2>3. CASE handlers[eosAt] = None
    <3>1. UNCHANGED <<handlers, programs, collected>> /\ collected[eosAt] = Empty
      BY <1>4, <2>1, <2>3 DEF FlushHandler, HistoryInv, FedFromStart
    <3> QED BY <2>2, <3>1 DEF WantedListened, FlushedIsEmpty
  <2>4. CASE handlers[eosAt] # None
    <3>1. ResetHandler(eosAt, handlers) /\ collected' = [collected EXCEPT ![eosAt] = Empty]
      BY <1>4, <2>4 DEF FlushHandler
    <3>2. WantedListened'
      BY <1>1, <1>2, <2>1, <3>1, HandlersTable
    <3>3. \A q \in Pids : collected'[q] = IF q = eosAt THEN Empty ELSE collected[q]
      BY <1>1, <2>1, <3>1
    <3> QED BY <2>2, <3>2, <3>3 DEF FlushedIsEmpty
  <2> QED BY <2>3, <2>4
<1>5. CASE (\E p \in Pids : DropUnit(p)) \/ EndOfStream
  <2>1. UNCHANGED <<handlers, programs, collected>>
    BY <1>5 DEF DropUnit, EndOfStream
  <2>2. \A q \in Pids : Unflushed(q)'
    BY <1>5 DEF DropUnit, EndOfStream, Unflushed, Reading, Pids
  <2> QED BY <2>1, <2>2 DEF WantedListened, FlushedIsEmpty
<1>6. CASE UNCHANGED vars
  BY <1>6 DEF vars, WantedListened, FlushedIsEmpty, Unflushed, Reading
<1> QED BY <1>3, <1>4, <1>5, <1>6 DEF Next

LEMMA ListenedInvariance == Spec => [](WantedListened /\ FlushedIsEmpty)
<1>1. Init => WantedListened /\ FlushedIsEmpty
  BY DEF Init, WantedListened, FlushedIsEmpty, Unflushed, Reading
<1>2. HistoryInv /\ WantedListened /\ FlushedIsEmpty /\ [Next]_vars
        => (WantedListened /\ FlushedIsEmpty)'
  BY ListenedNext
<1> QED BY <1>1, <1>2, HistoryInvariance, PTL DEF Spec

\* No stream of an accepted program is overlooked, although the table keeps the
\* handler that a PID had before: somebody gets its packets from then on.
THEOREM ProgramsListened == Spec => []WantedListened
BY ListenedInvariance, PTL

\* The flush at the end of the input gives every stream what was still collected
\* for it: in the end no unit is missing, although the table grows meanwhile.
THEOREM NothingWithheld == Spec => []EndDelivers
<1>1. HistoryInv /\ FlushedIsEmpty => EndDelivers
  <2> SUFFICES ASSUME HistoryInv, FlushedIsEmpty, NEW p \in Pids, ~Unflushed(p),
                      handlers[p].role = "es"
               PROVE  OnceInOrder(received[handlers[p].stream], Empty, units[p])
    BY DEF EndDelivers
  <2>1. collected[p] = Empty /\ OnceInOrder(received[handlers[p].stream], collected[p], units[p])
    BY DEF HistoryInv, EveryUnitOnce, FlushedIsEmpty
  <2> QED BY <2>1
<1> QED BY <1>1, HistoryInvariance, ListenedInvariance, PTL

=============================================================================
