-------------------------- MODULE OmxClientProofs --------------------------
(***************************************************************************)
(* Proofs about OmxClient for every set of addresses and every number of   *)
(* components: what EventsTrigger leaves to be true, although the module's *)
(* run shows EventsTrigger itself violated, and that the tunnel never      *)
(* frees a COMPONENT_T twice nor takes a dead one.                         *)
(***************************************************************************)
EXTENDS OmxClient, TLAPS

LEMMA InductiveInit == Init => InductiveInv
  <1> SUFFICES ASSUME Init PROVE InductiveInv  OBVIOUS
  <1>1. Created = {}
    BY SMT DEF Init, Created
  <1>2. TypeOK
    <2>1. comp \in Seq(Addresses)
      BY SMT DEF Init
    <2>2. /\ freed \subseteq Created /\ tunnelled \subseteq Created
          /\ raw \subseteq Addresses
          /\ handling \subseteq [of : Created, by : Created \cup {None}]
          /\ m_Tunnel \in BOOLEAN /\ m_PipelineSet \in BOOLEAN
          /\ pc \in {"outside", "tunnel"} \cup {Members[r] : r \in 1 .. 4}
      BY DEF Init
    <2>3. m_Components \in [Addresses -> Created \cup {None}]
      BY DEF Init
    <2>4. member \in [1 .. 4 -> Created \cup {None}]
      BY DEF Init
    <2> QED
      BY <2>1, <2>2, <2>3, <2>4 DEF TypeOK
  <1> QED
    BY <1>1, <1>2, SMT
    DEF Init, InductiveInv, TunnelLive, InitProgress, OneLiveAtAddress,
        RawIsFresh, RegistryKeepsFirst, EntriesLieThere, HandledByFirst,
        Members, MembersLive

-----------------------------------------------------------------------------
(* Facts about the operators *)

\* The four members of init() have names of their own, and none is a place
\* outside of making them.
LEMMA MemberNames ==
  /\ DOMAIN Members = 1 .. 4 /\ Len(Members) = 4
  /\ \A r, s \in 1 .. 4 : Members[r] = Members[s] => r = s
  /\ \A r \in 1 .. 4 : Members[r] # "outside" /\ Members[r] # "tunnel"
  /\ Members[1] = "m_Decoder"
  BY SMT DEF Members

\* A Component that is made becomes the last; the others keep their place.
LEMMA AppendComponent ==
  ASSUME NEW S, NEW q \in Seq(S), NEW a \in S
  PROVE  /\ Append(q, a) \in Seq(S)
         /\ Len(Append(q, a)) = Len(q) + 1 /\ Len(q) \in Nat
         /\ DOMAIN q = 1 .. Len(q)
         /\ DOMAIN Append(q, a) = (1 .. Len(q)) \cup {Len(q) + 1}
         /\ \A i \in 1 .. Len(q) : Append(q, a)[i] = q[i] /\ q[i] \in S
         /\ Append(q, a)[Len(q) + 1] = a
  <1>1. /\ Append(q, a) \in Seq(S)
        /\ Len(Append(q, a)) = Len(q) + 1 /\ Len(q) \in Nat
        /\ DOMAIN q = 1 .. Len(q)
        /\ DOMAIN Append(q, a) = 1 .. (Len(q) + 1)
    BY SMT
  <1>2. 1 .. (Len(q) + 1) = (1 .. Len(q)) \cup {Len(q) + 1}
    BY <1>1, SMT
  <1>3. /\ \A i \in 1 .. Len(q) : Append(q, a)[i] = q[i] /\ q[i] \in S
        /\ Append(q, a)[Len(q) + 1] = a
    BY SMT
  <1> QED  BY <1>1, <1>2, <1>3

-----------------------------------------------------------------------------
(* init() *)

LEMMA BeginInitStep == InductiveInv /\ BeginInit => InductiveInv'
  <1> SUFFICES ASSUME InductiveInv, BeginInit PROVE InductiveInv'
    OBVIOUS
  <1> USE DEF InductiveInv
  <1>1. /\ comp' = comp /\ m_Components' = m_Components /\ raw' = raw
        /\ handling' = handling /\ m_PipelineSet' = m_PipelineSet
        /\ freed' = freed \cup tunnelled /\ tunnelled' = {} /\ m_Tunnel' = FALSE
        /\ pc' = "m_Decoder"
    BY DEF BeginInit, DestroyTunnel, CleanupComponents
  <1>2. /\ member' \in [1 .. 4 -> Created \cup {None}]
        /\ \A r \in 1 .. 4 : member'[r] \in {None, member[r]}
    BY SMT DEF BeginInit, TypeOK
  <1>3. TypeOK'
    <2>1. pc' \in {"outside", "tunnel"} \cup {Members[r] : r \in 1 .. 4}
      BY <1>1, MemberNames, SMT
    <2>2. freed' \subseteq Created' /\ tunnelled' \subseteq Created'
      BY <1>1 DEF TypeOK, Created
    <2>3. /\ comp' \in Seq(Addresses) /\ raw' \subseteq Addresses
          /\ m_Components' \in [Addresses -> Created' \cup {None}]
          /\ handling' \subseteq [of : Created', by : Created' \cup {None}]
          /\ m_PipelineSet' \in BOOLEAN /\ m_Tunnel' \in BOOLEAN
      BY <1>1 DEF TypeOK, Created
    <2> QED
      BY <1>1, <1>2, <2>1, <2>2, <2>3 DEF TypeOK, Created
  <1>4. TunnelLive' /\ OneLiveAtAddress' /\ RawIsFresh'
    BY <1>1, SMT DEF TunnelLive, OneLiveAtAddress, RawIsFresh, Created
  <1>5. InitProgress'
    BY <1>1, MemberNames, SMT DEF InitProgress, MembersLive
  <1>6. RegistryKeepsFirst' /\ EntriesLieThere'
    BY <1>1 DEF RegistryKeepsFirst, EntriesLieThere, FirstAtAddress, Created
  <1>7. \A h \in handling : h.of # None
    BY AppendComponent, SMT DEF TypeOK, None, Created
  <1>8. HandledByFirst'
    BY <1>1, <1>2, <1>7, SMT DEF HandledByFirst, FirstAtAddress
  <1> QED
    BY <1>3, <1>4, <1>5, <1>6, <1>8

LEMMA CreateStep == InductiveInv /\ CreateComponent => InductiveInv'
  <1> SUFFICES ASSUME InductiveInv, CreateComponent PROVE InductiveInv'
    OBVIOUS
  <1> USE DEF InductiveInv
  <1>1. UNCHANGED <<comp, freed, m_Components, member, tunnelled, m_Tunnel,
                    pc, m_PipelineSet, handling>>
    BY DEF CreateComponent
  <1>2. PICK a \in Addresses : ~InUse(a) /\ raw' = {a}
    BY DEF CreateComponent
  <1>3. TypeOK'
    BY <1>1, <1>2, SMT DEF TypeOK, Created
  <1>4. TunnelLive' /\ InitProgress' /\ OneLiveAtAddress'
    BY <1>1 DEF TunnelLive, InitProgress, OneLiveAtAddress, MembersLive, Created
  <1>5. RawIsFresh'
    BY <1>1, <1>2, SMT DEF RawIsFresh, InUse, Created
  <1>6. RegistryKeepsFirst' /\ EntriesLieThere' /\ HandledByFirst'
    BY <1>1 DEF RegistryKeepsFirst, EntriesLieThere, HandledByFirst,
                FirstAtAddress, Created
  <1> QED
    BY <1>3, <1>4, <1>5, <1>6

LEMMA CreateFailsStep == InductiveInv /\ CreateFails => InductiveInv'
  <1> SUFFICES ASSUME InductiveInv, CreateFails PROVE InductiveInv'
    OBVIOUS
  <1> USE DEF InductiveInv
  <1>1. UNCHANGED <<comp, freed, m_Components, member, tunnelled, m_Tunnel,
                    raw, m_PipelineSet, handling>> /\ pc' = "outside"
    BY DEF CreateFails
  <1>2. TypeOK'
    BY <1>1, SMT DEF TypeOK, Created
  <1>3. InitProgress'
    BY <1>1, MemberNames, SMT DEF InitProgress
  <1>4. TunnelLive' /\ OneLiveAtAddress' /\ RawIsFresh'
    BY <1>1 DEF TunnelLive, OneLiveAtAddress, RawIsFresh, MembersLive, Created
  <1>5. RegistryKeepsFirst' /\ EntriesLieThere' /\ HandledByFirst'
    BY <1>1 DEF RegistryKeepsFirst, EntriesLieThere, HandledByFirst,
                FirstAtAddress, Created
  <1> QED
    BY <1>2, <1>3, <1>4, <1>5

LEMMA FinishInitStep == InductiveInv /\ FinishInit => InductiveInv'
  <1> SUFFICES ASSUME InductiveInv, FinishInit PROVE InductiveInv'
    OBVIOUS
  <1> USE DEF InductiveInv
  <1>1. /\ UNCHANGED <<comp, freed, m_Components, member, tunnelled, raw,
                       m_PipelineSet, handling>>
        /\ pc = "tunnel" /\ pc' = "outside" /\ m_Tunnel' = TRUE
    BY DEF FinishInit
  <1>2. TypeOK'
    BY <1>1, SMT DEF TypeOK, Created
  <1>3. TunnelLive'
    BY <1>1 DEF TunnelLive, InitProgress, MembersLive
  <1>4. InitProgress'
    BY <1>1, MemberNames, SMT DEF InitProgress
  <1>5. OneLiveAtAddress' /\ RawIsFresh'
    BY <1>1 DEF OneLiveAtAddress, RawIsFresh, Created
  <1>6. RegistryKeepsFirst' /\ EntriesLieThere' /\ HandledByFirst'
    BY <1>1 DEF RegistryKeepsFirst, EntriesLieThere, HandledByFirst,
                FirstAtAddress, Created
  <1> QED
    BY <1>2, <1>3, <1>4, <1>5, <1>6

\* emplace keeps the entry of the first Component of an address.
LEMMA RegisterStep == InductiveInv /\ Register => InductiveInv'
  <1> SUFFICES ASSUME InductiveInv, Register PROVE InductiveInv'
    OBVIOUS
  <1> USE DEF InductiveInv
  <1>1. PICK r \in 1 .. 4, a \in raw :
          /\ pc = Members[r]
          /\ pc' = IF r = 4 THEN "tunnel" ELSE Members[r + 1]
          /\ comp' = Append(comp, a) /\ raw' = {}
          /\ Emplace(a, Len(comp'))
          /\ member' = [member EXCEPT ![r] = Len(comp')]
          /\ UNCHANGED <<freed, tunnelled, m_Tunnel, m_PipelineSet, handling>>
    BY MemberNames DEF Register
  <1> DEFINE n == Len(comp)
             c == n + 1
  <1>2. /\ comp' \in Seq(Addresses) /\ Len(comp') = c /\ n \in Nat /\ a \in Addresses
        /\ Created = 1 .. n /\ Created' = Created \cup {c}
        /\ \A i \in Created : comp'[i] = comp[i] /\ comp[i] \in Addresses
        /\ comp'[c] = a
    BY <1>1, AppendComponent DEF TypeOK, Created
  <1> HIDE DEF n
  <1>3. c \notin Created /\ c # None /\ None \notin Created
    BY <1>2, SMT DEF None
  <1>4. /\ m_Components' \in [Addresses -> Created' \cup {None}]
        /\ \A b \in Addresses \ {a} : m_Components'[b] = m_Components[b]
        /\ m_Components[a] # None => m_Components'[a] = m_Components[a]
        /\ m_Components[a] = None => m_Components'[a] = c
        /\ \A b \in Addresses : m_Components[b] \in Created \cup {None}
    BY <1>1, <1>2, SMT DEF Emplace, TypeOK
  <1>5. /\ member' \in [1 .. 4 -> Created' \cup {None}] /\ member'[r] = c
        /\ \A s \in 1 .. 4 : s # r => member'[s] = member[s]
    BY <1>1, <1>2, SMT DEF TypeOK
  <1>6. /\ freed \subseteq Created /\ tunnelled \subseteq Created
        /\ \A h \in handling : h.of \in Created /\ h.by \in Created \cup {None}
    BY SMT DEF TypeOK
  <1>7. \A d \in Created : FirstAtAddress(d)' <=> FirstAtAddress(d)
    <2>1. \A d \in Created : 1 .. d - 1 \subseteq Created
      BY <1>2, SMT
    <2> QED
      BY <1>2, <2>1 DEF FirstAtAddress
  <1>8. TypeOK'
    <2>1. pc' \in {"outside", "tunnel"} \cup {Members[s] : s \in 1 .. 4}
      BY <1>1, SMT
    <2>2. handling' \subseteq [of : Created', by : Created' \cup {None}]
      <3>1. [of : Created, by : Created \cup {None}]
              \subseteq [of : Created', by : Created' \cup {None}]
        BY <1>2
      <3> QED
        BY <1>1, <3>1 DEF TypeOK
    <2>3. freed' \subseteq Created' /\ tunnelled' \subseteq Created'
      BY <1>1, <1>2, <1>6
    <2>4. m_Tunnel' \in BOOLEAN /\ m_PipelineSet' \in BOOLEAN /\ raw' \subseteq Addresses
      BY <1>1 DEF TypeOK
    <2> QED
      BY <1>2, <1>4, <1>5, <2>1, <2>2, <2>3, <2>4 DEF TypeOK
  <1>9. TunnelLive' /\ m_Tunnel' = FALSE
    BY <1>1, MemberNames DEF TunnelLive, InitProgress, TypeOK
  <1>10. InitProgress'
    <2>1. MembersLive(r - 1)
      BY <1>1 DEF InitProgress
    <2>2. MembersLive(r)'
      <3>1. \A s \in 1 .. r : s = r \/ s \in 1 .. r - 1
        BY SMT
      <3>2. c \notin freed
        BY <1>3, <1>6
      <3> QED
        BY <1>1, <1>3, <1>5, <2>1, <3>1, <3>2, SMT DEF MembersLive
    <2>3. CASE r = 4
      BY <1>1, <1>9, <2>2, <2>3, MemberNames DEF InitProgress
    <2>4. CASE r # 4
      <3>1. r + 1 \in 1 .. 4 /\ (r + 1) - 1 = r
        BY <2>4, SMT
      <3>2. pc' = Members[r + 1] /\ pc' # "tunnel" /\ pc' # "outside"
        BY <1>1, <2>4, <3>1, MemberNames
      <3>3. \A s \in 1 .. 4 : pc' = Members[s] => s = r + 1
        BY <3>1, <3>2, MemberNames
      <3>4. \A s \in 1 .. 4 : pc' = Members[s] => MembersLive(s - 1)'
        BY <2>2, <3>1, <3>3, SMT DEF MembersLive
      <3> QED
        BY <1>9, <3>2, <3>4 DEF InitProgress
    <2> QED
      BY <2>3, <2>4
  <1>11. OneLiveAtAddress'
    <2>1. \A d \in Created \ freed : comp[d] # a
      BY DEF RawIsFresh
    <2> QED
      BY <1>1, <1>2, <2>1 DEF OneLiveAtAddress
  <1>12. RawIsFresh'
    BY <1>1 DEF RawIsFresh
  <1>13. EntriesLieThere'
    BY <1>2, <1>4, SMT DEF EntriesLieThere
  <1>14. RegistryKeepsFirst'
    <2> SUFFICES ASSUME NEW d \in Created', FirstAtAddress(d)'
                 PROVE  m_Components'[comp'[d]] = d
      BY DEF RegistryKeepsFirst
    <2>1. CASE d \in Created
      <3>1. m_Components[comp[d]] = d /\ d # None
        BY <1>3, <1>7, <2>1 DEF RegistryKeepsFirst
      <3> QED
        BY <1>2, <1>4, <2>1, <3>1
    <2>2. CASE d = c
      <3>1. \A b \in Created : comp[b] # a
        <4>1. c - 1 = n
          BY <1>2, SMT
        <4> QED
          BY <1>2, <2>2, <4>1 DEF FirstAtAddress
      <3>2. m_Components[a] = None
        BY <1>2, <1>4, <3>1 DEF EntriesLieThere
      <3> QED
        BY <1>2, <1>4, <2>2, <3>2
    <2> QED
      BY <1>2, <2>1, <2>2
  <1>15. HandledByFirst'
    <2>1. \A h \in handling, s \in 1 .. 4 : member[s] # h.of => member'[s] # h.of
      BY <1>3, <1>5, <1>6
    <2>2. handling' = handling
      BY <1>1
    <2>3. \A h \in handling : FirstAtAddress(h.of)' <=> FirstAtAddress(h.of)
      BY <1>6, <1>7
    <2> QED
      BY <2>1, <2>2, <2>3 DEF HandledByFirst
  <1> QED
    BY <1>8, <1>9, <1>10, <1>11, <1>12, <1>13, <1>14, <1>15

-----------------------------------------------------------------------------
(* the tunnels and the callbacks *)

LEMMA SetTunnelsStep == InductiveInv /\ SetTunnels => InductiveInv'
  <1> SUFFICES ASSUME InductiveInv, SetTunnels PROVE InductiveInv'
    OBVIOUS
  <1> USE DEF InductiveInv
  <1>1. /\ UNCHANGED <<comp, freed, m_Components, member, m_Tunnel, raw, pc, handling>>
        /\ m_Tunnel /\ pc = "outside"
        /\ tunnelled' \subseteq tunnelled \cup {member[1], member[2], member[3]}
        /\ m_PipelineSet' \in BOOLEAN
    <2>1. /\ UNCHANGED <<comp, freed, m_Components, member, m_Tunnel, raw, pc, handling>>
          /\ m_Tunnel /\ pc = "outside" /\ m_PipelineSet \in BOOLEAN
      BY DEF SetTunnels, TypeOK
    <2>2. CASE AddComponent({member[1], member[3]}) /\ UNCHANGED m_PipelineSet
      BY <2>1, <2>2 DEF AddComponent
    <2>3. CASE AddComponent({member[1], member[3], member[2]}) /\ m_PipelineSet' = TRUE
      BY <2>1, <2>3 DEF AddComponent
    <2> QED
      BY <2>2, <2>3 DEF SetTunnels
  <1>2. \A s \in 1 .. 3 : member[s] \in Created \ freed
    BY <1>1, SMT DEF TunnelLive, MembersLive, TypeOK
  <1>3. tunnelled' \subseteq Created /\ tunnelled' \cap freed = {}
    BY <1>1, <1>2, SMT DEF TypeOK, TunnelLive
  <1>4. TypeOK'
    BY <1>1, <1>3 DEF TypeOK, Created
  <1>5. TunnelLive'
    BY <1>1, <1>3 DEF TunnelLive, MembersLive
  <1>6. InitProgress' /\ OneLiveAtAddress' /\ RawIsFresh'
    BY <1>1 DEF InitProgress, OneLiveAtAddress, RawIsFresh, MembersLive, Created
  <1>7. RegistryKeepsFirst' /\ EntriesLieThere' /\ HandledByFirst'
    BY <1>1 DEF RegistryKeepsFirst, EntriesLieThere, HandledByFirst,
                FirstAtAddress, Created
  <1> QED
    BY <1>4, <1>5, <1>6, <1>7

\* A callback that finds no Component for the first one of its address finds it
\* dead, which no member is.
LEMMA CallbackStep ==
  ASSUME InductiveInv, NEW c \in Created, Callback(c)
  PROVE  InductiveInv'
  <1> USE DEF InductiveInv
  <1> DEFINE g == [of |-> c, by |-> Lock(m_Components[comp[c]])]
  <1>1. /\ UNCHANGED <<comp, freed, m_Components, member, tunnelled, m_Tunnel,
                       raw, pc, m_PipelineSet>>
        /\ handling' = handling \cup {g}
    BY DEF Callback
  <1>2. comp[c] \in Addresses /\ m_Components[comp[c]] \in Created \cup {None}
    BY AppendComponent, SMT DEF TypeOK, Created
  <1>3. g.of = c /\ g.by \in {m_Components[comp[c]], None}
        /\ g \in [of : Created, by : Created \cup {None}]
    BY <1>2 DEF Lock
  <1>4. TypeOK'
    BY <1>1, <1>3 DEF TypeOK, Created
  <1>5. HandledByFirst'
    <2>1. ASSUME FirstAtAddress(c), g.by # c
          PROVE  g.by = None /\ \A r \in 1 .. 4 : member[r] # c
      <3>1. m_Components[comp[c]] = c
        BY <2>1 DEF RegistryKeepsFirst
      <3>2. g.by = Lock(c)
        BY <3>1
      <3> QED
        BY <2>1, <3>2, SMT DEF Lock, Held, TypeOK
    <2>2. \A h \in handling' : FirstAtAddress(h.of) =>
             h.by = h.of \/ (h.by = None /\ \A r \in 1 .. 4 : member[r] # h.of)
      BY <1>1, <1>3, <2>1 DEF HandledByFirst
    <2> HIDE DEF g
    <2> QED
      BY <1>1, <2>2 DEF HandledByFirst, FirstAtAddress
  <1>6. TunnelLive' /\ InitProgress' /\ OneLiveAtAddress' /\ RawIsFresh'
    BY <1>1 DEF TunnelLive, InitProgress, OneLiveAtAddress, RawIsFresh,
                MembersLive, Created
  <1>7. RegistryKeepsFirst' /\ EntriesLieThere'
    BY <1>1 DEF RegistryKeepsFirst, EntriesLieThere, FirstAtAddress, Created
  <1> QED
    BY <1>4, <1>5, <1>6, <1>7

LEMMA ReturnStep ==
  ASSUME InductiveInv,
         UNCHANGED <<comp, freed, m_Components, member, tunnelled, m_Tunnel,
                     raw, pc, m_PipelineSet>>,
         handling' \subseteq handling
  PROVE  InductiveInv'
  <1> USE DEF InductiveInv
  <1>1. TypeOK'
    BY DEF TypeOK, Created
  <1>2. TunnelLive' /\ InitProgress' /\ OneLiveAtAddress' /\ RawIsFresh'
    BY DEF TunnelLive, InitProgress, OneLiveAtAddress, RawIsFresh,
           MembersLive, Created
  <1>3. RegistryKeepsFirst' /\ EntriesLieThere' /\ HandledByFirst'
    BY DEF RegistryKeepsFirst, EntriesLieThere, HandledByFirst,
           FirstAtAddress, Created
  <1> QED
    BY <1>1, <1>2, <1>3

-----------------------------------------------------------------------------
(* the theorems *)

LEMMA InductiveNext == InductiveInv /\ [Next]_vars => InductiveInv'
  <1> SUFFICES ASSUME InductiveInv, [Next]_vars PROVE InductiveInv'
    OBVIOUS
  <1>1. CASE Return
    BY <1>1, ReturnStep DEF Return
  <1>2. CASE \E c \in Created : Callback(c)
    BY <1>2, CallbackStep
  <1>3. CASE UNCHANGED vars
    BY <1>3, ReturnStep DEF vars
  <1> QED
    BY <1>1, <1>2, <1>3, BeginInitStep, CreateStep, CreateFailsStep,
       RegisterStep, FinishInitStep, SetTunnelsStep
    DEF Next

LEMMA InductiveInvariance == Spec => []InductiveInv
  BY InductiveInit, InductiveNext, PTL DEF Spec

\* The variables of the client and of the transcoder that uses it keep their
\* types: no reference is to a Component that createComponent did not make.
THEOREM TypeCorrect == Spec => []TypeOK
  BY InductiveInvariance, PTL DEF InductiveInv

\* ~Tunnel frees no COMPONENT_T that an earlier ~Tunnel freed, and supplyFrame
\* puts no freed member into a tunnel, whichever init() was left by an exception.
THEOREM TunnelKeepsLive == Spec => []TunnelLive
  BY InductiveInvariance, PTL DEF InductiveInv

\* An event of a component in use reaches onPortSettingsChanged with that
\* component, unless a Component was made before at the same address: the entry
\* that emplace keeps is the only way to miss it.
THEOREM OnlyReuseLosesEvents == Spec => []EventsTriggerUnlessReused
  <1>1. InductiveInv => EventsTriggerUnlessReused
    BY DEF InductiveInv, HandledByFirst, EventsTriggerUnlessReused
  <1> QED
    BY <1>1, InductiveInvariance, PTL

\* Until a tunnel that held components is destroyed EventsTrigger is true.
THEOREM FirstInitIsHeard == Spec => []EventsTriggerUntilFreed
  <1>1. InductiveInv => EventsTriggerUntilFreed
    <2> SUFFICES ASSUME InductiveInv, freed = {} PROVE EventsTrigger
      BY DEF EventsTriggerUntilFreed
    <2>1. \A c \in Created : FirstAtAddress(c)
      <3>1. Created = 1 .. Len(comp) /\ Len(comp) \in Nat
        BY DEF InductiveInv, TypeOK, Created
      <3>2. \A c \in Created : \A b \in 1 .. c - 1 : b \in Created /\ b # c
        BY <3>1, SMT
      <3> QED
        BY <3>2 DEF InductiveInv, OneLiveAtAddress, FirstAtAddress
    <2>2. \A h \in handling : h.of \in Created
      BY SMT DEF InductiveInv, TypeOK
    <2> QED
      BY <2>1, <2>2 DEF InductiveInv, HandledByFirst, EventsTrigger
  <1> QED
    BY <1>1, InductiveInvariance, PTL

=============================================================================
