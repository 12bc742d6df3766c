------------------------------ MODULE OmxClient ------------------------------
(***************************************************************************)
(* The registry of omx::Client (src/src/transcode/openmax/client.cpp), by  *)
(* which the callbacks of ilclient find the Component an event is for,     *)
(* under CoreIVVideoTranscoder::init called again and again.  ilclient is  *)
(* external: a COMPONENT_T lives from ilclient_create_component until      *)
(* ilclient_cleanup_components frees it, after which its address may be    *)
(* used again.  A Component is the number of its creation and lives while  *)
(* a member, the tunnel or a callback in progress refers to it.  A         *)
(* Component holds the client, so the client outlives all of them.         *)
(***************************************************************************)
EXTENDS Integers, Sequences, FiniteSets

CONSTANTS Addresses,      \* where a COMPONENT_T may lie
          MaxComponents   \* bound: components created

None == 0   \* a null reference, or one whose Component is gone

\* The members that init() sets, in its order.
Members == <<"m_Decoder", "m_Encoder", "m_Resize", "m_ImageFX">>

VARIABLES comp,          \* COMPONENT_T of each Component
          freed,         \* Components whose COMPONENT_T was freed
          m_Components,  \* the registry of the client: address -> Component
          member,        \* the members of the transcoder
          tunnelled,     \* m_Components of the tunnel
          raw,           \* addresses created but not yet registered, at most one
          m_Tunnel,      \* is there a tunnel?
          pc,            \* "outside" of init(), or what it makes next: a member, "tunnel"
          m_PipelineSet,
          handling       \* callbacks in progress: [of, by], by: the Component it is given

vars == <<comp, freed, m_Components, member, tunnelled, m_Tunnel, raw, pc, m_PipelineSet, handling>>

Created == DOMAIN comp
Held == {member[r] : r \in DOMAIN member} \cup tunnelled \cup {h.by : h \in handling}
InUse(a) == a \in raw \/ \E c \in Created \ freed : comp[c] = a

\* A weak reference gives its Component while something else still holds it.
Lock(c) == IF c \in Held THEN c ELSE None

Init ==
  /\ comp = <<>> /\ freed = {} /\ m_Components = [a \in Addresses |-> None]
  /\ member = [r \in 1 .. 4 |-> None] /\ tunnelled = {} /\ m_Tunnel = FALSE /\ raw = {}
  /\ pc = "outside" /\ m_PipelineSet = FALSE /\ handling = {}

-----------------------------------------------------------------------------
(* CoreIVVideoTranscoder::init *)

\* ~Components frees every COMPONENT_T of the tunnel.
CleanupComponents == freed' = freed \cup tunnelled

\* ~Tunnel disables the tunnels, and the base class cleans up.
DestroyTunnel == CleanupComponents /\ tunnelled' = {} /\ m_Tunnel' = FALSE

\* m_Resize and m_ImageFX keep the Components of the last init().
BeginInit ==
  /\ pc = "outside" /\ pc' = "m_Decoder"
  /\ member' = [member EXCEPT ![1] = None, ![2] = None]
  /\ DestroyTunnel
  /\ UNCHANGED <<comp, m_Components, raw, m_PipelineSet, handling>>

Creating(r) == pc = Members[r] /\ raw = {}

CreateComponent ==
  /\ \E r \in DOMAIN Members : Creating(r)
  /\ Len(comp) < MaxComponents
  /\ \E a \in Addresses : ~InUse(a) /\ raw' = {a}
  /\ UNCHANGED <<comp, freed, m_Components, member, tunnelled, m_Tunnel,
                 pc, m_PipelineSet, handling>>

CreateFails ==
  /\ \E r \in DOMAIN Members : Creating(r)
  /\ pc' = "outside"
  /\ UNCHANGED <<comp, freed, m_Components, member, tunnelled, m_Tunnel,
                 raw, m_PipelineSet, handling>>

\* std::map::emplace leaves an entry that is there as it is.
Emplace(a, c) ==
  m_Components' = [m_Components EXCEPT ![a] = IF @ = None THEN c ELSE @]

Register ==
  \E r \in DOMAIN Members, a \in raw :
    /\ pc = Members[r]
    /\ pc' = IF r = Len(Members) THEN "tunnel" ELSE Members[r + 1]
    /\ comp' = Append(comp, a) /\ raw' = {}
    /\ Emplace(a, Len(comp'))
    /\ member' = [member EXCEPT ![r] = Len(comp')]
    /\ UNCHANGED <<freed, tunnelled, m_Tunnel, m_PipelineSet, handling>>

\* An empty tunnel is made and the decoder is set up, or an exception leaves it.
FinishInit ==
  /\ pc = "tunnel" /\ pc' = "outside" /\ m_Tunnel' = TRUE
  /\ UNCHANGED <<comp, freed, m_Components, member, tunnelled, raw, m_PipelineSet, handling>>

-----------------------------------------------------------------------------
(* supplyFrame: the tunnels, each of which may fail *)

AddComponent(cs) == tunnelled' = tunnelled \cup cs

\* m_PipelineSet survives the next init(), so its tunnel stays empty.
SetTunnels ==
  /\ pc = "outside" /\ m_Tunnel /\ ~m_PipelineSet
  /\ \/ AddComponent({member[1], member[3]}) /\ UNCHANGED m_PipelineSet
     \/ AddComponent({member[1], member[3], member[2]}) /\ m_PipelineSet' = TRUE
  /\ UNCHANGED <<comp, freed, m_Components, member, m_Tunnel, raw, pc, handling>>

-----------------------------------------------------------------------------
(* the callbacks, on threads of ilclient *)

\* The mutex is let go before the handler runs, which holds its Component.  An
\* event of a component that is not registered, or is dead there, is dropped.
Callback(c) ==
  /\ c \in Created \ freed
  /\ ~\E h \in handling : h.of = c
  /\ handling' = handling \cup {[of |-> c, by |-> Lock(m_Components[comp[c]])]}
  /\ UNCHANGED <<comp, freed, m_Components, member, tunnelled, m_Tunnel, raw, pc, m_PipelineSet>>

Return ==
  /\ \E h \in handling : handling' = handling \ {h}
  /\ UNCHANGED <<comp, freed, m_Components, member, tunnelled, m_Tunnel, raw, pc, m_PipelineSet>>

Next == \/ BeginInit \/ CreateComponent \/ CreateFails \/ Register \/ FinishInit
        \/ SetTunnels \/ Return
        \/ \E c \in Created : Callback(c)

Spec == Init /\ [][Next]_vars

-----------------------------------------------------------------------------

\* "When OMX_EventPortSettingsChanged event occurs this function triggers": an
\* event of a component that the transcoder uses reaches onPortSettingsChanged
\* with that component.  (Violated: after init() was called again a COMPONENT_T
\* may lie where one of the last tunnel lay, whose entry emplace keeps.)
EventsTrigger ==
  \A h \in handling : (\E r \in 1 .. 4 : member[r] = h.of) => h.by = h.of

\* Is c the first Component that was made at its address?
FirstAtAddress(c) == \A b \in 1 .. c - 1 : comp[b] # comp[c]

\* What EventsTrigger leaves to be true: the event of a component that the
\* transcoder uses reaches its handler with that component, unless another
\* Component was made at the same address before it.
EventsTriggerUnlessReused ==
  \A h \in handling :
    (\E r \in 1 .. 4 : member[r] = h.of) /\ FirstAtAddress(h.of) => h.by = h.of

\* Until the first COMPONENT_T is freed every event of a component in use reaches
\* its handler: the lock of createComponent lets no callback see a stale entry.
EventsTriggerUntilFreed == freed = {} => EventsTrigger

\* What lies at an address is one live COMPONENT_T at most.
OneLiveAtAddress ==
  \A c, d \in Created \ freed : comp[c] = comp[d] => c = d

\* The first n members are there, and nobody freed their COMPONENT_T.
MembersLive(n) == \A r \in 1 .. n : member[r] # None /\ member[r] \notin freed

\* What ~Tunnel frees was not freed before, and the members that supplyFrame puts
\* into the tunnel are alive whenever there is one, although init() may have been
\* left by an exception and m_Resize and m_ImageFX outlive the tunnel before.
TunnelLive ==
  /\ tunnelled \cap freed = {}
  /\ m_Tunnel => MembersLive(4)

\* The strengthening by which these are proved.
TypeOK ==
  /\ comp \in Seq(Addresses)
  /\ freed \subseteq Created /\ tunnelled \subseteq Created
  /\ m_Components \in [Addresses -> Created \cup {None}]
  /\ member \in [1 .. 4 -> Created \cup {None}]
  /\ m_Tunnel \in BOOLEAN /\ m_PipelineSet \in BOOLEAN
  /\ raw \subseteq Addresses
  /\ pc \in {"outside", "tunnel"} \cup {Members[r] : r \in 1 .. 4}
  /\ handling \subseteq [of : Created, by : Created \cup {None}]

\* The members made so far by the init() in progress, which made its way past
\* the destruction of the tunnel, are alive.
InitProgress ==
  /\ pc # "outside" => ~m_Tunnel
  /\ pc = "tunnel" => MembersLive(4)
  /\ \A r \in 1 .. 4 : pc = Members[r] => MembersLive(r - 1)

\* The entry of an address is the first Component made there.
RegistryKeepsFirst ==
  \A c \in Created : FirstAtAddress(c) => m_Components[comp[c]] = c

EntriesLieThere ==
  \A a \in Addresses : m_Components[a] # None => comp[m_Components[a]] = a

RawIsFresh ==
  /\ \A a \in raw, c \in Created \ freed : comp[c] # a
  /\ \A a, b \in raw : a = b

\* An event of the first Component at its address is given to it, or is dropped
\* because nothing held it any more; then it is no member, and will be none.
HandledByFirst ==
  \A h \in handling : FirstAtAddress(h.of) =>
    \/ h.by = h.of
    \/ h.by = None /\ \A r \in 1 .. 4 : member[r] # h.of

InductiveInv ==
  /\ TypeOK /\ TunnelLive /\ InitProgress /\ OneLiveAtAddress /\ RawIsFresh
  /\ RegistryKeepsFirst /\ EntriesLieThere /\ HandledByFirst

=============================================================================
