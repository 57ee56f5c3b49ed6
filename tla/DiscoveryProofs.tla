---------------------------- MODULE DiscoveryProofs ----------------------------
(***************************************************************************)
(* Proofs about Discovery: what holds of one bridge holds of the pair, and *)
(* what mqtt_who reports of it, for any number of network failures and of  *)
(* presence messages during the Query.                                     *)
(***************************************************************************)
EXTENDS Discovery, ConnectionProofs, FiniteSetTheorems

\* The peer's mqtt_who changes nothing of the bridge it asks about.
LEMMA PairIsConnection == DiscoverySpec => Spec
<1>1. DiscoveryInit => Init
  BY DEF DiscoveryInit
<1>2. [DiscoveryNext]_allVars => [Next]_vars
  BY DEF DiscoveryNext, AgentStep, StartWho, WhoStep, SubscribePresence,
         SubackPresence, HandlePresence, ReturnWho, allVars
<1> QED
  BY <1>1, <1>2, PTL DEF DiscoverySpec, Spec

\* Sequences: moving the head of one to the end of the other.
LEMMA HeadMoves ==
    ASSUME NEW S, NEW r \in Seq(S), NEW w \in Seq(S), w # <<>>
    PROVE  /\ Append(r, Head(w)) \o Tail(w) = r \o w
           /\ Append(r, Head(w)) \in Seq(S)
           /\ Tail(w) \in Seq(S)
           /\ Len(Tail(w)) = Len(w) - 1
<1>1. Head(w) \in S /\ Tail(w) \in Seq(S) /\ Len(Tail(w)) = Len(w) - 1
  OBVIOUS
<1>2. Append(r, Head(w)) \in Seq(S)
  BY <1>1
<1>3. Append(r, Head(w)) \o Tail(w) \in Seq(S) /\ r \o w \in Seq(S)
  BY <1>1, <1>2
<1>4. Len(Append(r, Head(w)) \o Tail(w)) = Len(r \o w)
  BY <1>1, <1>2
<1>5. ASSUME NEW i \in 1 .. Len(r \o w)
      PROVE  (Append(r, Head(w)) \o Tail(w))[i] = (r \o w)[i]
  BY <1>1, <1>2, <1>4
<1> QED
  BY <1>1, <1>2, <1>3, <1>4, <1>5

\* What the bridge publishes says online or offline.
LEMMA PublishesPayload ==
    ASSUME Next
    PROVE  presence' = presence \/ presence' \in Payload
<1> USE DEF Payload, broker
<1>1. CASE Connack \/ BrokerNotices
  BY <1>1 DEF Connack, BrokerNotices, AfterWill, WillPayload
<1>2. CASE Announce \/ HeartbeatPublish
  BY <1>2 DEF Announce, HeartbeatPublish, PresencePayload
<1>3. CASE UNCHANGED presence
  BY <1>3
<1> QED
  BY <1>1, <1>2, <1>3
  DEF Next, Callback, Heartbeat, DialFails, SetConnected, Subscribe, ConnectionDown,
      StopManager, SetCM, StartHeartbeat, HeartbeatTick, HeartbeatStop, Signal,
      StdioFails, StdioEnds, Exit, Crash, NetworkBreaks, SessionLost

\* Who lists at most what Query has collected.
LEMMA EntriesBounded ==
    ASSUME raw \in Seq(Payload)
    PROVE  Entries \in 0 .. Len(raw)
<1> DEFINE D == {i \in DOMAIN raw : IsOnline(raw[i])}
<1>1. IsFiniteSet(1 .. Len(raw)) /\ Cardinality(1 .. Len(raw)) = Len(raw)
  <2>1. Len(raw) \in Nat /\ 1 \in Int
    OBVIOUS
  <2>2. IsFiniteSet(1 .. Len(raw))
    BY <2>1, FS_Interval
  <2>3. Cardinality(1 .. Len(raw)) = IF 1 > Len(raw) THEN 0 ELSE Len(raw) - 1 + 1
    BY <2>1, FS_Interval
  <2> QED
    BY <2>1, <2>2, <2>3
<1>2. D \subseteq 1 .. Len(raw)
  OBVIOUS
<1>3. IsFiniteSet(D) /\ Cardinality(D) <= Len(raw)
  BY <1>1, <1>2, FS_Subset
<1>4. Cardinality(D) \in Nat
  BY <1>3, FS_CardinalityType
<1> QED
  BY <1>3, <1>4 DEF Entries

\* Before the SUBSCRIBE nothing is collected or on the way.
Fresh ==
    who \in {"idle", "handler"} =>
        raw = <<>> /\ wire = <<>> /\ updates = 0 /\ listed = 0

\* Every variable of the call keeps its type, and Query never has more than the
\* retained presence and the messages published since.
THEOREM DiscoveryTypes == DiscoverySpec => [](DiscoveryTypeOK /\ Fresh)
<1> USE DEF Fresh
<1>1. DiscoveryInit => DiscoveryTypeOK /\ Fresh
  <2> SUFFICES ASSUME DiscoveryInit
               PROVE  DiscoveryTypeOK /\ Fresh
    OBVIOUS
  <2>1. /\ who = "idle" /\ listed = 0 /\ updates = 0
        /\ wire \in Seq(Payload) /\ raw \in Seq(Payload)
        /\ wire = <<>> /\ raw = <<>>
        /\ Len(raw \o wire) = 0
    BY DEF DiscoveryInit
  <2>2. vouched \in BOOLEAN
    BY Zenon DEF DiscoveryInit
  <2> QED
    BY <2>1, <2>2, DiscoveryAssumption DEF DiscoveryTypeOK
<1>2. TypeOK /\ DiscoveryTypeOK /\ Fresh /\ [DiscoveryNext]_allVars
         => (DiscoveryTypeOK /\ Fresh)'
  <2> SUFFICES ASSUME TypeOK, DiscoveryTypeOK, Fresh, [DiscoveryNext]_allVars
               PROVE  (DiscoveryTypeOK /\ Fresh)'
    OBVIOUS
  <2> USE DiscoveryAssumption
  <2>0. presence \in Payload \cup {"none"}
    BY DEF TypeOK, Payload
  <2>1. CASE StartWho
    BY <2>1 DEF StartWho, DiscoveryTypeOK
  <2>2. CASE SubscribePresence
    <3>1. wire' \in Seq(Payload) /\ Len(raw' \o wire') <= 1
      BY <2>0, <2>2 DEF SubscribePresence, DiscoveryTypeOK
    <3>2. vouched' \in BOOLEAN
      BY <2>2, Zenon DEF SubscribePresence, Vouches
    <3> QED
      BY <2>2, <3>1, <3>2 DEF SubscribePresence, DiscoveryTypeOK
  <2>3. CASE SubackPresence
    BY <2>3 DEF SubackPresence, DiscoveryTypeOK
  <2>4. CASE HandlePresence
    <3>1. who \notin {"idle", "handler"}
      BY <2>4 DEF HandlePresence
    <3>2. /\ raw' \in Seq(Payload) /\ wire' \in Seq(Payload)
          /\ Len(raw' \o wire') <= updates + 1
      <4>1. Append(raw, Head(wire)) \o Tail(wire) = raw \o wire
        BY <2>4, HeadMoves DEF HandlePresence, DiscoveryTypeOK
      <4>2. /\ Append(raw, Head(wire)) \in Seq(Payload)
            /\ Tail(wire) \in Seq(Payload)
            /\ Len(Tail(wire)) = Len(wire) - 1
        BY <2>4, HeadMoves DEF HandlePresence, DiscoveryTypeOK
      <4>3. CASE Listening
        BY <2>4, <4>1, <4>2, <4>3 DEF HandlePresence, DiscoveryTypeOK
      <4>4. CASE ~Listening
        <5>1. Len(raw \o Tail(wire)) <= updates + 1
          BY <4>2 DEF DiscoveryTypeOK
        <5> QED
          BY <2>4, <4>2, <4>4, <5>1 DEF HandlePresence, DiscoveryTypeOK
      <4> QED
        BY <4>3, <4>4
    <3> QED
      BY <2>4, <3>1, <3>2 DEF HandlePresence, DiscoveryTypeOK
  <2>5. CASE ReturnWho
    <3>1. Entries \in 0 .. MaxUpdates + 1
      BY EntriesBounded DEF DiscoveryTypeOK
    <3> QED
      BY <2>5, <3>1 DEF ReturnWho, DiscoveryTypeOK
  <2>6. CASE AgentStep
    <3>1. vouched' \in BOOLEAN
      BY <2>6, Zenon DEF AgentStep, Vouches, Asked
    <3>2. CASE Delivered
      <4>1. presence' \in Payload
        BY <2>6, <3>2, PublishesPayload DEF AgentStep, Delivered, Repeats, PresencePayload, Payload
      <4>2. /\ wire' \in Seq(Payload)
            /\ Len(raw \o wire') <= Len(raw \o wire) + 1
        BY <3>2, <4>1 DEF Delivered, DiscoveryTypeOK
      <4> QED
        BY <2>6, <3>1, <3>2, <4>2 DEF AgentStep, Delivered, Asked, DiscoveryTypeOK
    <3>3. CASE NothingDelivered
      BY <2>6, <3>1, <3>3 DEF AgentStep, NothingDelivered, DiscoveryTypeOK
    <3> QED
      BY <2>6, <3>2, <3>3 DEF AgentStep
  <2>7. CASE UNCHANGED allVars
    BY <2>7 DEF allVars, call, DiscoveryTypeOK
  <2> QED
    BY <2>1, <2>2, <2>3, <2>4, <2>5, <2>6, <2>7 DEF DiscoveryNext, WhoStep
<1> QED
  BY <1>1, <1>2, ConnectionTypes, PairIsConnection, PTL DEF DiscoverySpec

\* Unless the agent is vouched for, no "online" is listed, collected or on the way.
AllVouched ==
    ~vouched => /\ listed = 0
                /\ \A i \in 1 .. Len(raw) : raw[i] # "online"
                /\ \A i \in 1 .. Len(wire) : wire[i] # "online"

\* mqtt_who lists no ghost: OnlineHasWill holds of the bridge whenever a presence
\* message is sent, and nothing else than such a message makes an entry.
THEOREM WhoListsNoGhost == DiscoverySpec => []ListedIsVouched
<1>1. DiscoveryInit => AllVouched
  BY DEF DiscoveryInit, AllVouched
<1>2. OnlineHasWill /\ OnlineHasWill' /\ DiscoveryTypeOK /\ Fresh /\ AllVouched
        /\ [DiscoveryNext]_allVars
         => AllVouched'
  <2> SUFFICES ASSUME OnlineHasWill, OnlineHasWill', DiscoveryTypeOK, Fresh,
                      AllVouched, [DiscoveryNext]_allVars
               PROVE  AllVouched'
    OBVIOUS
  <2> SUFFICES ASSUME ~vouched'
               PROVE  /\ listed' = 0
                      /\ \A i \in 1 .. Len(raw') : raw'[i] # "online"
                      /\ \A i \in 1 .. Len(wire') : wire'[i] # "online"
    BY Zenon DEF AllVouched
  <2>0. CASE SubscribePresence
    <3>1. presence # "online"
      BY <2>0 DEF SubscribePresence, Vouches, OnlineHasWill
    <3>2. raw = <<>> /\ listed = 0
      BY <2>0 DEF SubscribePresence, Fresh
    <3> QED
      BY <2>0, <3>1, <3>2 DEF SubscribePresence
  <2>1. CASE ~SubscribePresence
    <3>0. ~vouched
      BY <2>1 DEF DiscoveryNext, WhoStep, StartWho, SubackPresence, HandlePresence,
                  ReturnWho, AgentStep, allVars, call
    <3>1. /\ listed = 0
          /\ \A i \in 1 .. Len(raw) : raw[i] # "online"
          /\ \A i \in 1 .. Len(wire) : wire[i] # "online"
      BY <3>0 DEF AllVouched
    <3>2. CASE StartWho \/ SubackPresence \/ UNCHANGED allVars
      BY <3>1, <3>2 DEF StartWho, SubackPresence, allVars, call
    <3>3. CASE HandlePresence
      BY <3>1, <3>3 DEF HandlePresence, DiscoveryTypeOK
    <3>4. CASE ReturnWho
      <4>1. {i \in DOMAIN raw : IsOnline(raw[i])} = {}
        BY <3>1 DEF IsOnline, DiscoveryTypeOK
      <4>2. Entries = 0
        BY <4>1, FS_EmptySet DEF Entries
      <4> QED
        BY <3>1, <3>4, <4>2 DEF ReturnWho
    <3>5. CASE AgentStep /\ Delivered
      <4>1. presence' # "online"
        BY <3>5 DEF AgentStep, Delivered, Vouches, OnlineHasWill
      <4> QED
        BY <3>1, <3>5, <4>1 DEF AgentStep, Delivered, DiscoveryTypeOK
    <3>6. CASE AgentStep /\ NothingDelivered
      BY <3>1, <3>6 DEF AgentStep, NothingDelivered
    <3> QED
      BY <2>1, <3>2, <3>3, <3>4, <3>5, <3>6 DEF DiscoveryNext, WhoStep, AgentStep
  <2> QED
    BY <2>0, <2>1
<1>3. AllVouched => ListedIsVouched
  <2> SUFFICES ASSUME AllVouched, listed > 0
               PROVE  vouched
    BY DEF ListedIsVouched
  <2> QED
    BY DEF AllVouched
<1> QED
  BY <1>1, <1>2, <1>3, OnlineIsBacked, PairIsConnection, DiscoveryTypes, PTL
  DEF DiscoverySpec

\* What Query has collected and what is on the way: the presence the SUBSCRIBE
\* found, then the messages published since.
InStep ==
    Asked => /\ presence # "none" => /\ raw \o wire # <<>>
                                     /\ (raw \o wire)[Len(raw \o wire)] = presence
             /\ updates = 0 => raw \o wire = IF presence = "none" THEN <<>>
                                                                  ELSE <<presence>>

\* Query's handler is there before its SUBSCRIBE, so nothing is lost between the
\* retained presence and the messages that follow it.
LEMMA QueryIsInStep == DiscoverySpec => []InStep
<1>1. DiscoveryInit => InStep
  BY DEF DiscoveryInit, InStep, Asked
<1>2. TypeOK /\ DiscoveryTypeOK /\ Fresh /\ InStep /\ [DiscoveryNext]_allVars
         => InStep'
  <2> SUFFICES ASSUME TypeOK, DiscoveryTypeOK, Fresh, InStep, [DiscoveryNext]_allVars
               PROVE  InStep'
    OBVIOUS
  <2>0. /\ presence \in Payload \cup {"none"}
        /\ raw \in Seq(Payload) /\ wire \in Seq(Payload) /\ updates \in Nat
    BY DiscoveryAssumption DEF TypeOK, Payload, DiscoveryTypeOK
  <2>1. CASE StartWho \/ ReturnWho
    BY <2>1 DEF StartWho, ReturnWho, InStep, Asked
  <2>2. CASE SubscribePresence
    <3>1. raw = <<>> /\ raw' = <<>> /\ UNCHANGED presence
      BY <2>2 DEF SubscribePresence, Fresh, vars
    <3>2. raw' \o wire' = IF presence = "none" THEN <<>> ELSE <<presence>>
      BY <2>0, <2>2, <3>1 DEF SubscribePresence
    <3> QED
      BY <2>0, <3>1, <3>2 DEF InStep
  <2>3. CASE SubackPresence
    BY <2>3 DEF SubackPresence, InStep, Asked, vars
  <2>4. CASE HandlePresence
    <3>1. Asked' <=> Asked
      BY <2>4 DEF HandlePresence, Asked
    <3>2. Asked => raw' \o wire' = raw \o wire
      <4>1. wire # <<>>
        BY <2>4 DEF HandlePresence
      <4>2. Append(raw, Head(wire)) \o Tail(wire) = raw \o wire
        BY <2>0, <4>1, HeadMoves
      <4>3. Asked => raw' = Append(raw, Head(wire)) /\ wire' = Tail(wire)
        BY <2>4 DEF HandlePresence, Asked, Listening
      <4> QED
        BY <4>2, <4>3
    <3>3. UNCHANGED <<presence, updates>>
      BY <2>4 DEF HandlePresence, vars
    <3> QED
      BY <3>1, <3>2, <3>3 DEF InStep
  <2>5. CASE AgentStep /\ Delivered
    <3>1. presence' \in Payload
      BY <2>5, PublishesPayload DEF AgentStep, Delivered, Repeats, PresencePayload, Payload
    <3>2. raw' \o wire' = Append(raw \o wire, presence')
      BY <2>0, <2>5, <3>1 DEF AgentStep, Delivered
    <3>3. raw \o wire \in Seq(Payload)
      BY <2>0
    <3>4. /\ raw' \o wire' # <<>>
          /\ (raw' \o wire')[Len(raw' \o wire')] = presence'
      BY <3>1, <3>2, <3>3
    <3>5. updates' # 0
      BY <2>0, <2>5 DEF Delivered
    <3> QED
      BY <3>4, <3>5 DEF InStep
  <2>6. CASE AgentStep /\ NothingDelivered
    <3>1. CASE Asked
      BY <2>6, <3>1 DEF AgentStep, NothingDelivered, InStep, Asked
    <3>2. CASE ~Asked
      BY <2>6, <3>2 DEF AgentStep, InStep, Asked
    <3> QED
      BY <3>1, <3>2
  <2>7. CASE UNCHANGED allVars
    BY <2>7 DEF allVars, call, vars, InStep, Asked
  <2> QED
    BY <2>1, <2>2, <2>3, <2>4, <2>5, <2>6, <2>7 DEF DiscoveryNext, WhoStep, AgentStep
<1> QED
  BY <1>1, <1>2, ConnectionTypes, PairIsConnection, DiscoveryTypes, PTL DEF DiscoverySpec

\* No presence message falls between the retained one and the live ones: what
\* Query has seen or is about to see ends with the presence retained now.
THEOREM WhoIsKeptUp == DiscoverySpec => []WhoKeepsUp
<1>1. InStep => WhoKeepsUp
  BY DEF InStep, WhoKeepsUp
<1> QED
  BY <1>1, QueryIsInStep, PTL

\* An agent whose presence rests during the Query is listed once if it is online,
\* and not at all otherwise.
THEOREM WhoTellsTheTruth == DiscoverySpec => []WhoIsRight
<1>1. InStep /\ TypeOK /\ DiscoveryTypeOK => WhoIsRight
  <2> SUFFICES ASSUME InStep, TypeOK, DiscoveryTypeOK,
                      who = "window", wire = <<>>, updates = 0
               PROVE  Entries = IF presence = "online" THEN 1 ELSE 0
    BY DEF WhoIsRight
  <2>1. raw = IF presence = "none" THEN <<>> ELSE <<presence>>
    <3>1. raw \o wire = raw
      BY DEF DiscoveryTypeOK
    <3> QED
      BY <3>1 DEF InStep, Asked
  <2>2. CASE presence = "online"
    <3>1. {i \in DOMAIN raw : IsOnline(raw[i])} = {1}
      BY <2>1, <2>2 DEF IsOnline
    <3> QED
      BY <2>2, <3>1, FS_Singleton DEF Entries
  <2>3. CASE presence # "online"
    <3>1. {i \in DOMAIN raw : IsOnline(raw[i])} = {}
      BY <2>1, <2>3 DEF IsOnline
    <3> QED
      BY <2>3, <3>1, FS_EmptySet DEF Entries
  <2> QED
    BY <2>2, <2>3
<1> QED
  BY <1>1, QueryIsInStep, ConnectionTypes, PairIsConnection, DiscoveryTypes, PTL
=============================================================================
