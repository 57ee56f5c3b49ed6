--------------------------- MODULE ConnectionProofs ---------------------------
(***************************************************************************)
(* Proofs about Connection, for any number of network failures.            *)
(***************************************************************************)
EXTENDS Connection, TLAPS

\* Every variable keeps its type under the steps of the manager, the
\* goroutines, main and the environment.
THEOREM ConnectionTypes == Spec => []TypeOK
<1> USE DEF TypeOK
<1>1. Init => TypeOK
  <2> SUFFICES ASSUME Init
               PROVE  TypeOK
    OBVIOUS
  <2>1. presence \in {"none", "online", "offline"}
    BY ConnectionAssumption DEF Init
  <2>2. goodbye \in BOOLEAN
    BY Zenon DEF Init
  <2>3. drops \in 0 .. MaxDrops
    BY ConnectionAssumption DEF Init
  <2> QED
    BY <2>1, <2>2, <2>3, Zenon DEF Init
<1>2. TypeOK /\ [Next]_vars => TypeOK'
  <2> SUFFICES ASSUME TypeOK, [Next]_vars
               PROVE  TypeOK'
    OBVIOUS
  <2>a. UNCHANGED client => UNCHANGED connected /\ UNCHANGED cmSet /\ UNCHANGED heartbeat
    BY DEF client
  <2>b. UNCHANGED main => UNCHANGED stdio /\ UNCHANGED cancelled /\ UNCHANGED proc
    BY DEF main
  <2>c. UNCHANGED broker
           => /\ UNCHANGED will /\ UNCHANGED presence
              /\ UNCHANGED session /\ UNCHANGED goodbye
    BY DEF broker
  <2>1. CASE Connack
    BY <2>1, <2>a, <2>b, <2>c, Zenon DEF Connack, CarriesWill, AfterWill, WillPayload
  <2>2. CASE DialFails
    BY <2>2, <2>a, <2>b, <2>c, Zenon DEF DialFails, FlagAfterFailure
  <2>3. CASE Callback
    BY <2>3, <2>a, <2>b, <2>c, Zenon
    DEF Callback, SetConnected, Subscribe, Subscribed, Announce, PresencePayload
  <2>4. CASE ConnectionDown
    BY <2>4, <2>a, <2>b, <2>c, Zenon DEF ConnectionDown
  <2>5. CASE StopManager
    <3>1. CASE net = "ok"
      BY <2>5, <3>1, <2>a, <2>b, <2>c, Zenon DEF StopManager
    <3>2. CASE net # "ok"
      <4>1. /\ manager' = "stopped"
            /\ UNCHANGED <<net, will, goodbye>>
            /\ UNCHANGED <<drops, presence, session, client, main>>
        BY <2>5, <3>2 DEF StopManager
      <4> QED
        BY <4>1, <2>a, <2>b
    <3> QED
      BY <3>1, <3>2
  <2>6. CASE SetCM \/ HeartbeatStop
    BY <2>6, <2>a, <2>b, <2>c, Zenon DEF SetCM, HeartbeatStop
  <2>7. CASE Heartbeat
    BY <2>7, <2>a, <2>b, <2>c, Zenon
    DEF Heartbeat, StartHeartbeat, HeartbeatTick, HeartbeatPublish,
        SkippedTick, PresencePayload
  <2>8. CASE Signal \/ StdioFails \/ StdioEnds
    BY <2>8, <2>a, <2>b, <2>c, Zenon DEF Signal, StdioFails, StdioEnds
  <2>9. CASE Exit \/ Crash
    BY <2>9, <2>a, <2>b, <2>c, Zenon DEF Exit, Crash, Closed
  <2>10. CASE NetworkBreaks
    <3>1. drops' \in 0 .. MaxDrops
      BY <2>10, ConnectionAssumption DEF NetworkBreaks
    <3>2. /\ net' = "broken"
          /\ UNCHANGED <<manager, client, main, broker>>
      BY <2>10 DEF NetworkBreaks
    <3> QED
      BY <3>1, <3>2, <2>a, <2>b, <2>c, ZenonT(60)
  <2>11. CASE BrokerNotices
    BY <2>11, <2>a, <2>b, <2>c, Zenon DEF BrokerNotices, AfterWill, WillPayload
  <2>12. CASE SessionLost
    BY <2>12, <2>a, <2>b, <2>c, Zenon DEF SessionLost
  <2>13. CASE UNCHANGED vars
    BY <2>13 DEF vars
  <2> QED
    BY <2>1, <2>2, <2>3, <2>4, <2>5, <2>6, <2>7, <2>8, <2>9, <2>10, <2>11, <2>12, <2>13
    DEF Next
<1> QED
  BY <1>1, <1>2, PTL DEF Spec

\* A connection that works still has its will: the will goes only with the
\* connection.
LEMMA WorkingIsBacked == Spec => []WorkingHasWill
<1>1. Init => WorkingHasWill
  BY DEF Init, WorkingHasWill
<1>2. WorkingHasWill /\ [Next]_vars => WorkingHasWill'
  <2> SUFFICES ASSUME WorkingHasWill, [Next]_vars
               PROVE  WorkingHasWill'
    OBVIOUS
  <2> USE DEF WorkingHasWill, broker
  <2>1. CASE Connack
    BY <2>1 DEF Connack, CarriesWill
  <2>2. CASE StopManager
    BY <2>2 DEF StopManager
  <2>3. CASE Exit \/ Crash
    BY <2>3 DEF Exit, Crash, Closed
  <2>4. CASE NetworkBreaks
    BY <2>4 DEF NetworkBreaks
  <2>5. CASE BrokerNotices
    BY <2>5 DEF BrokerNotices
  <2>6. CASE UNCHANGED <<net, will>>
    BY <2>6
  <2> QED
    BY <2>1, <2>2, <2>3, <2>4, <2>5, <2>6
    DEF Next, vars, Callback, Heartbeat, DialFails, SetConnected, Subscribe,
        Announce, ConnectionDown, SetCM, StartHeartbeat, HeartbeatTick,
        HeartbeatPublish, HeartbeatStop, Signal, StdioFails, StdioEnds, SessionLost
<1> QED
  BY <1>1, <1>2, PTL DEF Spec

\* The bridge follows Presence: "online" is published over a connection that
\* works, hence backed; a will that the broker gives up is published, and shows
\* the agent as offline; only the DISCONNECT of a process that was told to end
\* discards one, and none is set after that.
THEOREM PresenceIsImplemented == Spec => ImplementsPresence
<1>1. Init => Agent!Init
  <2>1. Init => /\ presence \in {"none", "online", "offline"}
                /\ will = FALSE /\ cancelled = FALSE
    BY ConnectionAssumption DEF Init
  <2>2. Init => goodbye = (presence = "online")
    BY Zenon DEF Init
  <2> QED
    BY <2>1, <2>2, Zenon DEF Agent!Init
<1>2. TypeOK /\ WorkingHasWill /\ [Next]_vars => [Agent!Next]_(Agent!vars)
  <2> SUFFICES ASSUME TypeOK, WorkingHasWill, [Next]_vars
               PROVE  [Agent!Next]_(Agent!vars)
    OBVIOUS
  <2> USE DEF broker, main, Agent!vars
  <2>1. CASE Connack
    BY <2>1 DEF Connack, CarriesWill, AfterWill, WillPayload, TypeOK,
                Agent!Next, Agent!Connect, Agent!Takeover
  <2>2. CASE Announce \/ HeartbeatPublish
    BY <2>2 DEF Announce, HeartbeatPublish, PresencePayload, WorkingHasWill,
                Agent!Next, Agent!Appear
  <2>3. CASE StopManager
    BY <2>3 DEF StopManager, WorkingHasWill, Agent!Next, Agent!SayGoodbye
  <2>4. CASE BrokerNotices
    BY <2>4 DEF BrokerNotices, AfterWill, WillPayload, Agent!Next, Agent!Vanish
  <2>5. CASE Signal \/ StdioFails
    BY <2>5 DEF Signal, StdioFails, Agent!Next, Agent!Tell
  <2>6. CASE UNCHANGED <<will, presence, cancelled, goodbye>>
    BY <2>6
  <2> QED
    BY <2>1, <2>2, <2>3, <2>4, <2>5, <2>6
    DEF Next, vars, Callback, Heartbeat, DialFails, SetConnected, Subscribe,
        ConnectionDown, SetCM, StartHeartbeat, HeartbeatTick, HeartbeatStop,
        StdioEnds, Exit, Crash, NetworkBreaks, SessionLost
<1> QED
  BY <1>1, <1>2, ConnectionTypes, WorkingIsBacked, PTL
  DEF Spec, ImplementsPresence, Agent!Spec

\* The team never sees the agent online without a will to take it back, but
\* after DISCONNECT: "online" is only published over a working connection,
\* which has a will, and the will goes only with DISCONNECT or "offline".
THEOREM OnlineIsBacked == Spec => []OnlineHasWill
<1>1. Init => OnlineHasWill
  BY DEF Init, OnlineHasWill
<1>2. TypeOK /\ WorkingHasWill /\ OnlineHasWill /\ [Next]_vars => OnlineHasWill'
  <2> SUFFICES ASSUME TypeOK, WorkingHasWill, OnlineHasWill, [Next]_vars
               PROVE  OnlineHasWill'
    OBVIOUS
  <2> USE DEF WorkingHasWill, OnlineHasWill, TypeOK, broker
  <2>1. CASE Connack
    BY <2>1 DEF Connack, CarriesWill, AfterWill, WillPayload
  <2>2. CASE Announce \/ HeartbeatPublish
    BY <2>2 DEF Announce, HeartbeatPublish, PresencePayload
  <2>3. CASE StopManager
    BY <2>3 DEF StopManager
  <2>4. CASE Exit \/ Crash
    BY <2>4 DEF Exit, Crash, Closed
  <2>5. CASE NetworkBreaks
    BY <2>5 DEF NetworkBreaks
  <2>6. CASE BrokerNotices
    BY <2>6 DEF BrokerNotices, AfterWill, WillPayload
  <2>7. CASE UNCHANGED <<net, will, presence, goodbye>>
    BY <2>7
  <2> QED
    BY <2>1, <2>2, <2>3, <2>4, <2>5, <2>6, <2>7
    DEF Next, vars, Callback, Heartbeat, DialFails, SetConnected, Subscribe,
        ConnectionDown, SetCM, StartHeartbeat, HeartbeatTick, HeartbeatStop,
        Signal, StdioFails, StdioEnds, SessionLost
<1> QED
  BY <1>1, <1>2, ConnectionTypes, WorkingIsBacked, PTL DEF Spec

\* OnConnectionUp announces the agent only after its subscriptions are in place
\* or were refused on this very connection.
THEOREM AnnouncedAgentHears == Spec => []AnnouncedHears
<1>1. Init => AnnouncedHears
  BY DEF Init, AnnouncedHears
<1>2. AnnouncedHears /\ [Next]_vars => AnnouncedHears'
  <2> SUFFICES ASSUME AnnouncedHears, [Next]_vars
               PROVE  AnnouncedHears'
    OBVIOUS
  <2> USE DEF AnnouncedHears, broker
  <2>1. CASE Connack
    BY <2>1 DEF Connack
  <2>2. CASE SetConnected \/ Announce \/ ConnectionDown
    BY <2>2 DEF SetConnected, Announce, ConnectionDown
  <2>3. CASE Subscribe
    BY <2>3 DEF Subscribe, Subscribed
  <2>4. CASE StopManager
    BY <2>4 DEF StopManager
  <2>5. CASE Exit \/ Crash
    BY <2>5 DEF Exit, Crash, Closed
  <2>6. CASE NetworkBreaks
    BY <2>6 DEF NetworkBreaks
  <2>7. CASE SessionLost
    BY <2>7 DEF SessionLost
  <2>8. CASE UNCHANGED <<manager, net, session>>
    BY <2>8
  <2> QED
    BY <2>1, <2>2, <2>3, <2>4, <2>5, <2>6, <2>7, <2>8
    DEF Next, vars, Callback, Heartbeat, DialFails, SetCM, StartHeartbeat,
        HeartbeatTick, HeartbeatPublish, HeartbeatStop, Signal, StdioFails,
        StdioEnds, BrokerNotices
<1> QED
  BY <1>1, <1>2, PTL DEF Spec
=============================================================================
