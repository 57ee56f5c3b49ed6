-------------------------- MODULE SubscribingProofs --------------------------
(***************************************************************************)
(* Proofs about Subscribing, for configurations of any size.               *)
(***************************************************************************)
EXTENDS Subscribing, TopicFilterProofs, FiniteSetTheorems

\* The handlers that match a topic can be counted.
LEMMA HandlersAreCounted ==
    ASSUME logTopics \in LogConfigs, subscribeTopics \in TopicConfigs, NEW t
    PROVE  /\ IsFiniteSet({i \in 1 .. Len(subscribeTopics) : Matches(subscribeTopics[i], t)})
           /\ IsFiniteSet({f \in logTopics : Matches(f, t)})
           /\ TaskHandlers(t) \in Nat
           /\ LogHandlers(t) \in Nat
<1>1. IsFiniteSet(1 .. Len(subscribeTopics))
  <2>1. Len(subscribeTopics) \in Nat
    BY SubscribingAssumption
  <2> QED
    BY <2>1, FS_Interval
<1>2. IsFiniteSet(logTopics)
  BY SubscribingAssumption
<1>3. IsFiniteSet({i \in 1 .. Len(subscribeTopics) : Matches(subscribeTopics[i], t)})
  BY <1>1, FS_Subset
<1>4. IsFiniteSet({f \in logTopics : Matches(f, t)})
  BY <1>2, FS_Subset
<1> QED
  BY <1>3, <1>4, FS_CardinalityType DEF TaskHandlers, LogHandlers

\* What a message leaves behind: at least one copy of it was handled.
LEMMA ReceiveCounts ==
    ASSUME NEW t \in Topics, Receive(t),
           logTopics \in LogConfigs, subscribeTopics \in TopicConfigs
    PROVE  \E k \in 1 .. Cardinality({f \in subscribed : Matches(f, t)}) :
              /\ k \in Nat
              /\ last' = {[topic |-> t, handled |-> k * TaskHandlers(t),
                                        logged |-> k * LogHandlers(t)]}
              /\ k * TaskHandlers(t) \in Nat
              /\ k * LogHandlers(t) \in Nat
<1>1. PICK k \in 1 .. Cardinality({f \in subscribed : Matches(f, t)}) :
         last' = {[topic |-> t, handled |-> k * TaskHandlers(t),
                                logged |-> k * LogHandlers(t)]}
  BY DEF Receive
<1>2. k \in Nat
  OBVIOUS
<1>3. TaskHandlers(t) \in Nat /\ LogHandlers(t) \in Nat
  BY HandlersAreCounted
<1>4. \A m, n \in Nat : m * n \in Nat
  OBVIOUS
<1> QED
  BY <1>1, <1>2, <1>3, <1>4

\* The list under construction and the broker's set never hold a filter that
\* is not configured.
THEOREM SubscribingTypes == Spec => []TypeOK
<1> USE SubscribingAssumption DEF TypeOK, Configured, config
<1>1. Init => TypeOK
  BY DEF Init
<1>2. TypeOK /\ [Next]_vars => TypeOK'
  <2> SUFFICES ASSUME TypeOK, [Next]_vars
               PROVE  TypeOK'
    OBVIOUS
  <2>0. Len(subscribeTopics) \in Nat
    OBVIOUS
  <2>1. CASE ConnectionUp
    BY <2>0, <2>1 DEF ConnectionUp
  <2>2. CASE CollectLogTopics
    BY <2>0, <2>2 DEF CollectLogTopics
  <2>3. CASE CollectTopic
    <3>1. topicSet' \subseteq topicSet \cup {subscribeTopics[next]}
      BY <2>3 DEF CollectTopic, Covered
    <3>2. next \in 1 .. Len(subscribeTopics) /\ next' = next + 1
      BY <2>3 DEF CollectTopic
    <3>3. UNCHANGED <<logTopics, subscribeTopics, link, subscribed, last>>
      BY <2>3 DEF CollectTopic
    <3>4. topicSet' \subseteq Configured'
      BY <3>1, <3>2, <3>3
    <3> QED
      BY <2>0, <3>2, <3>3, <3>4
  <2>4. CASE Subscribe
    BY <2>4 DEF Subscribe, List
  <2>5. CASE SubscribeFails
    BY <2>5 DEF SubscribeFails
  <2>6. CASE ConnectionLost
    BY <2>6 DEF ConnectionLost
  <2>7. CASE SessionLost
    BY <2>7 DEF SessionLost
  <2>8. ASSUME NEW t \in Topics, Receive(t)
        PROVE  TypeOK'
    <3>1. last' \subseteq [topic : Topics, handled : Nat, logged : Nat]
      <4>1. PICK k \in 1 .. Cardinality({f \in subscribed : Matches(f, t)}) :
               /\ last' = {[topic |-> t, handled |-> k * TaskHandlers(t),
                                        logged |-> k * LogHandlers(t)]}
               /\ k * TaskHandlers(t) \in Nat
               /\ k * LogHandlers(t) \in Nat
        BY <2>8, ReceiveCounts
      <4> QED
        BY <4>1
    <3> QED
      BY <2>8, <3>1 DEF Receive
  <2>9. CASE UNCHANGED vars
    BY <2>9 DEF vars
  <2> QED
    BY <2>1, <2>2, <2>3, <2>4, <2>5, <2>6, <2>7, <2>8, <2>9 DEF Next
<1> QED
  BY <1>1, <1>2, PTL DEF Spec

\* A filter that mqttMatch finds covered by a list is received through it.
LEMMA CoveredIsReceived ==
    ASSUME TypeOK, PlusNeverOverHash, NEW f \in Configured,
           NEW S \in SUBSET Configured, CoveredByAny(S, f)
    PROVE  Received(f, S)
<1>1. PICK p \in S : MqttMatch(p, f)
  BY DEF CoveredByAny
<1>2. /\ p \in Seq(STRING) /\ IsFilter(p)
      /\ f \in Seq(STRING) /\ IsFilter(f)
  BY SubscribingAssumption DEF Configured, TypeOK
<1>3. ASSUME NEW t \in Topics, Matches(f, t)
      PROVE  Matches(p, t)
  <2>1. t \in Seq(STRING) /\ IsTopic(t)
    BY SubscribingAssumption
  <2> QED
    BY <1>1, <1>2, <1>3, <2>1, CoverIsSound DEF PlusNeverOverHash
<1> QED
  BY <1>3 DEF Received

\* What OnConnectionUp leaves out of its list it receives all the same, in
\* every configuration where no "+" stands over a "#".
THEOREM CoveredTopicsAreReceived == Spec => []CoveredTopicsReceived
<1> USE SubscribingAssumption DEF config
<1>1. Init => ListCovers
  BY DEF Init, ListCovers
<1>2. TypeOK /\ ListCovers /\ [Next]_vars => ListCovers'
  <2> SUFFICES ASSUME TypeOK, ListCovers, [Next]_vars, PlusNeverOverHash'
               PROVE  /\ link' = "callback" => \A i \in 1 .. next' - 1 :
                            Received(subscribeTopics[i], topicSet)'
                      /\ link' = "up" => AllReceived'
    BY DEF ListCovers
  <2>0. UNCHANGED config
    BY DEF Next, vars, ConnectionUp, CollectLogTopics, CollectTopic, Subscribe,
           SubscribeFails, ConnectionLost, SessionLost, Receive
  <2>1. PlusNeverOverHash
    BY <2>0 DEF PlusNeverOverHash, Configured
  <2>2. CASE ConnectionUp
    BY <2>2 DEF ConnectionUp
  <2>3. CASE CollectLogTopics
    BY <2>3 DEF CollectLogTopics
  <2>4. CASE CollectTopic
    <3>1. /\ next \in 1 .. Len(subscribeTopics) /\ next' = next + 1
          /\ link = "callback" /\ link' = link
          /\ subscribeTopics' = subscribeTopics
      BY <2>4 DEF CollectTopic
    <3>2. topicSet \subseteq topicSet'
      BY <2>4 DEF CollectTopic
    <3>3. Received(subscribeTopics[next], topicSet')
      <4>1. CASE CoveredByAny(topicSet, subscribeTopics[next])
        <5>1. subscribeTopics[next] \in Configured /\ topicSet \subseteq Configured
          BY <3>1 DEF Configured, TypeOK
        <5>2. Received(subscribeTopics[next], topicSet)
          BY <2>1, <4>1, <5>1, CoveredIsReceived
        <5> QED
          BY <3>2, <5>2 DEF Received
      <4>2. CASE ~CoveredByAny(topicSet, subscribeTopics[next])
        BY <2>4, <4>2 DEF CollectTopic, Covered, Received
      <4> QED
        BY <4>1, <4>2
    <3>4. ASSUME NEW i \in 1 .. next' - 1
          PROVE  Received(subscribeTopics[i], topicSet')
      <4>1. CASE i = next
        BY <3>3, <4>1
      <4>2. CASE i # next
        <5>1. i \in 1 .. next - 1
          BY <3>1, <4>2
        <5>2. Received(subscribeTopics[i], topicSet)
          BY <2>1, <3>1, <5>1 DEF ListCovers
        <5> QED
          BY <3>2, <5>2 DEF Received
      <4> QED
        BY <4>1, <4>2
    <3> QED
      BY <3>1, <3>4 DEF Received
  <2>5. CASE Subscribe
    <3>1. link = "callback" /\ next = Len(subscribeTopics) + 1
      BY <2>5 DEF Subscribe, ListComplete
    <3>2. ASSUME NEW i \in 1 .. Len(subscribeTopics)
          PROVE  Received(subscribeTopics[i], subscribed')
      <4>1. i \in 1 .. next - 1
        BY <3>1 DEF TypeOK
      <4>2. Received(subscribeTopics[i], topicSet)
        BY <2>1, <3>1, <4>1 DEF ListCovers
      <4>3. topicSet \subseteq subscribed'
        BY <2>5 DEF Subscribe, List
      <4> QED
        BY <4>2, <4>3 DEF Received
    <3> QED
      BY <2>5, <3>2 DEF Subscribe, AllReceived, Received
  <2>6. CASE SubscribeFails
    BY <2>6 DEF SubscribeFails
  <2>7. CASE ConnectionLost
    BY <2>7 DEF ConnectionLost
  <2>8. CASE SessionLost
    BY <2>8 DEF SessionLost
  <2>9. CASE UNCHANGED <<config, link, next, topicSet, subscribed>>
    BY <2>1, <2>9 DEF ListCovers, AllReceived, Received
  <2> QED
    BY <2>2, <2>3, <2>4, <2>5, <2>6, <2>7, <2>8, <2>9 DEF Next, vars, Receive
<1>3. ListCovers => CoveredTopicsReceived
  BY DEF ListCovers, CoveredTopicsReceived
<1> QED
  BY <1>1, <1>2, <1>3, SubscribingTypes, PTL DEF Spec

\* The list holds no subscribe topic that a log topic covers, nor does the session.
LEMMA ListStaysTight == Spec => []ListIsTight
<1> USE DEF config
<1>1. Init => ListIsTight
  BY DEF Init, ListIsTight
<1>2. ListIsTight /\ [Next]_vars => ListIsTight'
  <2> SUFFICES ASSUME ListIsTight, [Next]_vars
               PROVE  ListIsTight'
    OBVIOUS
  <2>0. UNCHANGED config
    BY DEF Next, vars, ConnectionUp, CollectLogTopics, CollectTopic, Subscribe,
           SubscribeFails, ConnectionLost, SessionLost, Receive
  <2>1. ASSUME NEW f, Needed(f)
        PROVE  Needed(f)'
    BY <2>0, <2>1 DEF Needed, CoveredByAny
  <2>2. CASE ConnectionUp
    BY <2>1, <2>2 DEF ConnectionUp, ListIsTight
  <2>3. CASE CollectLogTopics
    <3>1. \A f \in logTopics : Needed(f)
      BY DEF Needed
    <3> QED
      BY <2>1, <2>3, <3>1 DEF CollectLogTopics, ListIsTight
  <2>4. CASE CollectTopic
    <3> DEFINE t == subscribeTopics[next]
    <3>1. logTopics \subseteq topicSet /\ next \in 1 .. Len(subscribeTopics)
      BY <2>4 DEF CollectTopic, ListIsTight
    <3>2. ~CoveredByAny(topicSet, t) => Needed(t)
      BY <3>1 DEF Needed, CoveredByAny
    <3>3. /\ topicSet' = IF CoveredByAny(topicSet, t) THEN topicSet ELSE topicSet \cup {t}
          /\ UNCHANGED <<logTopics, subscribed>>
      BY <2>4 DEF CollectTopic, Covered
    <3> HIDE DEF t
    <3>4. \A f \in topicSet' \cup subscribed' : Needed(f)
      BY <3>2, <3>3 DEF ListIsTight
    <3>5. logTopics' \subseteq topicSet'
      BY <3>1, <3>3
    <3> QED
      BY <2>1, <3>4, <3>5 DEF ListIsTight
  <2>5. CASE Subscribe
    BY <2>1, <2>5 DEF Subscribe, List, ListIsTight
  <2>6. CASE SubscribeFails \/ ConnectionLost
    BY <2>1, <2>6 DEF SubscribeFails, ConnectionLost, ListIsTight
  <2>7. CASE SessionLost
    BY <2>1, <2>7 DEF SessionLost, ListIsTight
  <2>8. CASE UNCHANGED <<config, link, next, topicSet, subscribed>>
    BY <2>1, <2>8 DEF ListIsTight
  <2> QED
    BY <2>2, <2>3, <2>4, <2>5, <2>6, <2>7, <2>8 DEF Next, vars, Receive
<1> QED
  BY <1>1, <1>2, PTL DEF Spec

\* Where a message is asked for once, one filter of the session matches at most.
LEMMA OneFilterMatches ==
    ASSUME TypeOK, ListIsTight, NEW t, AskedOnce(t)
    PROVE  /\ Cardinality({f \in subscribed : Matches(f, t)}) \in Nat
           /\ Cardinality({f \in subscribed : Matches(f, t)}) <= 1
<1> DEFINE F == {f \in subscribed : Matches(f, t)}
           I == {i \in 1 .. Len(subscribeTopics) : Matches(subscribeTopics[i], t)}
           G == {f \in logTopics : Matches(f, t)}
<1>1. IsFiniteSet(I) /\ IsFiniteSet(G) /\ Cardinality(G) \in Nat
  BY HandlersAreCounted, FS_CardinalityType DEF TypeOK
<1>2. Cardinality(I) = 1 /\ Cardinality(G) <= 1
  BY DEF AskedOnce, TaskHandlers, LogHandlers
<1>3. PICK i : I = {i}
  BY <1>1, <1>2, FS_Singleton
<1>4. \A f \in F : f \in G \/ (f = subscribeTopics[i] /\ ~CoveredByAny(logTopics, f))
  BY <1>3 DEF ListIsTight, Needed
<1>5. \A f \in G : CoveredByAny(logTopics, subscribeTopics[i])
  BY <1>3 DEF AskedOnce, CoveredByAny
<1>6. \E x : F \subseteq {x}
  <2>1. CASE G = {}
    BY <1>4, <2>1
  <2>2. CASE G # {}
    <3>1. Cardinality(G) = 1
      <4> HIDE DEF G
      <4>1. Cardinality(G) # 0
        BY <1>1, <2>2, FS_EmptySet, Zenon
      <4> QED
        BY <1>1, <1>2, <4>1
    <3>2. PICK g : G = {g}
      BY <1>1, <3>1, FS_Singleton
    <3> QED
      BY <1>4, <1>5, <2>2, <3>2
  <2> QED
    BY <2>1, <2>2
<1>7. PICK x : F \subseteq {x}
  BY <1>6
<1>8. IsFiniteSet({x}) /\ Cardinality({x}) = 1
  BY FS_Singleton
<1>9. IsFiniteSet(F) /\ Cardinality(F) <= Cardinality({x})
  BY <1>7, <1>8, FS_Subset
<1>10. Cardinality(F) \in Nat
  BY <1>9, FS_CardinalityType
<1> QED
  BY <1>8, <1>9, <1>10

\* OnConnectionUp's list avoids double delivery where the configuration lets it:
\* a message asked for once is handled once, in configurations of any size and
\* with a broker that sends a copy for every filter that matches.
THEOREM NoDoubleDelivery == Spec => []HandledOnce
<1>1. Init => HandledOnce
  BY DEF Init, HandledOnce
<1>2. TypeOK /\ ListIsTight /\ HandledOnce /\ [Next]_vars => HandledOnce'
  <2> SUFFICES ASSUME TypeOK, ListIsTight, HandledOnce, [Next]_vars
               PROVE  HandledOnce'
    OBVIOUS
  <2>0. UNCHANGED config
    BY DEF Next, vars, ConnectionUp, CollectLogTopics, CollectTopic, Subscribe,
           SubscribeFails, ConnectionLost, SessionLost, Receive, config
  <2>1. \A t : AskedOnce(t)' => AskedOnce(t)
    BY <2>0 DEF config, AskedOnce, TaskHandlers, LogHandlers
  <2>2. ASSUME NEW t \in Topics, Receive(t), AskedOnce(t)
        PROVE  \A m \in last' : m.handled = 1 /\ m.logged <= 1
    <3> DEFINE n == Cardinality({f \in subscribed : Matches(f, t)})
    <3>1. PICK k \in 1 .. n :
             /\ k \in Nat
             /\ last' = {[topic |-> t, handled |-> k * TaskHandlers(t),
                                       logged |-> k * LogHandlers(t)]}
      BY <2>2, ReceiveCounts DEF TypeOK
    <3>2. n \in Nat /\ n <= 1
      BY <2>2, OneFilterMatches
    <3> HIDE DEF n
    <3>4. k = 1
      BY <3>1, <3>2
    <3>5. TaskHandlers(t) = 1 /\ LogHandlers(t) \in Nat /\ LogHandlers(t) <= 1
      BY <2>2, HandlersAreCounted DEF AskedOnce, TypeOK
    <3> QED
      BY <3>1, <3>4, <3>5
  <2>3. ASSUME NEW t \in Topics, Receive(t)
        PROVE  HandledOnce'
    BY <2>1, <2>2, <2>3 DEF HandledOnce, Receive
  <2>4. CASE UNCHANGED last
    BY <2>1, <2>4 DEF HandledOnce
  <2> QED
    BY <2>3, <2>4 DEF Next, vars, ConnectionUp, CollectLogTopics, CollectTopic,
                      Subscribe, SubscribeFails, ConnectionLost, SessionLost
<1> QED
  BY <1>1, <1>2, SubscribingTypes, ListStaysTight, PTL DEF Spec
=============================================================================
