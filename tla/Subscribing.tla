----------------------------- MODULE Subscribing -----------------------------
(***************************************************************************)
(* What OnConnectionUp subscribes to (internal/mqtt/client.go): the log    *)
(* topics first, then each of SubscribeTopics unless coveredByAny finds it *)
(* covered already.  It runs again after every reconnect; the broker keeps *)
(* the session's subscriptions meanwhile, or loses the session.  What the  *)
(* broker sends goes to the handlers Connect registered with the router,   *)
(* one for each log topic and one for each subscribe topic.  The           *)
(* configuration is chosen at the start and never changes.                 *)
(*                                                                         *)
(* External: the broker, which sends one copy of a message or one for each *)
(* filter of the session that matches; paho's StandardRouter, which calls  *)
(* every handler whose filter matches.                                     *)
(***************************************************************************)
EXTENDS TopicFilter, FiniteSets

CONSTANTS
    LogConfigs,     \* values of Log.Topics, as sets; {} with logging off
    TopicConfigs,   \* values of SubscribeTopics
    Topics          \* the topics peers publish to

ASSUME SubscribingAssumption ==
    /\ \A logs \in LogConfigs :
          IsFiniteSet(logs) /\ \A f \in logs : f \in Seq(STRING) /\ IsFilter(f)
    /\ \A subs \in TopicConfigs :
          /\ subs \in Seq(Seq(STRING))
          /\ \A i \in 1 .. Len(subs) : IsFilter(subs[i])
    /\ \A t \in Topics : t \in Seq(STRING) /\ IsTopic(t)

VARIABLES
    logTopics,        \* Log.Topics if c.logger is set
    subscribeTopics,  \* SubscribeTopics
    link,             \* "down", "callback" (OnConnectionUp), "up", "deaf"
    next,             \* the subscribe topic the loop looks at next, 0 before it
    topicSet,         \* the list under construction
    subscribed,       \* the filters the broker holds for the session
    last              \* the message received last, in a set, with how often
                      \* it was handled and logged

vars == <<logTopics, subscribeTopics, link, next, topicSet, subscribed, last>>
config == <<logTopics, subscribeTopics>>

Configured == logTopics \cup {subscribeTopics[i] : i \in 1 .. Len(subscribeTopics)}

TypeOK ==
    /\ logTopics \in LogConfigs
    /\ subscribeTopics \in TopicConfigs
    /\ link \in {"down", "callback", "up", "deaf"}
    /\ next \in 0 .. Len(subscribeTopics) + 1
    /\ topicSet \subseteq Configured
    /\ subscribed \subseteq Configured
    /\ last \subseteq [topic : Topics, handled : Nat, logged : Nat]

-----------------------------------------------------------------------------
\* The manager calls OnConnectionUp after each CONNACK.
ConnectionUp ==
    /\ link = "down"
    /\ link' = "callback"
    /\ topicSet' = {}
    /\ next' = 0
    /\ UNCHANGED <<config, subscribed, last>>

CollectLogTopics ==
    /\ link = "callback"
    /\ next = 0
    /\ topicSet' = logTopics
    /\ next' = 1
    /\ UNCHANGED <<config, link, subscribed, last>>

\* Faults: nothing is taken for covered; a filter is when it covers one of the
\* list.
CoveredNever(t)   == FALSE
CoveredSwapped(t) == \E p \in topicSet : MqttMatch(t, p)

Covered(t) == CoveredByAny(topicSet, t)

CollectTopic ==
    /\ link = "callback"
    /\ next \in 1 .. Len(subscribeTopics)
    /\ topicSet' = LET t == subscribeTopics[next]
                   IN  IF Covered(t) THEN topicSet ELSE topicSet \cup {t}
    /\ next' = next + 1
    /\ UNCHANGED <<config, link, subscribed, last>>

ListComplete == link = "callback" /\ next = Len(subscribeTopics) + 1

\* Fault: the logger's default topic agents/# is subscribed, configured or not.
ListWithDefault == topicSet \cup {<<"agents", Hash>>}

List == topicSet

Subscribe ==
    /\ ListComplete
    /\ subscribed' = subscribed \cup List
    /\ link' = "up"
    /\ UNCHANGED <<config, next, topicSet, last>>

\* The error is logged and nothing is retried until the next reconnect.
SubscribeFails ==
    /\ ListComplete
    /\ link' = "deaf"
    /\ UNCHANGED <<config, next, topicSet, subscribed, last>>

ConnectionLost ==
    /\ link \in {"up", "deaf"}
    /\ link' = "down"
    /\ UNCHANGED <<config, next, topicSet, subscribed, last>>

\* The session expires, or the broker restarts without its store.
SessionLost ==
    /\ link = "down"
    /\ subscribed' = {}
    /\ UNCHANGED <<config, link, next, topicSet, last>>

-----------------------------------------------------------------------------
(* Messages.                                                               *)

\* How many handlers of the router a message on topic t reaches.
TaskHandlers(t) ==
    Cardinality({i \in 1 .. Len(subscribeTopics) : Matches(subscribeTopics[i], t)})
LogHandlers(t) == Cardinality({f \in logTopics : Matches(f, t)})

\* Messages come from the session's subscriptions, also those of an earlier
\* connection, as soon as there is a connection.
Receive(t) ==
    /\ link # "down"
    /\ \E copies \in 1 .. Cardinality({f \in subscribed : Matches(f, t)}) :
          last' = {[topic   |-> t,
                    handled |-> copies * TaskHandlers(t),
                    logged  |-> copies * LogHandlers(t)]}
    /\ UNCHANGED <<config, link, next, topicSet, subscribed>>

Init ==
    /\ logTopics \in LogConfigs
    /\ subscribeTopics \in TopicConfigs
    /\ link = "down"
    /\ next = 0
    /\ topicSet = {}
    /\ subscribed = {}
    /\ last = {}

Next ==
    \/ ConnectionUp
    \/ CollectLogTopics
    \/ CollectTopic
    \/ Subscribe
    \/ SubscribeFails
    \/ ConnectionLost
    \/ SessionLost
    \/ \E t \in Topics : Receive(t)

Spec == Init /\ [][Next]_vars

-----------------------------------------------------------------------------
\* Every message that matches filter f reaches the client through set S.
Received(f, S) == \A t \in Topics : Matches(f, t) => \E s \in S : Matches(s, t)

\* mqttMatch takes a "+" to cover a "#"; the configuration has no such pair.
PlusNeverOverHash == \A p, q \in Configured : ~PlusOverHash(p, q)

AllReceived ==
    \A i \in 1 .. Len(subscribeTopics) : Received(subscribeTopics[i], subscribed)

\* Leaving a covered topic out of the list loses none of its messages, if no
\* "+" of the configuration stands over a "#" (coveredByAny in OnConnectionUp).
CoveredTopicsReceived == link = "up" /\ PlusNeverOverHash => AllReceived

\* The configurations that ask for the messages of topic t once: one subscribe
\* topic matches, and at most one log topic, which covers that subscribe topic.
AskedOnce(t) ==
    /\ TaskHandlers(t) = 1
    /\ LogHandlers(t) <= 1
    /\ \A f \in logTopics, i \in 1 .. Len(subscribeTopics) :
          Matches(f, t) /\ Matches(subscribeTopics[i], t)
             => MqttMatch(f, subscribeTopics[i])

\* What the comment on the list promises, it "avoids double-delivery from
\* overlapping subscriptions", where it can be kept: a message that was asked
\* for once is handled once and logged at most once, even by a broker that
\* sends a copy for every filter.
HandledOnce ==
    \A m \in last : AskedOnce(m.topic) => m.handled = 1 /\ m.logged <= 1

\* What the comment on the list says without that condition: a task topic is
\* left out only "if not already covered".
OnlyCoveredLeftOut == link = "up" => AllReceived

\* The strengthening that makes CoveredTopicsReceived inductive: the part of
\* the list the loop has dealt with is received through the list.
ListCovers ==
    PlusNeverOverHash =>
        /\ link = "callback" => \A i \in 1 .. next - 1 :
                                   Received(subscribeTopics[i], topicSet)
        /\ link = "up" => AllReceived

\* The strengthening that makes HandledOnce inductive: the list and the session
\* hold no subscribe topic that a log topic covers.
Needed(f) ==
    \/ f \in logTopics
    \/ /\ \E i \in 1 .. Len(subscribeTopics) : f = subscribeTopics[i]
       /\ ~CoveredByAny(logTopics, f)

ListIsTight ==
    /\ \A f \in topicSet \cup subscribed : Needed(f)
    /\ link = "callback" /\ next # 0 => logTopics \subseteq topicSet
=============================================================================
