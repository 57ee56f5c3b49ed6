-------------------------------- MODULE Calls --------------------------------
(***************************************************************************)
(* Query and Request of internal/mqtt/client.go, called concurrently by    *)
(* the MCP tools mqtt_query, mqtt_who and mqtt_request.  Each call adds a  *)
(* receive handler, subscribes, waits, unsubscribes and removes its        *)
(* handler; all calls share the connection, and the broker keeps one set   *)
(* of subscriptions for the whole session.                                 *)
(*                                                                         *)
(* External: the broker, the peers, and autopaho, which sends packets in   *)
(* order, runs the receive handlers on one goroutine, fails every request  *)
(* while the connection is down, and reconnects to the same session.       *)
(***************************************************************************)
EXTENDS TopicFilter, FiniteSets, SequencesExt

CONSTANTS
    Queries,         \* calls of Query; Who is a Query of agents/presence/#
    Requests,        \* calls of Request
    NoCall,          \* the "from" of a message that answers no request
    FilterOf,        \* the topic of a Query, the responseTopic of a Request
    SubscribeTopics, \* c.permanentTopics, in the order of the configuration
    LogTopics,       \* Log.Topics, or {} with logging off
    RetainedTopics,  \* topics with a retained message (the peers' presence)
    TaskTopics,      \* topics other peers publish to, whatever the calls do
    MaxCalls,        \* bound of the model: calls made
    MaxOverlap,      \* bound of the model: calls under way at a time
    MaxTraffic,      \* bound of the model: messages peers publish unasked
    MaxDrops         \* bound of the model: times the connection breaks

Calls   == Queries \cup Requests
PermanentTopics == Range(SubscribeTopics)
Filters == PermanentTopics \cup LogTopics \cup {FilterOf[c] : c \in Calls}

ASSUME CallsAssumption ==
    /\ Queries \cap Requests = {}
    /\ NoCall \notin Calls
    /\ SubscribeTopics \in Seq(Seq(STRING))
    /\ \A f \in Filters : f \in Seq(STRING) /\ IsFilter(f)
    /\ \A r \in Requests : IsTopic(FilterOf[r])
    /\ IsFiniteSet(RetainedTopics)
    /\ \A t \in RetainedTopics \cup TaskTopics : t \in Seq(STRING) /\ IsTopic(t)
    /\ {MaxCalls, MaxOverlap, MaxTraffic, MaxDrops} \subseteq Nat

VARIABLES
    pc,        \* where each call is
    outcome,   \* what it returned: "none" yet, "ok", "error", or for a Request
               \* "other", a message that does not answer it
    got,       \* a Query's results, the content of a Request's resultCh
    link,      \* "up" or "down"
    drops,     \* times the connection broke
    subs,      \* the broker's entry for each filter
    inbox,     \* messages sent by the broker, the handlers have not seen yet
    asked,     \* requests that reached a peer and wait for its answer
    answered,  \* history: requests a peer has answered
    traffic    \* messages the peers published unasked

vars == <<pc, outcome, got, link, drops, subs, inbox, asked, answered, traffic>>

Message == [topic : RetainedTopics \cup TaskTopics \cup {FilterOf[r] : r \in Requests},
            from : Requests \cup {NoCall}]

Places  == {"idle", "subscribe", "suback", "publish", "puback", "wait",
            "unsubscribe", "remove", "done"}

TypeOK ==
    /\ pc \in [Calls -> Places]
    /\ outcome \in [Calls -> {"none", "ok", "other", "error"}]
    /\ got \in [Calls -> SUBSET Message]
    /\ \A r \in Requests : Cardinality(got[r]) <= 1
    /\ link \in {"up", "down"}
    /\ drops \in 0 .. MaxDrops
    /\ subs \in [Filters -> {"none", "noLocal", "plain"}]
    /\ inbox \in Seq(Message)
    /\ asked \subseteq Requests
    /\ answered \subseteq Requests
    /\ traffic \in 0 .. MaxTraffic

-----------------------------------------------------------------------------
(* The broker.                                                             *)

\* The list OnConnectionUp subscribes to (module Subscribing has its loop step by
\* step): the log topics, then each subscribe topic in turn that what is on the
\* list so far does not cover.
WithTopic(list, t) == IF CoveredByAny(list, t) THEN list ELSE list \cup {t}

ListUpTo[n \in 0 .. Len(SubscribeTopics)] ==
    IF n = 0 THEN LogTopics ELSE WithTopic(ListUpTo[n - 1], SubscribeTopics[n])

SubscribedOnConnect == ListUpTo[Len(SubscribeTopics)]

Active == {f \in Filters : subs[f] # "none"}

Routed(m) == \E f \in Active : Matches(f, m.topic)

\* The retained messages a SUBSCRIBE to f makes the broker send once more.
RetainedFor(f) ==
    SetToSeq({[topic |-> t, from |-> NoCall] : t \in {x \in RetainedTopics : Matches(f, x)}})

\* Two filters of the session may match: the broker sends one copy.
Send(m) == inbox' = IF Routed(m) THEN Append(inbox, m) ELSE inbox

-----------------------------------------------------------------------------
(* The calls.                                                              *)

IsPermanent(c) == IsPermanentTopic(PermanentTopics, FilterOf[c])

\* Fault: a Request relies on the permanent subscriptions alone.
SubscribesForQueries(c) == c \in Queries

\* Fault: a Request subscribes as a Query does.
SubscribesAlways(c) == TRUE

\* A Query always subscribes; a Request only where nothing permanent covers.
Subscribes(c) == c \in Queries \/ ~IsPermanent(c)

\* Faults: permanent topics are unsubscribed too; a Request never unsubscribes.
CleanupAlways(c)    == "unsubscribe"
CleanupOfQueries(c) ==
    IF c \in Queries /\ ~IsPermanent(c) THEN "unsubscribe" ELSE "remove"

\* Once subscribed, the deferred Unsubscribe runs unless the topic is permanent.
Cleanup(c) == IF IsPermanent(c) THEN "remove" ELSE "unsubscribe"

Goto(c, place)  == pc' = [pc EXCEPT ![c] = place]
Return(c, what) == outcome' = [outcome EXCEPT ![c] = what]

\* The flag c.connected is stale after a drop, until an attempt to reconnect
\* fails: with the link down a call may start, or be told "not connected".
Start(c) ==
    /\ pc[c] = "idle"
    /\ Cardinality({d \in Calls : pc[d] # "idle"}) < MaxCalls
    /\ Cardinality({d \in Calls : pc[d] \notin {"idle", "done"}}) < MaxOverlap
    /\ \/ /\ Goto(c, IF Subscribes(c) THEN "subscribe" ELSE "publish")
          /\ UNCHANGED outcome
       \/ /\ link = "down"
          /\ Goto(c, "done")
          /\ Return(c, "error")
    /\ UNCHANGED <<got, link, drops, subs, inbox, asked, answered, traffic>>

\* The broker takes the SUBSCRIBE: it replaces an entry it has, with noLocal
\* off, and sends the retained messages.
SubscribeSend(c) ==
    /\ pc[c] = "subscribe"
    /\ link = "up"
    /\ subs' = [subs EXCEPT ![FilterOf[c]] = "plain"]
    /\ inbox' = inbox \o RetainedFor(FilterOf[c])
    /\ Goto(c, "suback")
    /\ UNCHANGED <<outcome, got, link, drops, asked, answered, traffic>>

\* cm.Subscribe fails: the connection is down, or the SUBACK does not come in
\* time.  The Unsubscribe is not deferred yet.
SubscribeFails(c) ==
    /\ pc[c] = "suback" \/ (pc[c] = "subscribe" /\ link = "down")
    /\ Goto(c, "remove")
    /\ Return(c, "error")
    /\ UNCHANGED <<got, link, drops, subs, inbox, asked, answered, traffic>>

Suback(c) ==
    /\ pc[c] = "suback"
    /\ link = "up"
    /\ Goto(c, IF c \in Queries THEN "wait" ELSE "publish")
    /\ UNCHANGED <<outcome, got, link, drops, subs, inbox, asked, answered, traffic>>

PublishSend(r) ==
    /\ r \in Requests
    /\ pc[r] = "publish"
    /\ link = "up"
    /\ asked' = asked \cup {r}
    /\ Goto(r, "puback")
    /\ UNCHANGED <<outcome, got, link, drops, subs, inbox, answered, traffic>>

\* cm.Publish fails: the connection is down, or the PUBACK does not come.
PublishFails(r) ==
    /\ pc[r] = "puback" \/ (pc[r] = "publish" /\ link = "down")
    /\ Goto(r, Cleanup(r))
    /\ Return(r, "error")
    /\ UNCHANGED <<got, link, drops, subs, inbox, asked, answered, traffic>>

Puback(r) ==
    /\ pc[r] = "puback"
    /\ link = "up"
    /\ Goto(r, "wait")
    /\ UNCHANGED <<outcome, got, link, drops, subs, inbox, asked, answered, traffic>>

\* The timeout of a Query ends it with what it has got.
Collect(q) ==
    /\ q \in Queries
    /\ pc[q] = "wait"
    /\ Goto(q, Cleanup(q))
    /\ Return(q, "ok")
    /\ UNCHANGED <<got, link, drops, subs, inbox, asked, answered, traffic>>

TakeAnswer(r) ==
    /\ r \in Requests
    /\ pc[r] = "wait"
    /\ got[r] # {}
    /\ Goto(r, Cleanup(r))
    /\ Return(r, IF \E m \in got[r] : m.from = r THEN "ok" ELSE "other")
    /\ UNCHANGED <<got, link, drops, subs, inbox, asked, answered, traffic>>

\* Fault: there is no timer, and nothing but an answer ends the wait.
TimeoutOnlyAnswered(r) == TakeAnswer(r)

\* time.After or the cancelled context; the select may prefer it to an answer.
Timeout(r) ==
    /\ r \in Requests
    /\ pc[r] = "wait"
    /\ Goto(r, Cleanup(r))
    /\ Return(r, "error")
    /\ UNCHANGED <<got, link, drops, subs, inbox, asked, answered, traffic>>

\* The error of the deferred Unsubscribe is dropped.
Unsubscribe(c) ==
    /\ pc[c] = "unsubscribe"
    /\ subs' = IF link = "up" THEN [subs EXCEPT ![FilterOf[c]] = "none"] ELSE subs
    /\ Goto(c, "remove")
    /\ UNCHANGED <<outcome, got, link, drops, inbox, asked, answered, traffic>>

\* The handler is gone, and what it has collected with it.
RemoveHandler(c) ==
    /\ pc[c] = "remove"
    /\ got' = [got EXCEPT ![c] = {}]
    /\ Goto(c, "done")
    /\ UNCHANGED <<outcome, link, drops, subs, inbox, asked, answered, traffic>>

CallStep(c) ==
    \/ SubscribeSend(c)
    \/ SubscribeFails(c)
    \/ Suback(c)
    \/ PublishSend(c)
    \/ PublishFails(c)
    \/ Puback(c)
    \/ Collect(c)
    \/ TakeAnswer(c)
    \/ Timeout(c)
    \/ Unsubscribe(c)
    \/ RemoveHandler(c)

-----------------------------------------------------------------------------
(* Messages.                                                               *)

\* Fault: the handler is added only when the subscription is acknowledged.
ListensLate(c) == pc[c] \in {"publish", "puback", "wait"}

\* What the handler collects later on no longer reaches the result.
Listens(c) == pc[c] \in {"subscribe", "suback", "publish", "puback", "wait"}

\* Fault: resultCh takes every message of the topic, not the first only.
KeepsEvery(c, m) ==
    /\ Listens(c)
    /\ IF c \in Queries THEN MqttMatch(FilterOf[c], m.topic)
                        ELSE FilterOf[c] = m.topic

\* Fault: a Request keeps the first message, of whatever topic.
KeepsAnyTopic(c, m) ==
    /\ Listens(c)
    /\ IF c \in Queries THEN MqttMatch(FilterOf[c], m.topic) ELSE got[c] = {}

\* A Query keeps what its filter matches, a Request the first message.
Keeps(c, m) ==
    /\ Listens(c)
    /\ IF c \in Queries THEN MqttMatch(FilterOf[c], m.topic)
                        ELSE FilterOf[c] = m.topic /\ got[c] = {}

Dispatch ==
    /\ link = "up"
    /\ inbox # <<>>
    /\ got' = [c \in Calls |-> IF Keeps(c, Head(inbox)) THEN got[c] \cup {Head(inbox)}
                                                        ELSE got[c]]
    /\ inbox' = Tail(inbox)
    /\ UNCHANGED <<pc, outcome, link, drops, subs, asked, answered, traffic>>

PeerAnswers(r) ==
    /\ r \in asked
    /\ asked' = asked \ {r}
    /\ answered' = answered \cup {r}
    /\ Send([topic |-> FilterOf[r], from |-> r])
    /\ UNCHANGED <<pc, outcome, got, link, drops, subs, traffic>>

PeerPublishes(t) ==
    /\ traffic < MaxTraffic
    /\ traffic' = traffic + 1
    /\ Send([topic |-> t, from |-> NoCall])
    /\ UNCHANGED <<pc, outcome, got, link, drops, subs, asked, answered>>

-----------------------------------------------------------------------------
(* The connection.                                                         *)

LinkDown ==
    /\ link = "up"
    /\ drops < MaxDrops
    /\ link' = "down"
    /\ drops' = drops + 1
    /\ UNCHANGED <<pc, outcome, got, subs, inbox, asked, answered, traffic>>

\* The session resumes with its entries and the messages queued for it, and
\* OnConnectionUp subscribes again, in one step: until it has, a call finds the
\* entries it would find before the drop.  An error is only logged.
LinkUp ==
    /\ link = "down"
    /\ link' = "up"
    /\ \/ subs' = [f \in Filters |-> IF f \in SubscribedOnConnect THEN "noLocal" ELSE subs[f]]
       \/ UNCHANGED subs
    /\ UNCHANGED <<pc, outcome, got, drops, inbox, asked, answered, traffic>>

Init ==
    /\ pc = [c \in Calls |-> "idle"]
    /\ outcome = [c \in Calls |-> "none"]
    /\ got = [c \in Calls |-> {}]
    /\ link = "up"
    /\ drops = 0
    /\ subs = [f \in Filters |-> IF f \in SubscribedOnConnect THEN "noLocal" ELSE "none"]
    /\ inbox = <<>>
    /\ asked = {}
    /\ answered = {}
    /\ traffic = 0

Next ==
    \/ \E c \in Calls : Start(c) \/ CallStep(c)
    \/ Dispatch
    \/ \E r \in Requests : PeerAnswers(r)
    \/ \E t \in TaskTopics : PeerPublishes(t)
    \/ LinkDown
    \/ LinkUp

Spec == Init /\ [][Next]_vars

\* A call that has begun goes on: the packet timeouts and its own end every
\* wait.  Nothing is assumed of the peers or of the link.
FairSpec == Spec /\ \A c \in Calls : WF_vars(CallStep(c))

-----------------------------------------------------------------------------
(* Safety.                                                                 *)

\* Whatever the calls do, messages for the agent still reach it: on every
\* topic a SubscribeTopics filter matches, some entry of the session does
\* ("must never be unsubscribed by Query", client.go).
AgentStaysReachable ==
    \A f \in PermanentTopics, t \in TaskTopics :
        Matches(f, t) => \E g \in Active : Matches(g, t)

\* A Query misses no retained message: its handler is there before the broker
\* can send any, so each is in its results or still on the way.
RetainedCollected ==
    \A q \in Queries, t \in RetainedTopics :
        pc[q] \in {"suback", "wait"} /\ Matches(FilterOf[q], t) =>
            LET m == [topic |-> t, from |-> NoCall]
            IN  m \in got[q] \/ \E i \in 1 .. Len(inbox) : inbox[i] = m

\* A Request misses no answer: subscribed and listening before it publishes,
\* it has a message, or the answer is on the way to its handler.
AnswerNotMissed ==
    \A r \in Requests :
        pc[r] \in {"puback", "wait"} /\ r \in answered =>
            \/ got[r] # {}
            \/ \E i \in 1 .. Len(inbox) : inbox[i] = [topic |-> FilterOf[r], from |-> r]

\* Whenever no call is under way and the link never broke, the session is left
\* with the subscriptions of OnConnectionUp, all of them.  Each other way out of
\* a call takes its own away, a failed publish and a timeout too, but for two: a
\* call that gave up on its SUBACK does not unsubscribe, and a Query for a topic
\* that a permanent one covers leaves it to Connect, which never made it.
NothingLeftBehind ==
    (\A c \in Calls : pc[c] \in {"idle", "done"}) /\ drops = 0 =>
        /\ SubscribedOnConnect \subseteq Active
        /\ \A f \in Active \ SubscribedOnConnect :
               \E c \in Calls :
                  /\ FilterOf[c] = f /\ pc[c] = "done"
                  /\ \/ outcome[c] = "error" /\ c \notin asked \cup answered
                     \/ c \in Queries /\ IsPermanent(c)

\* The agent's own subscriptions lose noLocal, which keeps its own messages
\* from coming back as tasks, only through a Query that names them.
OwnMessagesStayOut ==
    \A f \in SubscribedOnConnect :
        subs[f] = "plain" => \E q \in Queries : FilterOf[q] = f /\ pc[q] # "idle"

\* What mqtt_request's description says: "request/reply in one call".  The
\* handler looks at the topic only.
RequestReturnsItsAnswer == \A r \in Requests : outcome[r] # "other"

\* Seen by the agent, the calls are a Conversation: whatever overlaps, breaks and
\* comes late, a call asks once and before it returns, it returns once, and no
\* Request returns what nobody has said to it.
Talk == INSTANCE Conversation
    WITH ReplyTopic <- FilterOf, OpenTopics <- TaskTopics, NotedTopics <- RetainedTopics,
         begun <- {c \in Calls : pc[c] # "idle"}, sent <- asked \cup answered,
         unasked <- traffic
ImplementsConversation == Talk!Spec

-----------------------------------------------------------------------------
(* Liveness.                                                               *)

\* No call hangs, whatever the peers, the link and the other calls do.
CallsReturn == <>[](\A c \in Calls : pc[c] \in {"idle", "done"})
=============================================================================
