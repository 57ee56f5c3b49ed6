# Verification of mqtt-channel-mcp

TLA+ specifications of the bridge in `src/mqtt-channel-mcp`, which connects one
Claude Code agent to an MQTT broker: an MCP server on stdio
(`internal/mcp/server.go`), an MQTT 5 client (`internal/mqtt/client.go`), and
`main.go`, which wires the two and shuts them down. The modules are checked with
TLC on small instances and the main invariants are proved with TLAPS for every
value of the constants.

File and line references are to the files under `src/`; `client.go`, `server.go`
and `main.go` are those of `mqtt-channel-mcp`.

## The system

| Part | State | Operations | Talks to |
|---|---|---|---|
| Inbound path (`server.go` 37-60, 125-190, 202-244) | `dedupSeen`, `notifyCh`, the goroutines `notifyWorker` and `dedupCleaner` | `HandleMQTTMessage`, `isDuplicate`, the worker's send and pause, the cleaner's tick | called by the MQTT router; pushes notifications to mcp-go |
| Topic matching (`client.go` 519-558) | none | `mqttMatch`, `coveredByAny`, `isPermanentTopic` | used by the two parts below |
| Subscribing on connect (`client.go` 172-201) | `topicSet`, the broker's session | `OnConnectionUp`'s loop and `Subscribe` | autopaho calls it after every CONNACK |
| Calls (`client.go` 308-430, 441-482) | each call's handler and result, the session's subscriptions | `Query`, `Request`, `Who` (a `Query` and what it makes of the results) | called by the tools, concurrently; use the connection |
| Connection and presence (`client.go` 63-281, 560-570; `main.go`) | `c.connected`, `c.cm`, the retained presence, the will | `Connect`, `OnConnectionUp`, `OnConnectError`, heartbeat, `Disconnect`, main's shutdown | autopaho, the broker, stdio, signals |
| Publishing tools (`server.go` 246-388, 436-464) | the configuration | `checkTopicAllowed`, `handlePublish`, `handleRequest`, `handleQuery` | Claude Code; call the MQTT client |
| Status tools (`server.go` 410-434) | none of their own | read `c.connected`, `c.permanentTopics` | |
| Message log (`internal/logger`) | the weekly file, the lock | `Log` | called by router handlers and `Publish`; bridges may share a directory |
| Configuration (`internal/config`) | none after the start | `Load`, `applyEnvOverrides`, `validate` | main, before anything else |
| Example agents (`examples/`) | peers | the join protocol of `topic-schema/SPEC.md` 5.3 | the broker |

What is hard: the handlers of the router, the goroutines of `Start`, the
heartbeat, the callbacks of autopaho's manager and the tool calls all run
concurrently; all of them share one broker session, in which a subscription is
named by its filter and belongs to nobody; the connection may break at any of
their steps; and the team's view of the agent, the retained presence, is changed
by three writers: announcement, heartbeat and the broker, with the will. Bridges
that log to one directory share its files without a lock.

What makes the parts correct:

* Inbound: messages reach Claude Code in order and at most once, duplicates are
  refused within the TTL, the queue and the map stay bounded, and nothing
  queued is stuck.
* Subscribing: what is left out of the list is received all the same, and what
  is asked for once is handled once.
* Calls: no call misses what it waits for, hangs, or takes away or weakens a
  subscription that others need.
* Connection: the retained presence says online only while a will can take it
  back, a crash is seen, the agent comes back online, and it hears when it says
  so. Seen by a peer, `mqtt_who` is right.
* Publishing: the configured prefixes bound what is published, at level
  boundaries, and every message names its sender.
* Log: a file begins with its header, and no entry is lost, doubled or out of
  order.

## The modules

### `Inbound`, and what it implements, `LossyFifo`

`arrivals` counts the calls of `HandleMQTTMessage`; a job in `notifyCh` is the
number of its arrival, so order and repetition are visible. A payload's content
matters only through its dedup key `KeyOf`. `HandleMQTTMessage` has the code's
four outcomes: presence topic, duplicate, full channel, queued; the key is
recorded before the channel is found full, as in the code. `WorkerSend`,
`WorkerWake` and `WorkerStop` are the cases of the worker's two selects (a select
with two ready cases takes either, so a job may be sent after the cancellation).
`CleanerRun` is one tick of `dedupCleaner`.

A time stamp is modelled by its age, saturated past the largest age the code
distinguishes, so time needs no horizon. `Jitter` is how late the cleaner's
goroutine may run. `accepted`, `delivered` and `sinceSend` are history variables.

`LossyFifo` is the promise seen from outside: messages may be lost, but none is
repeated, invented or overtaken. `ImplementsLossyFifo` is the refinement, with
`sent` mapped to `arrivals` and `received` to `delivered`.

### `TopicFilter`

Topics and filters as sequences of levels. `MqttMatch`, `CoveredByAny` and
`IsPermanentTopic` are the code's; `Matches` is the broker's rule, external. The
broker's special rule for topics that start with `$` is left out: no such topic
is configured.

### `Subscribing`

One configuration, chosen at the start, and the life of the connection:
`OnConnectionUp` collects the log topics, then the subscribe topics in their
order unless covered, and subscribes; the subscription may fail (`"deaf"`: the
error is only logged); the connection breaks; the broker may lose the session.
`Receive` is a message on its way through the router: the broker sends one copy,
or one for each subscription that matches (MQTT allows both), and each copy goes
to every handler `Connect` registered, one per subscribe topic and one per log
topic.

### `Calls`, and what it implements, `Conversation`

Any number of concurrent calls of `Query` and `Request`. `pc` walks through the
steps at which a call can be interrupted: handler added, SUBSCRIBE sent, SUBACK,
PUBLISH sent, PUBACK, waiting, deferred `Unsubscribe`, handler removed. `subs` is
the broker's entry for each filter, with the option the last SUBSCRIBE gave it;
`inbox` holds what the broker has sent and the receive handlers have not seen.
`Dispatch` hands one message to all handlers at once, as autopaho's one
goroutine does. Peers answer requests and publish unasked; the link breaks and
comes back with the same session. A message is its topic and, for an answer, the
request it answers.

`SubscribeTopics` is a list, and `SubscribedOnConnect` is what `OnConnectionUp` makes
of it: the log topics, then each subscribe topic in turn (`ListUpTo`, `WithTopic`)
that nothing on the list so far covers, an earlier subscribe topic included.

`SubscribeFails` and `PublishFails` also happen with the link up, when the SUBACK
or PUBACK does not come in the call's time; after the former nothing is
unsubscribed. `Unsubscribe` with the link down changes nothing, as in the code. `LinkUp`
is the CONNACK with `OnConnectionUp`'s SUBSCRIBE, which may fail; until it has
come, the session has the entries it had. `PublishSend` stands for the PUBLISH with
whatever retransmission MQTT adds to it.

`Conversation` is what a call promises, without subscriptions, handlers or a
connection: a call asks at most once, before it returns, and returns once; "ok"
only when its request was answered, "other" only where a retained message, an
unasked one or the answer to another request was on its reply topic.
`ImplementsConversation` is the refinement: a call is `begun` when it has left
"idle", and the requests `sent` are those that wait for a peer's answer or have it.

### `Connection`, and what it implements, `Presence`

The manager's phases (dialling, the steps of `OnConnectionUp`, serving), the
flag `c.connected`, the heartbeat between its read of the flag and its publish,
main's three ways to end (signal, error of `ServeStdio`, end of stdin), and at
the broker the will, the retained presence and whether the session holds the
agent's subscriptions (`session`). A broken connection stays "broken" until the
broker notices and publishes the will, or a new connection takes it over. The
first connection of the process starts a clean session; a later one resumes the
session unless the broker lost it.

`HeartbeatPublish` and `Announce` may fail over a connection that works, too: the
code only logs it.

`Presence` is what the team may rely on when it reads the retained message:
"online" appears only while a connection backs it, and in the step in which the
backing is lost the presence becomes "offline". The one other way to lose the
backing is `SayGoodbye`, which leaves the presence as it is: only an agent that was
told to end says it, and after it this agent does not connect or appear again. The
refinement maps `told` to main's cancelled context and `left` to a last connection
that ended with DISCONNECT. So neither a connection without a will implements
`Presence`, nor one whose will leaves "online" standing or removes the message, nor
a DISCONNECT by a process that goes on.

### `Discovery`

Composes two bridges: one lives the life of `Connection`, and a peer calls
`mqtt_who`. `AgentStep` is any step of `Connection` together with what the broker
passes on to the peer; the other actions are the peer's `Query` of
`agents/presence/#` (handler, SUBSCRIBE, SUBACK, window) and `Who`, which makes an
entry of each payload that says "online". `vouched` is history: whether since the
SUBSCRIBE there was a moment at which the agent was rightly shown online.

### `MessageLog`

`Log` of several goroutines in several processes that share a directory. `pc` has
the points between which another process may write: lock taken and time read,
file opened and its size read, header written, entry written. Every exit of the
function releases the lock. A file is a sequence of blocks; a write appends one
(`O_APPEND`). The environment lets time pass, the week change, a process be killed
and started again, and each call of the file system fail.

### `Publishing`

`config.Load`, then `checkTopicAllowed` and the handlers that use it, one call at
a time: they write nothing they share. `Load` follows `ClientID` from the file and
the environment through `validate` to the `From` of each message, and takes the
other required fields together. The rule of the policy is about characters, so
topics are texts here. The reference definition is `Levels`, a recursive function
that takes a text apart one character at a time: each extends the last level, and
each slash begins a new one. `IsBelow` compares paths of levels and knows nothing of
beginnings of texts. That the slashes at the end of a prefix do not count it shares
with the check (`TrimSlashes`); `docs/security.md` 134 says the same.

### Which definition is which code

`PROJECT.json` maps every definition that models code to its lines. Definitions
commented "Fault" are variants of a definition that follows them, with a
plausible bug; each shows that one property can fail. They are no part of `Next`.

## The runs

| Run | Module, config | Checks | States |
|---|---|---|---|
| `inbound` | `MCInbound` | `TypeOK`, `InOrder`, `NoStaleKey`, `NoRepeatWithinTTL`, `Paced`, `ImplementsLossyFifo`, `QueuedIsDelivered`, `ShutdownCompletes` | 322 thousand |
| `inbound_retention` | `MCInboundRetention` | finds `RefusedOnlyWithinTTL` violated | |
| `subscribing` | `MCSubscribing` | `TypeOK`, `CoveredTopicsReceived`, `HandledOnce` | 8202 |
| `subscribing_plus` | `MCSubscribingPlus` | finds `OnlyCoveredLeftOut` violated | |
| `calls` | `MCCalls` | `TypeOK`, `AgentStaysReachable`, `RetainedCollected`, `AnswerNotMissed`, `NothingLeftBehind`, `OwnMessagesStayOut`, `ImplementsConversation`, `CallsReturn` | 464 thousand |
| `calls_deaf` | `MCCallsDeaf` | finds `AgentStaysReachable` violated | |
| `calls_crossed` | `MCCallsCrossed` | finds `RequestReturnsItsAnswer` violated | |
| `connection` | `Discovery`, `MCDiscovery` | `TypeOK`, `OnlineHasWill`, `AnnouncedHears`, `DiscoveryTypeOK`, `WhoKeepsUp`, `WhoIsRight`, `ListedIsVouched`, `ImplementsPresence`, `CrashIsSeen`, `ComesOnline`, `StatusSettles` | 563 thousand |
| `connection_goodbye` | `Connection`, `MCConnectionGoodbye` | finds `PresenceEndsWithProcess` violated | |
| `connection_stdio` | `Connection`, `MCConnectionStdio` | finds `StdioCloseShutsDown` violated | |
| `publishing` | `MCPublishing` | `TypeOK`, `OnlyWithinPolicy`, `SenderIsNamed`, `RefusedOnlyOutside` | 292 thousand |
| `log` | `MCMessageLog` | `TypeOK`, `HeaderFirst`, `HeaderOnce`, `Chronological`, `EntryKept`, `LogReturns` | 258 thousand |

A run that finds a property violated checks what a comment, a doc or a
description in the repository says; what it shows is told below.

### Bounds, and why they are enough

* `inbound`: two keys, one of them shared by two payloads, a payload without a
  key and one on a presence topic; a channel of two and three arrivals, so the
  channel overflows; a TTL of two ticks, a period of three and a lateness of one,
  so a key can be within its TTL, beyond it and not yet cleaned, or cleaned.
  The proofs cover all other values.
* `subscribing`: every list of one or two subscribe topics over five filters,
  in both orders, with four log configurations. A topic is left out because of
  one other filter, so two suffice; the proofs cover every size.
* `calls`: four calls, one of each kind: `mqtt_who`; a query of a permanent topic;
  a request on the permanent topic; a request on a topic of its own. Any three are
  made (`MaxCalls`), of which any two may overlap (`MaxOverlap`), in any order: each
  kind runs beside, before and after each other, and two that overlap run before
  and after a third; what a call can do to others, it does to one at a time. Of three
  subscribe topics the last is left out of the list, because the second covers it,
  and peers publish on it and on the task topic. One drop
  may hit any step, and one unasked message (`MaxTraffic`) may end the request on
  the task topic. The proofs cover any number of calls, drops and messages.
* `connection`: two breaks allow a break during the recovery from a break; all
  three presence messages a former process may have left; two presence messages
  during the Query (`MaxUpdates`) allow one that repeats and one that differs.
* `log`: two processes, one with two goroutines, so that a header races a header
  and an entry an entry; three calls, a week that ends, one crash.
* `publishing`: all topics of up to four characters over the slash and two
  letters, all prefixes of up to three: with and without leading, trailing and
  double slashes, and the empty prefix. Each of file and environment may or may
  not have a client id and the other fields.

Deadlock is checked in `inbound` and `subscribing`. It is off where the system
really stops: `Calls` when all calls are over, `Publishing` when its call is, and
`Connection` when the process has ended; `MessageLog` stops at the bounds.

### Fairness

* `Inbound`: weak fairness of the worker, the cleaner and the clock: the Go
  scheduler runs a goroutine that stays ready. None for arrivals, the
  cancellation or the client's handshake, which may never come.
* `Calls`: weak fairness of each call's own steps: packet timeouts, the query's
  timeout and `time.After` end every wait. Nothing is assumed of peers or link.
* `Connection`: weak fairness of the callbacks, the heartbeat, the manager's
  stop, main's exit, and of an attempt to connect to end one way or the other;
  the broker notices a dead connection (KeepAlive is 30 s). Strong fairness of a
  heartbeat's publish that succeeds (`HeartbeatArrives`): over a connection that
  works, the broker does not refuse every heartbeat. That is an assumption on the
  broker, which `ComesOnline` needs, since the code only logs the error
  (`client.go` 269-271). A connection need never succeed, and the network may break. `Discovery` adds weak fairness of
  the peer's `mqtt_who`, whose timeout ends it.
* `MessageLog`: strong fairness of each goroutine in `Log`: a Go mutex starves no
  waiter, though others may take it again and again in between.

### What the violated properties show

* `RefusedOnlyWithinTTL`: `isDuplicate` never looks at the stored time; a key
  refuses messages until the cleaner's next tick, up to 500 ms longer than the
  200 ms that `server.go` 41 and 132-133 name. `NoStaleKey` is the true bound.
* `OnlyCoveredLeftOut`: `mqttMatch` on two filters lets `+` match `#`, so the log
  topic `agents/task/+` hides the subscribe topic `agents/task/#`
  (`client.go` 189, against the comment in 180-181).
* `AgentStaysReachable` in `calls_deaf`: with `agents/#` logged, `mqtt_query` of
  `agents/#` unsubscribes the filter that carries the agent's tasks
  (`client.go` 353, against the comment in 35).
* `RequestReturnsItsAnswer`: two requests on the default response topic; one
  returns the other's answer (`client.go` 379; `server.go` 87 and
  `topic-schema/SPEC.md` 41 speak of matching).
* `PresenceEndsWithProcess`: an orderly shutdown discards the will and leaves
  the presence online (`main.go` 77, against `client.go` 118).
* `StdioCloseShutsDown`: at the end of stdin `ServeStdio` returns nil and nothing
  cancels the context (`main.go` 62, against the comment in 68).

One more disagreement needs no run: `config.go` 36 says that
`AllowedPublishPrefixes` restricts `mqtt_query`; `server.go` 446 says that it does
not, and the code does what the latter says.

## The proofs

| Module | Theorem | Statement |
|---|---|---|
| `InboundProofs` | `TypeCorrect`, `Ordered`, `KeysExpire`, `RepeatsAreRefused`, `SendsArePaced`, `Refinement` | `Inbound` satisfies `TypeOK`, `InOrder`, `NoStaleKey`, `NoRepeatWithinTTL`, `Paced` and implements `LossyFifo` |
| `TopicFilterProofs` | `MatchIsTheBrokersRule`, `CoverIsSound` | `mqttMatch` is the broker's rule on topics; on filters it is sound but for `+` over `#` |
| `SubscribingProofs` | `SubscribingTypes`, `CoveredTopicsAreReceived`, `NoDoubleDelivery` | `Subscribing` satisfies `TypeOK`, `CoveredTopicsReceived` and `HandledOnce` |
| `CallsProofs` | `CallsTypes`, `RetainedIsCollected`, `OwnMessagesAreKeptOut`, `AnswersAreNotMissed`, `SessionIsLeftClean`, `AgentIsNotDeafened`, `ConversationIsImplemented`, `OwnTopicOwnAnswer` | `Calls` implements `Conversation` and satisfies `TypeOK`, `RetainedCollected`, `OwnMessagesStayOut`, `AnswerNotMissed`, `NothingLeftBehind`, `AgentStaysReachable` and `RequestReturnsItsAnswer`, some under the conditions below |
| `ConnectionProofs` | `ConnectionTypes`, `OnlineIsBacked`, `AnnouncedAgentHears`, `PresenceIsImplemented` | `Connection` satisfies `TypeOK`, `OnlineHasWill`, `AnnouncedHears` and implements `Presence` |
| `DiscoveryProofs` | `DiscoveryTypes`, `WhoIsKeptUp`, `WhoTellsTheTruth`, `WhoListsNoGhost` | `Discovery` satisfies `DiscoveryTypeOK`, `WhoKeepsUp`, `WhoIsRight` and `ListedIsVouched` |
| `MessageLogProofs` | `LogTypes`, `FilesBeginWithHeader`, `OneHeaderPerProcess`, `TimesAreOrdered`, `EveryCallIsLogged` | `MessageLog` satisfies `TypeOK`, `HeaderFirst`, `HeaderOnce`, `Chronological` and `EntryKept` |
| `PublishingProofs` | `PublishingTypes`, `SendersAreNamed`, `PrefixesAreLevels`, `CheckIsPolicy`, `PublishesWithinPolicy`, `RefusesWithReason` | `checkTopicAllowed` is the rule about levels, for texts of any length; `Publishing` satisfies `TypeOK`, `SenderIsNamed`, `OnlyWithinPolicy` and `RefusedOnlyOutside` |

They assume only the named assumptions on the constants, one per module
(`InboundAssumption` and so on), and the conditions on the configuration that a
theorem of `CallsProofs` states itself:

* `LogTopicsAreLeft`, that no call names a log topic (`AgentIsNotDeafened`,
  `OwnMessagesAreKeptOut`, `AnswersAreNotMissed`, `SessionIsLeftClean`);
  `calls_deaf` is the counterexample without it;
* `NoPlusOverHash`, that no log or subscribe topic has a `+` where a subscribe topic
  ends in `#` (`AgentIsNotDeafened`, `AnswersAreNotMissed`); `subscribing_plus` shows
  why. Subscribe topics may overlap otherwise, in any order;
* `TopicsAreOwn`, that two calls that share a topic name a permanent one
  (`AnswersAreNotMissed`): the first of two calls to end unsubscribes the topic of
  both, and the other waits for its timeout;
* `RepliesAreOwn`, that no two requests share a reply topic, not even one after the
  other, and that nobody else speaks there (`OwnTopicOwnAnswer`): what a caller has
  to see to for "request/reply in one call" to be true; `calls_crossed` is the
  counterexample without it.

The arguments:

* **Inbound.** `InOrder` is inductive with `TypeOK`. `NoStaleKey` needs `KeyLife`:
  the age a key has now plus the time to the next tick of the cleaner never
  exceeds TTL plus period; every step of the clock leaves the sum alone, and the
  cleaner's run restores it. `NoRepeatWithinTTL` needs `RecentIsSeen`: a key
  whose last job is younger than the TTL is in the map with the same age, since
  the cleaner deletes only older ones. `Paced` needs `PauseLeft`: time since the
  last send and time left of the pause add up to the interval. The refinement
  maps `Enqueue` and the drops to `Arrive`, `WorkerSend` to `Deliver` of the head
  (newer than all delivered, by `InOrder`) and every other step to a stutter.
* **TopicFilter.** Both by cases on whether the filter ends in `#`; the cover
  theorem by comparing the filters level by level.
* **Subscribing.** `ListCovers` strengthens `CoveredTopicsReceived` with what the
  loop has done so far: the part of the configuration already looked at is
  received through the list. A step of the loop keeps it by `CoverIsSound`.
  `HandledOnce` needs the converse, `ListIsTight`: what is on the list is a log
  topic or a subscribe topic that none covers. So one filter of the list matches
  a topic that was asked for once (`OneFilterMatches`), and one copy arrives.
* **Calls.** `ConnectSubsStay`: the broker keeps every entry `OnConnectionUp` made,
  and a call for a permanent topic never reaches its `Unsubscribe`. `ConnectListCovers`:
  every subscribe topic is on the list, or something on it covers it; by induction
  over the subscribe topics in their order, with `SetInduction` as in `Publishing`
  below (`ListIsDefined` is that the recursive function is what its definition says).
  Reachability follows by `CoverIsSound`. `CallsInStep` says where a call can be and what has
  been sent by then. With it `RetainedCollected` holds, because the handler is
  there before the SUBSCRIBE, and `AnswerNotMissed`, because the subscription
  (`RequestsSubscribed`) and the handler are there before the PUBLISH, and a
  message on its way stays on its way until it is dispatched (`Pending`).
  `NothingLeftBehind` needs `ExtrasHaveOwners`: an entry that is not
  `OnConnectionUp`'s belongs to a call that has still to remove it, that gave up on its
  SUBACK, or to a query of a permanent topic. The refinement
  needs `HeardWasSaid`: every message on its way or kept by a handler has been said,
  and a Request keeps only what is said on its topic; `RequestsInStep`: a call that
  waits for its answer has asked; and `CallsInStep`: one that has not asked yet, no
  peer knows of. It takes no condition on the configuration. `OwnTopicOwnAnswer`
  follows from `HeardWasSaid`.
* **Connection.** A connection that works has its will (`WorkingHasWill`), and
  "online" is published only over a connection that works; the will goes only
  with DISCONNECT or with the "offline" it stands for. The refinement maps a
  published "online" to `Appear`, the broker's will to `Vanish`, a connection that
  takes over one with a will to `Takeover`, main's cancellation to `Tell`, the
  DISCONNECT of `StopManager` to `SayGoodbye`, and the rest to stutters.
* **Discovery.** Every behaviour of the pair is one of `Connection`
  (`PairIsConnection`), whose theorems hold of it. `InStep` says what the Query
  has and what is on its way: the presence the SUBSCRIBE found, then what was
  published since, so its last element is the retained presence. `AllVouched`
  carries `OnlineHasWill` from the moment of publishing to the list.
* **MessageLog.** `Exclusive` (the lock), then `HeaderBeforeEntry`: who is about to
  write an entry has seen the file with a header; who is about to write a header
  has not written one. Other processes only append. `NotFromTheFuture` orders the
  times, because a time is read under the lock it is written under. `EntryKept`
  counts, and a count is not inductive: `OneEntryEach` says which set of entries a
  call has (none, or one that `WriteAddsEntry` puts behind all others), and
  `JobsAreOwn` that no two callers serve the same call.
* **Publishing.** `ServedInOrder`: past `Load` there is a client id. The policy rests
  on `PrefixesAreLevels`, an induction over the characters of a text. The library's
  induction takes a predicate, which the provers cannot instantiate; here the
  induction is about a set of numbers (`SetInduction`), and rests on the least
  element every such set has. With it the recursive function `Cut` is what its
  definition says (`CutIsDefined`), the levels so far depend on the characters so far
  (`CutsOfPrefix`), a slash closes a level for good (`SlashEndsLevel`), nothing else
  does (`LevelsEndAtSlash`), and from its levels a text can be read back
  (`CutIsInjective`). The first two of these carry a prefix of the text over to its
  levels, the others back. Then `PolicyIsKept` is inductive: what is past the check
  is within the policy, and so is all that was published.

Some properties say less than their name may suggest. `AnnouncedHears` counts a
subscription that was refused on this connection as made: the code announces the
agent all the same. `NothingLeftBehind` is about links that never broke, and excepts
a call that gave up on its SUBACK and a query of a permanent topic. `HandledOnce` is
about topics that just one subscribe topic matches and at most one log topic. `HeaderOnce` is
about the headers of one process: two bridges may write two. No property forbids the
loss of a message that the code chooses to lose: to a full channel, to a key that two
messages share, or before the client's handshake.

Only model-checked are the liveness properties (`QueuedIsDelivered`,
`ShutdownCompletes`, `CallsReturn`, `CrashIsSeen`, `ComesOnline`, `StatusSettles`,
`LogReturns`): the proof system has no rules for fairness. Every safety property of
the runs that pass is proved.

## Not modelled

* The clamps of qos and timeout (`server.go` 283-286, 345-348, 447-450), and the fields
  of the message envelope other than sender, topic and response topic; the
  layout of a log entry and the truncation of its payload.
* Of the presence payload everything but its status: role, capabilities, and the
  time from which `Who` computes how long the agent has been there; and the empty
  payload by which someone may remove a retained message.
* A call whose context ends while the link is up fails in its waits, but its
  `Unsubscribe` does not fail in the model; in the code it does, the error is dropped
  (`client.go` 354, 400), and the entry stays in the session, as it does after a drop.
* The ignored error of `Stat` at `logger.go` 70, after which the code would panic;
  of it there is only `Crash`, which may hit any step of `Log`.
* Malformed filters, such as the empty one that a trailing comma in
  `MQTT_SUBSCRIBE_TOPICS` makes: what a broker does with such a SUBSCRIBE is its own.
* TLS and authentication; MQTT's own packet exchange, which belongs to paho: among
  it the retransmission of a PUBLISH whose PUBACK was lost, of which a peer may see
  two copies.
* `mqtt_subscriptions`, and the data race on `c.permanentTopics` at the start, which
  only that tool can see.
* The example agents and the end-to-end scripts.

## Plan

What would add most from here:

1. A composition of a publishing peer (`handlePublish` with its millisecond time
   stamp), the broker's at-least-once delivery and `Inbound`: what reaches Claude
   Code of what was published, and what a refused retry costs.
2. `Team`: several bridges with `Subscribing`, `Connection` and the join protocol of
   `SPEC.md` 5.3: any two agents that have joined see each other.
