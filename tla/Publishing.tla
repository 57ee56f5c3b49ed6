----------------------------- MODULE Publishing -----------------------------
(***************************************************************************)
(* The tools through which Claude Code publishes and reads: handlePublish, *)
(* handleRequest and handleQuery of internal/mcp/server.go up to the call  *)
(* of the MQTT client, and checkTopicAllowed, the policy of the            *)
(* configuration.  Its rule is about where the text of a topic ends or has *)
(* a slash, so topics and prefixes are texts here: sequences of characters.*)
(*                                                                         *)
(* Before it serves, main loads the configuration (internal/config): the   *)
(* file, then the environment over it, then validate.  Of the four fields  *)
(* validate requires, ClientID is followed, which every message carries as *)
(* its From; the others are taken together.                                *)
(*                                                                         *)
(* The handlers share nothing they write: one call is followed.            *)
(***************************************************************************)
EXTENDS SequencesExt, Integers

CONSTANTS
    Characters, \* what topics are written in
    Texts,      \* the topics a call may name; <<>> is a missing argument
    Responses,  \* the response topics it may name
    Policies,   \* values of AllowedPublishPrefixes, as sets of texts
    Defaults,   \* values of ResponseTopicDefault; <<>> when not configured
    ClientIDs   \* values of clientId and MQTT_CLIENT_ID; <<>> when not set

Slash  == "/"
NoText == <<>>
Tools  == {"publish", "request", "query"}

ASSUME PublishingAssumption ==
    /\ NoText \in Texts \cap Responses \cap ClientIDs
    /\ Texts \cup UNION Policies \subseteq Seq(Characters)
    /\ Defaults \subseteq Responses

VARIABLES
    clientID,         \* cfg.ClientID
    policy,           \* cfg.AllowedPublishPrefixes
    responseDefault,  \* cfg.ResponseTopicDefault
    call,             \* the call: its tool, topic and response topic
    step,             \* "load", or "exited" when that failed; of the call:
                      \* "idle", "check", "response", "client" or "refused"
    wire              \* the messages given to the MQTT client to publish

vars == <<clientID, policy, responseDefault, call, step, wire>>
config == <<clientID, policy, responseDefault>>

Call   == [tool : Tools, topic : Texts, response : Responses]
NoCall == [tool |-> "query", topic |-> NoText, response |-> NoText]

TypeOK ==
    /\ clientID \in ClientIDs
    /\ policy \in Policies
    /\ responseDefault \in Defaults
    /\ call \in Call
    /\ step \in {"load", "exited", "idle", "check", "response", "client", "refused"}
    /\ wire \subseteq [from : ClientIDs, topic : Texts \ {NoText}, response : Responses]

-----------------------------------------------------------------------------
(* config.Load.                                                            *)

\* A file that was read and parsed, and the environment: what they say of
\* ClientID, and whether they say all of the other required fields.
Source == [id : ClientIDs, rest : BOOLEAN]

\* An empty variable of the environment does not override.
Overridden(file, env) == IF env.id # NoText THEN env.id ELSE file.id

\* Fault: an agent without a name is let through.
ValidNameless(id, rest) == rest

\* "clientId is required", and so are broker, role and subscribeTopics.
Valid(id, rest) == rest /\ id # NoText

Load(file, env) ==
    /\ step = "load"
    /\ LET id == Overridden(file, env)
       IN  IF Valid(id, file.rest \/ env.rest)
           THEN clientID' = id /\ step' = "idle"
           ELSE step' = "exited" /\ UNCHANGED clientID
    /\ UNCHANGED <<policy, responseDefault, call, wire>>

\* The file cannot be read or parsed; main ends.
LoadFails ==
    /\ step = "load"
    /\ step' = "exited"
    /\ UNCHANGED <<config, call, wire>>

-----------------------------------------------------------------------------
(* checkTopicAllowed.                                                      *)

\* strings.TrimRight(s, "/"): the text up to its last character but "/".
TrimSlashes(s) ==
    LET kept == {i \in 1 .. Len(s) : s[i] # Slash}
    IN  SubSeq(s, 1, IF kept = {} THEN 0 ELSE Max(kept))

\* Faults: no boundary at the "/"; the slashes of the prefix are not stripped.
AllowsAnyEnding(prefix, topic) == IsPrefix(TrimSlashes(prefix), topic)
AllowsUntrimmed(prefix, topic) ==
    topic = prefix \/ IsPrefix(Append(prefix, Slash), topic)

Allows(prefix, topic) ==
    topic = prefix \/ IsPrefix(Append(TrimSlashes(prefix), Slash), topic)

CheckTopicAllowed(topic) == policy = {} \/ \E p \in policy : Allows(p, topic)

-----------------------------------------------------------------------------
(* The handlers.                                                           *)

CallTool(c) ==
    /\ step = "idle"
    /\ call' = c
    /\ step' = "check"
    /\ UNCHANGED <<config, wire>>

\* Fault: a call without a topic is let through.
HasAnyTopic == TRUE

\* "topic is required".
HasTopic == call.topic # NoText

\* The policy does not apply to mqtt_query.
Check ==
    /\ step = "check"
    /\ step' = IF /\ HasTopic
                  /\ call.tool = "query" \/ CheckTopicAllowed(call.topic)
               THEN "response" ELSE "refused"
    /\ UNCHANGED <<config, call, wire>>

Response == IF call.response = NoText THEN responseDefault ELSE call.response

Send ==
    wire' = wire \cup {[from |-> clientID, topic |-> call.topic, response |-> Response]}

\* handlePublish: a message need not have a response topic.
Publish ==
    /\ step = "response"
    /\ call.tool = "publish"
    /\ step' = "client"
    /\ Send
    /\ UNCHANGED <<config, call>>

\* handleRequest: "response_topic is required (or set responseTopicDefault)".
Request ==
    /\ step = "response"
    /\ call.tool = "request"
    /\ IF Response = NoText
       THEN step' = "refused" /\ UNCHANGED wire
       ELSE step' = "client" /\ Send
    /\ UNCHANGED <<config, call>>

\* handleQuery: nothing is published.
Query ==
    /\ step = "response"
    /\ call.tool = "query"
    /\ step' = "client"
    /\ UNCHANGED <<config, call, wire>>

Init ==
    /\ clientID = NoText
    /\ policy \in Policies
    /\ responseDefault \in Defaults
    /\ call = NoCall
    /\ step = "load"
    /\ wire = {}

Next ==
    \/ \E file, env \in Source : Load(file, env)
    \/ LoadFails
    \/ \E c \in Call : CallTool(c)
    \/ Check
    \/ Publish
    \/ Request
    \/ Query

Spec == Init /\ [][Next]_vars

-----------------------------------------------------------------------------
(* What the rule is for: an agent stays in its part of the topic tree,     *)
(* where a topic is a path of levels.                                      *)

\* The levels of the first n characters, from those of one character less.
Extend(levels, c) ==
    IF c = Slash THEN Append(levels, <<>>)
    ELSE [levels EXCEPT ![Len(levels)] = Append(@, c)]

Cut(s) ==
    LET cut[n \in 0 .. Len(s)] ==
            IF n = 0 THEN << <<>> >> ELSE Extend(cut[n - 1], s[n])
    IN  cut

Levels(s) == Cut(s)[Len(s)]

\* Slashes at the end of a prefix do not count: "agents/broadcast/" permits
\* "agents/broadcast/general" (docs/security.md).
IsBelow(topic, prefix) ==
    LET p == Levels(TrimSlashes(prefix))
        t == Levels(topic)
    IN  Len(p) < Len(t) /\ SubSeq(t, 1, Len(p)) = p

WithinPolicy(topic) ==
    policy = {} \/ \E p \in policy : topic = p \/ IsBelow(topic, p)

\* Whatever tools are called, every message the agent publishes stays on a
\* prefix or below one, level by level: "agents/task/vera" does not open
\* "agents/task/veracity" (checkTopicAllowed).
OnlyWithinPolicy == \A m \in wire : WithinPolicy(m.topic)

\* Every message names its sender, whatever the file and the environment say:
\* without From a receiver has no key to refuse a redelivered copy with
\* (isDuplicate), and Who no agent to list.
SenderIsNamed == \A m \in wire : m.from # NoText

\* And a call is refused for a reason only: it names no topic, its topic is
\* outside the policy (a prefix may end in slashes; a query has no policy),
\* or a request has nowhere to wait.
RefusedOnlyOutside ==
    step = "refused" =>
        \/ call.topic = NoText
        \/ call.tool # "query" /\ ~WithinPolicy(call.topic)
        \/ call.tool = "request" /\ Response = NoText
=============================================================================
