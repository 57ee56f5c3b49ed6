------------------------------ MODULE Connection ------------------------------
(***************************************************************************)
(* The life of the bridge's MQTT connection: Connect, OnConnectionUp,      *)
(* OnConnectError, the heartbeat and Disconnect of internal/mqtt/client.go *)
(* and the shutdown of main.go, with the retained presence message that    *)
(* tells the team whether this agent is online.                            *)
(*                                                                         *)
(* External: the broker; the network; autopaho's manager, which dials      *)
(* until it has a CONNACK, calls OnConnectionUp and waits for it, serves   *)
(* until it notices a broken connection, and sends DISCONNECT when its     *)
(* context ends; mcp-go's ServeStdio, which returns nil at end of input.   *)
(***************************************************************************)
EXTENDS Integers

CONSTANTS
    LeftPresence,  \* the presence messages a former process may have left
    MaxDrops       \* bound of the model: times the network breaks

ASSUME ConnectionAssumption ==
    /\ LeftPresence \subseteq {"none", "online", "offline"}
    /\ MaxDrops \in Nat

VARIABLES
    manager,    \* "dial", OnConnectionUp's "flag", "subscribe", "announce",
                \* then "serve"; at the end "stopped"
    net,        \* this client's connection: "none", "ok" or "broken"
    drops,      \* times the network broke
    will,       \* the broker holds the will of a connection
    presence,   \* the retained presence message: "none", "online", "offline"
    connected,  \* c.connected
    cmSet,      \* c.cm is set
    heartbeat,  \* its goroutine: "off", "idle", "publish" or "stopped"
    stdio,      \* ServeStdio: "open", "failed" or "eof"
    cancelled,  \* main's context
    proc,       \* "running", "exited" (main returned) or "crashed"
    session,    \* the session's subscriptions: "none", "held", or "failed"
                \* when the last attempt to make them did
    goodbye     \* history: the last connection ended with DISCONNECT

vars == <<manager, net, drops, will, presence, connected, cmSet, heartbeat,
          stdio, cancelled, proc, session, goodbye>>
client == <<connected, cmSet, heartbeat>>
main   == <<stdio, cancelled, proc>>
broker == <<will, presence, session, goodbye>>

TypeOK ==
    /\ manager \in {"dial", "flag", "subscribe", "announce", "serve", "stopped"}
    /\ net \in {"none", "ok", "broken"}
    /\ drops \in 0 .. MaxDrops
    /\ will \in BOOLEAN
    /\ presence \in {"none", "online", "offline"}
    /\ connected \in BOOLEAN
    /\ cmSet \in BOOLEAN
    /\ heartbeat \in {"off", "idle", "publish", "stopped"}
    /\ stdio \in {"open", "failed", "eof"}
    /\ cancelled \in BOOLEAN
    /\ proc \in {"running", "exited", "crashed"}
    /\ session \in {"none", "held", "failed"}
    /\ goodbye \in BOOLEAN

Running == proc = "running"

-----------------------------------------------------------------------------
(* What Connect puts together before it dials.                             *)

\* Fault: a status of its own in the heartbeat's payload.
PresenceAlive   == "alive"
PresencePayload == "online"

\* Faults: the CONNECT carries no will; the will is not retained, so the
\* former presence message stays; its payload is empty, which removes it.
CarriesNoWill == FALSE
WillTransient == presence
WillEmpty     == "none"

CarriesWill == TRUE
WillPayload == "offline"

\* What a broken or superseded connection leaves as presence.
AfterWill == IF will THEN WillPayload ELSE presence

-----------------------------------------------------------------------------
(* The manager and its callbacks.                                          *)

\* A new connection takes over one the broker still believes in: its will is
\* published first.  The first one starts a clean session, a later one resumes
\* the session the broker has.
Connack ==
    /\ Running
    /\ manager = "dial"
    /\ ~cancelled
    /\ manager' = "flag"
    /\ net' = "ok"
    /\ will' = CarriesWill
    /\ presence' = AfterWill
    /\ session' = IF session = "held" THEN "held" ELSE "none"
    /\ goodbye' = FALSE
    /\ UNCHANGED <<drops, client, main>>

\* Fault: the flag is left as it is.
FlagKept == connected

FlagAfterFailure == FALSE

\* OnConnectError: the only place that clears the flag.
DialFails ==
    /\ Running
    /\ manager = "dial"
    /\ ~cancelled
    /\ connected' = FlagAfterFailure
    /\ UNCHANGED <<manager, net, drops, cmSet, heartbeat, main, broker>>

SetConnected ==
    /\ Running
    /\ manager = "flag"
    /\ connected' = TRUE
    /\ manager' = "subscribe"
    /\ UNCHANGED <<net, drops, cmSet, heartbeat, main, broker>>

\* Fault: a reconnect relies on what the session holds.
SubscribedOnce == IF drops > 0 THEN session ELSE "held"

Subscribed == "held"

\* The subscription may fail or use up the ten seconds; both are only logged,
\* and what the session holds stays.
Subscribe ==
    /\ Running
    /\ manager = "subscribe"
    /\ manager' = "announce"
    /\ \/ net = "ok" /\ session' = Subscribed
       \/ session' = IF session = "held" THEN "held" ELSE "failed"
    /\ UNCHANGED <<net, drops, will, presence, goodbye, client, main>>

\* The announcement uses the same ten seconds.
Announce ==
    /\ Running
    /\ manager = "announce"
    /\ manager' = "serve"
    /\ \/ presence' = IF net = "ok" THEN PresencePayload ELSE presence
       \/ UNCHANGED presence
    /\ UNCHANGED <<net, drops, will, session, goodbye, client, main>>

\* No callback tells the client: c.connected stays set.
ConnectionDown ==
    /\ Running
    /\ manager = "serve"
    /\ net = "broken"
    /\ manager' = "dial"
    /\ UNCHANGED <<net, drops, client, main, broker>>

\* On a working connection the manager says DISCONNECT, which discards the
\* will; nothing publishes "offline" instead.
StopManager ==
    /\ Running
    /\ cancelled
    /\ manager \in {"dial", "serve"}
    /\ manager' = "stopped"
    /\ IF net = "ok"
       THEN net' = "none" /\ will' = FALSE /\ goodbye' = TRUE
       ELSE UNCHANGED <<net, will, goodbye>>
    /\ UNCHANGED <<drops, presence, session, client, main>>

-----------------------------------------------------------------------------
(* Connect after NewConnection, which has started the manager.             *)

SetCM ==
    /\ Running
    /\ ~cmSet
    /\ cmSet' = TRUE
    /\ UNCHANGED <<manager, net, drops, connected, heartbeat, main, broker>>

\* AwaitConnection has returned.
StartHeartbeat ==
    /\ Running
    /\ cmSet
    /\ heartbeat = "off"
    /\ manager \in {"flag", "subscribe", "announce", "serve"}
    /\ heartbeat' = "idle"
    /\ UNCHANGED <<manager, net, drops, connected, cmSet, main, broker>>

\* Fault: the goroutine ends where it should wait for the next tick.
SkippedTickEnds == "stopped"
SkippedTick     == "idle"

\* The flag is read under the lock, the publish comes after the unlock.
HeartbeatTick ==
    /\ Running
    /\ heartbeat = "idle"
    /\ heartbeat' = IF connected /\ cmSet THEN "publish" ELSE SkippedTick
    /\ UNCHANGED <<manager, net, drops, connected, cmSet, main, broker>>

\* Over a connection that works it may fail too, at its five seconds; the error
\* is only logged.
HeartbeatPublish ==
    /\ Running
    /\ heartbeat = "publish"
    /\ \/ presence' = IF net = "ok" THEN PresencePayload ELSE presence
       \/ UNCHANGED presence
    /\ heartbeat' = "idle"
    /\ UNCHANGED <<manager, net, drops, will, session, goodbye, connected, cmSet, main>>

HeartbeatStop ==
    /\ Running
    /\ heartbeat = "idle"
    /\ cancelled
    /\ heartbeat' = "stopped"
    /\ UNCHANGED <<manager, net, drops, connected, cmSet, main, broker>>

-----------------------------------------------------------------------------
(* main.                                                                   *)

Signal ==
    /\ Running
    /\ ~cancelled
    /\ cancelled' = TRUE
    /\ UNCHANGED <<manager, net, drops, stdio, proc, client, broker>>

\* ServeStdio returns an error.
StdioFails ==
    /\ Running
    /\ stdio = "open"
    /\ stdio' = "failed"
    /\ cancelled' = TRUE
    /\ UNCHANGED <<manager, net, drops, proc, client, broker>>

\* ServeStdio returns nil, and its goroutine ends without a cancel().
StdioEnds ==
    /\ Running
    /\ stdio = "open"
    /\ stdio' = "eof"
    /\ UNCHANGED <<manager, net, drops, cancelled, proc, client, broker>>

\* A process that is gone has its connection closed by the kernel.
Closed == IF net = "ok" THEN "broken" ELSE net

\* Disconnect waits for the manager or for the context, which is cancelled
\* already: main may return before the manager has stopped.
Exit ==
    /\ Running
    /\ cancelled
    /\ proc' = "exited"
    /\ net' = Closed
    /\ UNCHANGED <<manager, drops, stdio, cancelled, client, broker>>

-----------------------------------------------------------------------------
(* The environment.                                                        *)

Crash ==
    /\ Running
    /\ ~cancelled
    /\ proc' = "crashed"
    /\ net' = Closed
    /\ UNCHANGED <<manager, drops, stdio, cancelled, client, broker>>

NetworkBreaks ==
    /\ net = "ok"
    /\ drops < MaxDrops
    /\ net' = "broken"
    /\ drops' = drops + 1
    /\ UNCHANGED <<manager, client, main, broker>>

\* The broker closes a silent connection and publishes its will.
BrokerNotices ==
    /\ net = "broken"
    /\ will
    /\ will' = FALSE
    /\ presence' = AfterWill
    /\ UNCHANGED <<manager, net, drops, session, goodbye, client, main>>

\* The session expires or the broker restarts without its store.
SessionLost ==
    /\ net # "ok"
    /\ session = "held"
    /\ session' = "none"
    /\ UNCHANGED <<manager, net, drops, will, presence, goodbye, client, main>>

Init ==
    /\ manager = "dial"
    /\ net = "none"
    /\ drops = 0
    /\ will = FALSE
    /\ presence \in LeftPresence
    /\ connected = FALSE
    /\ cmSet = FALSE
    /\ heartbeat = "off"
    /\ stdio = "open"
    /\ cancelled = FALSE
    /\ proc = "running"
    /\ session = "none"
    /\ goodbye = (presence = "online")

Callback == SetConnected \/ Subscribe \/ Announce
Heartbeat == StartHeartbeat \/ HeartbeatTick \/ HeartbeatPublish

Next ==
    \/ Connack
    \/ DialFails
    \/ Callback
    \/ ConnectionDown
    \/ StopManager
    \/ SetCM
    \/ Heartbeat
    \/ HeartbeatStop
    \/ Signal
    \/ StdioFails
    \/ StdioEnds
    \/ Exit
    \/ Crash
    \/ NetworkBreaks
    \/ BrokerNotices
    \/ SessionLost

Spec == Init /\ [][Next]_vars

HeartbeatArrives == HeartbeatPublish /\ net = "ok" /\ presence' = PresencePayload

\* Goroutines that can go on do; an attempt to connect ends, one way or the
\* other; the broker notices a dead connection (KeepAlive is 30 s), and over one
\* that works it does not refuse every heartbeat.  Nothing is assumed of the
\* network.
Fairness ==
    /\ WF_vars(DialFails)
    /\ WF_vars(Callback)
    /\ WF_vars(ConnectionDown)
    /\ WF_vars(StopManager)
    /\ WF_vars(SetCM)
    /\ WF_vars(StartHeartbeat)
    /\ WF_vars(HeartbeatTick)
    /\ WF_vars(HeartbeatPublish)
    /\ SF_vars(HeartbeatArrives)
    /\ WF_vars(HeartbeatStop)
    /\ WF_vars(Exit)
    /\ WF_vars(BrokerNotices)

FairSpec == Spec /\ Fairness

-----------------------------------------------------------------------------
(* Safety.                                                                 *)

\* While the team sees the agent online, the broker holds a will that takes
\* it back, unless DISCONNECT has discarded it: no heartbeat or announcement
\* slips in after the will was published.
OnlineHasWill == presence = "online" => will \/ goodbye

\* Why: a connection that works still has its will.
WorkingHasWill == net = "ok" => will

\* Seen by the team, the bridge is an agent that follows Presence: "online"
\* appears only over a backed connection, whichever of OnConnectionUp and the
\* heartbeat publishes it; when the broker gives up the will, the agent is shown
\* as offline, not as unknown, unless DISCONNECT discarded the will; and
\* DISCONNECT comes only from a process whose context was cancelled, which does
\* not appear again.
Agent == INSTANCE Presence
    WITH shown <- presence, backed <- will, told <- cancelled, left <- goodbye
ImplementsPresence == Agent!Spec

\* When OnConnectionUp announces the agent, the broker holds its subscriptions
\* or refused them on this connection: not even a session lost while the
\* connection was broken leaves an announced agent deaf.
AnnouncedHears ==
    manager \in {"announce", "serve"} /\ net = "ok" => session # "none"

-----------------------------------------------------------------------------
(* Liveness.                                                               *)

\* "On unexpected disconnect (crash, network failure), the broker updates the
\* presence automatically" (SPEC.md).
CrashIsSeen == proc = "crashed" /\ ~goodbye ~> presence # "online"

\* Once the connection holds, the team sees the agent online: the heartbeat
\* makes up for an announcement that failed and for a will published late.
ConnectionHolds == Running /\ ~cancelled /\ manager = "serve" /\ net = "ok"
ComesOnline     == <>[]ConnectionHolds => <>[](presence = "online")

\* When the client cannot reconnect, Status does not report connected for ever.
StatusSettles ==
    connected /\ manager = "dial" ~> \/ ~connected
                                     \/ manager # "dial"
                                     \/ ~Running
                                     \/ cancelled

\* What the comment on the offline payload says: the broker publishes it "on
\* disconnect", so a process that has ended does not stay online.
PresenceEndsWithProcess == proc = "exited" ~> presence # "online"

\* What main says of its wait for the context: it is cancelled when stdio is
\* "closed by CC".
StdioCloseShutsDown == stdio = "eof" ~> cancelled \/ ~Running
=============================================================================
