------------------------------ MODULE Discovery ------------------------------
(***************************************************************************)
(* Two bridges: the life of one, which module Connection describes, and    *)
(* mqtt_who on the bridge of a peer, the Query of agents/presence/# whose  *)
(* results Who of internal/mqtt/client.go turns into the list of agents.   *)
(* This agent's entries in that list do not depend on other agents.        *)
(*                                                                         *)
(* External: the broker, which answers a SUBSCRIBE with the retained       *)
(* presence, if any, and then passes on each presence message published,   *)
(* in order; the peer's own connection, which holds here (module Calls has *)
(* the Query on a connection that breaks).                                 *)
(***************************************************************************)
EXTENDS Connection, Sequences, FiniteSets

CONSTANT MaxUpdates   \* bound of the model: presence messages during the Query

ASSUME DiscoveryAssumption == MaxUpdates \in Nat

VARIABLES
    who,       \* the call: "idle", "handler" once Query has added its handler,
               \* "subscribed" at the broker, "window" after SUBACK, "done"
    wire,      \* presence messages from the broker, the handler has not seen
    raw,       \* Query's results
    listed,    \* Who's entries for this agent
    updates,   \* presence messages published since the SUBSCRIBE
    vouched    \* history: since the SUBSCRIBE there was a moment with the agent
               \* shown online and backed, or gone with DISCONNECT

call == <<who, wire, raw, listed, updates, vouched>>
allVars == <<vars, call>>

Payload == {"online", "offline"}

DiscoveryTypeOK ==
    /\ who \in {"idle", "handler", "subscribed", "window", "done"}
    /\ wire \in Seq(Payload)
    /\ raw \in Seq(Payload)
    /\ listed \in 0 .. MaxUpdates + 1
    /\ updates \in 0 .. MaxUpdates
    /\ Len(raw \o wire) <= updates + 1
    /\ vouched \in BOOLEAN

Asked   == who \in {"subscribed", "window"}
Vouches == presence = "online" /\ (will \/ goodbye)

-----------------------------------------------------------------------------
(* Query and Who.                                                          *)

StartWho ==
    /\ who = "idle"
    /\ who' = "handler"
    /\ UNCHANGED <<vars, wire, raw, listed, updates, vouched>>

SubscribePresence ==
    /\ who = "handler"
    /\ who' = "subscribed"
    /\ wire' = IF presence = "none" THEN <<>> ELSE <<presence>>
    /\ vouched' = Vouches
    /\ UNCHANGED <<vars, raw, listed, updates>>

SubackPresence ==
    /\ who = "subscribed"
    /\ who' = "window"
    /\ UNCHANGED <<vars, wire, raw, listed, updates, vouched>>

\* Fault: the handler is added only when the subscription is acknowledged.
ListensAfterSuback == who = "window"

\* Query's handler is there before its SUBSCRIBE, until Query returns.
Listening == who \in {"handler", "subscribed", "window"}

HandlePresence ==
    /\ wire # <<>>
    /\ raw' = IF Listening THEN Append(raw, Head(wire)) ELSE raw
    /\ wire' = Tail(wire)
    /\ UNCHANGED <<vars, who, listed, updates, vouched>>

\* Fault: every agent with a presence is taken for online.
IsKnown(p) == TRUE

IsOnline(p) == p = "online"

\* What Who makes of the results: an entry for each payload that says online,
\* so an agent that says it again during the Query has several.
Entries == Cardinality({i \in DOMAIN raw : IsOnline(raw[i])})

\* The timeout ends Query with what its handler has seen, and Who filters it.
ReturnWho ==
    /\ who = "window"
    /\ who' = "done"
    /\ listed' = Entries
    /\ UNCHANGED <<vars, wire, raw, updates, vouched>>

WhoStep ==
    \/ SubscribePresence
    \/ SubackPresence
    \/ HandlePresence
    \/ ReturnWho

-----------------------------------------------------------------------------
(* The other bridge.                                                       *)

\* A presence message equal to the retained one is delivered all the same.
Repeats ==
    /\ Announce \/ HeartbeatPublish
    /\ net = "ok"
    /\ presence' = PresencePayload

Delivered ==
    /\ Asked
    /\ presence' # presence \/ Repeats
    /\ updates < MaxUpdates
    /\ updates' = updates + 1
    /\ wire' = Append(wire, presence')

NothingDelivered ==
    /\ ~Asked \/ presence' = presence
    /\ UNCHANGED <<updates, wire>>

AgentStep ==
    /\ Next
    /\ Delivered \/ NothingDelivered
    /\ vouched' = (vouched \/ (Asked /\ Vouches'))
    /\ UNCHANGED <<who, raw, listed>>

DiscoveryInit ==
    /\ Init
    /\ who = "idle"
    /\ wire = <<>>
    /\ raw = <<>>
    /\ listed = 0
    /\ updates = 0
    /\ vouched = FALSE

DiscoveryNext == AgentStep \/ StartWho \/ WhoStep

DiscoverySpec == DiscoveryInit /\ [][DiscoveryNext]_allVars

\* The packet timeouts and its own end the Query.
FairDiscovery == DiscoverySpec /\ Fairness /\ WF_allVars(WhoStep)

-----------------------------------------------------------------------------
(* Safety.                                                                 *)

\* What Query has seen or is about to see ends with the presence the broker
\* retains now: no message falls between the retained one and the live ones.
WhoKeepsUp ==
    Asked /\ presence # "none" =>
        LET all == raw \o wire IN all # <<>> /\ all[Len(all)] = presence

\* An agent whose presence did not move during the Query has one entry if it
\* is online, and none otherwise, once the handler has seen the answer.
WhoIsRight ==
    who = "window" /\ wire = <<>> /\ updates = 0 =>
        Entries = IF presence = "online" THEN 1 ELSE 0

\* mqtt_who lists no ghost: an agent in the list was online during the Query
\* over a connection whose end the broker would have announced, or had left
\* with DISCONNECT.
ListedIsVouched == listed > 0 => vouched
=============================================================================
