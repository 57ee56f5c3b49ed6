------------------------------- MODULE MCCalls -------------------------------
(* Calls with any three of four calls: mqtt_who, a query of the agent's own *)
(* task topic, a request answered on the task topic (the default), and one  *)
(* answered on a result topic of its own.                                   *)
EXTENDS Calls

CONSTANTS who, own, byDefault, byTopic

Task      == <<"agents", "task", "me">>
Broadcast == <<"agents", "broadcast", "#">>
Help      == <<"agents", "broadcast", "help">>
Presence  == <<"agents", "presence", "#">>
Result    == <<"agents", "result", "me">>
All       == <<"agents", "#">>

MCFilterOf == (who :> Presence) @@ (own :> Task)
              @@ (byDefault :> Task) @@ (byTopic :> Result)

\* The list leaves the third topic out: the second covers it.
MCSubscribeTopics == <<Task, Broadcast, Help>>
MCRetained        == {<<"agents", "presence", "peer">>}
MCTaskTopics      == {Task, Help}

\* The user logs everything, and queries everything.
MCLogAll   == {All}
MCQueryAll == (who :> All)

\* Two requests that wait on the task topic.
MCSameTopic == (byDefault :> Task) @@ (byTopic :> Task)
=============================================================================
