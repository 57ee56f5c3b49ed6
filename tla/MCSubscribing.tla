---------------------------- MODULE MCSubscribing ----------------------------
(* Every configuration with up to two log topics and two subscribe topics,  *)
(* in either order, over the filters the documentation uses and the two     *)
(* wildcards that meet at the same level.                                   *)
EXTENDS Subscribing

Task      == <<"agents", "task", "me">>
Broadcast == <<"agents", "broadcast", "#">>
AnyTask   == <<"agents", "task", "+">>
AllTask   == <<"agents", "task", "#">>
All       == <<"agents", "#">>

MCFilters      == {Task, Broadcast, AnyTask, AllTask, All}
MCLogConfigs   == {{}, {All}, {AnyTask}, {Task, AllTask}}
MCTopicConfigs == {<<f>> : f \in MCFilters}
                  \cup {<<f, g>> : f \in MCFilters, g \in MCFilters}
MCTopics       == {<<"agents">>, Task, <<"agents", "task">>,
                   <<"agents", "task", "me", "now">>,
                   <<"agents", "broadcast", "help">>}
=============================================================================
