---------------------------- MODULE MCMessageLog ----------------------------
(* Two bridges with one log directory: in the first the router and a tool   *)
(* log concurrently, in the second the router alone.                        *)
EXTENDS MessageLog, TLC

CONSTANTS vera, brix, router, tool, other

MCProcessOf == (router :> vera) @@ (tool :> vera) @@ (other :> brix)
MCTopics    == {<<"agents", "task", "me">>, <<"sensors", "door">>}
=============================================================================
