------------------------------ MODULE MCInbound ------------------------------
(* Inbound with a handful of payloads: two with the same from+ts, one of    *)
(* another sender, one without a key, one on a presence topic.              *)
EXTENDS Inbound, TLC

CONSTANTS ping, pingCopy, task, raw, presence, keyA, keyB

MCMsgs         == {ping, pingCopy, task, raw, presence}
MCKeys         == {keyA, keyB}
MCPresenceMsgs == {presence}
MCKeyOf == (ping :> keyA) @@ (pingCopy :> keyA) @@ (task :> keyB)
           @@ (raw :> NoKey) @@ (presence :> keyB)
=============================================================================
