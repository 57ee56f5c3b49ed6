------------------------------ MODULE LossyFifo ------------------------------
(***************************************************************************)
(* What the bridge promises about the messages it pushes to Claude Code:   *)
(* messages may be lost on the way, but none is delivered twice, none is   *)
(* invented, and the ones delivered keep the order they were sent in.      *)
(***************************************************************************)
EXTENDS Integers, Sequences

VARIABLES
    sent,        \* number of messages sent; a message is its number
    received     \* the numbers received, in order

vars == <<sent, received>>

Init == sent = 0 /\ received = <<>>

Send == sent' = sent + 1 /\ UNCHANGED received

\* Any message that was sent may be next, if all received ones are older.
Receive(n) ==
    /\ \A i \in 1 .. Len(received) : received[i] < n
    /\ received' = Append(received, n)
    /\ UNCHANGED sent

Next == Send \/ \E n \in 1 .. sent : Receive(n)

Spec == Init /\ [][Next]_vars
=============================================================================
