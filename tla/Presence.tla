------------------------------- MODULE Presence -------------------------------
(***************************************************************************)
(* What the team may rely on when it reads an agent's retained presence:   *)
(* "online" appears only over a connection that backs it.  An agent that   *)
(* vanishes is shown as offline by the loss of its backing itself.  The    *)
(* one other way to lose the backing is a goodbye, which only an agent     *)
(* that was told to end says; it leaves the presence as it is, and after   *)
(* it this agent shows nothing any more.                                   *)
(***************************************************************************)

VARIABLES
    shown,    \* the retained presence: "none", "online" or "offline"
    backed,   \* the broker will publish "offline" when the agent vanishes
    told,     \* the agent's process was told to end
    left      \* the agent's last connection ended with a goodbye

vars == <<shown, backed, told, left>>

\* An agent shown online before it connects is one that left.
Init ==
    /\ shown \in {"none", "online", "offline"}
    /\ backed = FALSE
    /\ told = FALSE
    /\ left = (shown = "online")

Connect ==
    /\ ~told
    /\ ~backed
    /\ backed' = TRUE
    /\ left' = FALSE
    /\ UNCHANGED <<shown, told>>

\* A new connection of an agent whose former one is still backed.
Takeover ==
    /\ ~told
    /\ backed
    /\ shown' = "offline"
    /\ left' = FALSE
    /\ UNCHANGED <<backed, told>>

Appear == backed /\ shown' = "online" /\ UNCHANGED <<backed, told, left>>

Vanish ==
    /\ backed
    /\ backed' = FALSE
    /\ shown' = "offline"
    /\ UNCHANGED <<told, left>>

Tell == told' = TRUE /\ UNCHANGED <<shown, backed, left>>

SayGoodbye ==
    /\ told
    /\ backed
    /\ backed' = FALSE
    /\ left' = TRUE
    /\ UNCHANGED <<shown, told>>

Next == Connect \/ Takeover \/ Appear \/ Vanish \/ Tell \/ SayGoodbye

Spec == Init /\ [][Next]_vars
=============================================================================
