---------------------------- MODULE Conversation ----------------------------
(***************************************************************************)
(* What the calls promise the agent that makes them, all of them together: *)
(* a call returns once; it asks at most once, and before it returns; a     *)
(* request returns "ok" only when it was answered, and "other" only where  *)
(* somebody else has spoken.                                               *)
(***************************************************************************)
EXTENDS Naturals

CONSTANTS
    Queries,
    Requests,
    ReplyTopic,   \* where a request is answered
    OpenTopics,   \* topics others speak on whenever they like
    NotedTopics   \* topics on which somebody has spoken before

VARIABLES
    begun,      \* calls that were made
    outcome,    \* what each returned: "none" yet, "ok", "other" or "error"
    sent,       \* requests that went out
    answered,   \* requests that were answered
    unasked     \* number of things others said on an open topic

vars == <<begun, outcome, sent, answered, unasked>>

Calls == Queries \cup Requests

Init ==
    /\ begun = {}
    /\ outcome = [c \in Calls |-> "none"]
    /\ sent = {}
    /\ answered = {}
    /\ unasked = 0

Open(c) == c \in begun /\ outcome[c] = "none"

SomebodyElse(r) ==
    \/ ReplyTopic[r] \in NotedTopics
    \/ ReplyTopic[r] \in OpenTopics /\ unasked > 0
    \/ \E s \in answered \ {r} : ReplyTopic[s] = ReplyTopic[r]

Begin(c) ==
    /\ c \notin begun
    /\ begun' = begun \cup {c}
    /\ UNCHANGED <<outcome, sent, answered, unasked>>

Refuse(c) ==
    /\ c \notin begun
    /\ begun' = begun \cup {c}
    /\ outcome' = [outcome EXCEPT ![c] = "error"]
    /\ UNCHANGED <<sent, answered, unasked>>

Ask(r) ==
    /\ Open(r)
    /\ r \notin sent
    /\ sent' = sent \cup {r}
    /\ UNCHANGED <<begun, outcome, answered, unasked>>

\* An answer may be late: the call need not be open any more.
Answer(r) ==
    /\ r \in sent \ answered
    /\ answered' = answered \cup {r}
    /\ UNCHANGED <<begun, outcome, sent, unasked>>

Speak ==
    /\ unasked' = unasked + 1
    /\ UNCHANGED <<begun, outcome, sent, answered>>

MayReturn(c, what) ==
    \/ what = "error"
    \/ what = "ok" /\ c \in Queries
    \/ what = "ok" /\ c \in sent \cap answered
    \/ what = "other" /\ c \in sent /\ SomebodyElse(c)

Return(c) ==
    /\ Open(c)
    /\ \E what \in {"ok", "other", "error"} :
          MayReturn(c, what) /\ outcome' = [outcome EXCEPT ![c] = what]
    /\ UNCHANGED <<begun, sent, answered, unasked>>

Next ==
    \/ \E c \in Calls : Begin(c) \/ Refuse(c) \/ Return(c)
    \/ \E r \in Requests : Ask(r) \/ Answer(r)
    \/ Speak

Spec == Init /\ [][Next]_vars
=============================================================================
