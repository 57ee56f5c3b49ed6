----------------------------- MODULE TopicFilter -----------------------------
(***************************************************************************)
(* Topics and topic filters (internal/mqtt/client.go, mqttMatch and its    *)
(* callers).  Both are sequences of levels, what strings.Split(s, "/")     *)
(* returns.                                                                *)
(***************************************************************************)
EXTENDS Integers, Sequences

Plus == "+"
Hash == "#"

LevelMatches(p, l) == p = Plus \/ p = l

\* The first n levels of the topic exist and match the pattern's.
PrefixMatches(pattern, topic, n) ==
    /\ n <= Len(topic)
    /\ \A i \in 1 .. n : LevelMatches(pattern[i], topic[i])

\* mqttMatch: reaching a "#" answers yes, running out of topic levels no.
MqttMatch(pattern, topic) ==
    \/ \E h \in 1 .. Len(pattern) :
          pattern[h] = Hash /\ PrefixMatches(pattern, topic, h - 1)
    \/ /\ Len(pattern) = Len(topic)
       /\ PrefixMatches(pattern, topic, Len(pattern))

\* coveredByAny compares the patterns with the filter's own text.
CoveredByAny(topicSet, filter) == \E p \in topicSet : MqttMatch(p, filter)

IsPermanentTopic(permanentTopics, filter) ==
    \E p \in permanentTopics : p = filter \/ MqttMatch(p, filter)

-----------------------------------------------------------------------------
(* What the broker does with filters, and the code relies on.              *)

\* A filter has "#" at most in its last level; a topic has no wildcard.
IsFilter(f) == Len(f) > 0 /\ \A i \in 1 .. Len(f) - 1 : f[i] # Hash
IsTopic(t)  == Len(t) > 0 /\ \A i \in 1 .. Len(t) : t[i] \notin {Plus, Hash}

EndsInHash(f) == f[Len(f)] = Hash

\* The broker's rule: "#" stands for the parent level and all below it.
Matches(f, t) ==
    IF EndsInHash(f) THEN PrefixMatches(f, t, Len(f) - 1)
    ELSE Len(f) = Len(t) /\ PrefixMatches(f, t, Len(f))

\* A "+" of p stands where q ends in "#": mqttMatch takes p to cover q, while
\* q also matches deeper topics, which p does not.
PlusOverHash(p, q) ==
    \E i \in 1 .. Len(p) : i <= Len(q) /\ p[i] = Plus /\ q[i] = Hash
=============================================================================
