-------------------------- MODULE TopicFilterProofs --------------------------
(***************************************************************************)
(* What mqttMatch answers, for topics and filters of any length.           *)
(***************************************************************************)
EXTENDS TopicFilter, TLAPS

\* On a topic without wildcards mqttMatch is the broker's rule: Query and
\* Request keep exactly the messages the broker sends for their filter.
THEOREM MatchIsTheBrokersRule ==
    ASSUME NEW f \in Seq(STRING), NEW t \in Seq(STRING), IsFilter(f), IsTopic(t)
    PROVE  MqttMatch(f, t) <=> Matches(f, t)
<1>0. Len(f) \in Nat \ {0} /\ Len(t) \in Nat \ {0}
  BY DEF IsFilter, IsTopic
<1>1. CASE EndsInHash(f)
  <2>1. ~PrefixMatches(f, t, Len(f))
    BY <1>0, <1>1 DEF EndsInHash, PrefixMatches, LevelMatches, IsTopic, Plus, Hash
  <2>2. \A h \in 1 .. Len(f) : f[h] = Hash <=> h = Len(f)
    BY <1>0, <1>1 DEF EndsInHash, IsFilter
  <2> QED
    BY <1>0, <1>1, <2>1, <2>2 DEF MqttMatch, Matches
<1>2. CASE ~EndsInHash(f)
  <2>1. \A h \in 1 .. Len(f) : f[h] # Hash
    BY <1>0, <1>2 DEF EndsInHash, IsFilter
  <2> QED
    BY <1>2, <2>1 DEF MqttMatch, Matches
<1> QED
  BY <1>1, <1>2

\* When mqttMatch takes filter p to cover filter q, the broker sends every
\* message of q for p as well, unless a "+" of p stands over the "#" of q.
THEOREM CoverIsSound ==
    ASSUME NEW p \in Seq(STRING), NEW q \in Seq(STRING), NEW t \in Seq(STRING),
           IsFilter(p), IsFilter(q), IsTopic(t),
           ~PlusOverHash(p, q), MqttMatch(p, q), Matches(q, t)
    PROVE  Matches(p, t)
<1>0. /\ Len(p) \in Nat \ {0} /\ Len(q) \in Nat \ {0} /\ Len(t) \in Nat \ {0}
      /\ Plus # Hash
  BY DEF IsFilter, IsTopic, Plus, Hash
<1>1. ASSUME NEW n \in 0 .. Len(p), PrefixMatches(p, q, n),
             \A i \in 1 .. n : p[i] # Hash
      PROVE  PrefixMatches(p, t, n)
  <2>1. n <= Len(q) /\ \A i \in 1 .. n : p[i] = Plus \/ p[i] = q[i]
    BY <1>1 DEF PrefixMatches, LevelMatches
  <2>2. \A i \in 1 .. n : q[i] # Hash
    BY <1>0, <1>1, <2>1 DEF PlusOverHash
  <2>3. PrefixMatches(q, t, n)
    <3>1. CASE EndsInHash(q)
      <4>1. n <= Len(q) - 1
        BY <1>0, <2>1, <2>2, <3>1 DEF EndsInHash
      <4>2. PrefixMatches(q, t, Len(q) - 1)
        BY <3>1 DEF Matches
      <4> QED
        BY <1>0, <4>1, <4>2 DEF PrefixMatches
    <3>2. CASE ~EndsInHash(q)
      BY <1>0, <2>1, <3>2 DEF Matches, PrefixMatches
    <3> QED
      BY <3>1, <3>2
  <2> QED
    BY <2>1, <2>3 DEF PrefixMatches, LevelMatches
<1>2. CASE EndsInHash(p)
  <2>1. \A i \in 1 .. Len(p) - 1 : p[i] # Hash
    BY DEF IsFilter
  <2>2. PrefixMatches(p, q, Len(p) - 1)
    <3>1. ASSUME NEW h \in 1 .. Len(p), p[h] = Hash
          PROVE  h = Len(p)
      BY <1>0, <2>1, <3>1
    <3>2. CASE PrefixMatches(p, q, Len(p))
      BY <1>0, <3>2 DEF PrefixMatches
    <3> QED
      BY <3>1, <3>2 DEF MqttMatch
  <2>3. PrefixMatches(p, t, Len(p) - 1)
    BY <1>0, <1>1, <2>1, <2>2
  <2> QED
    BY <1>2, <2>3 DEF Matches
<1>3. CASE ~EndsInHash(p)
  <2>1. \A i \in 1 .. Len(p) : p[i] # Hash
    BY <1>0, <1>3 DEF IsFilter, EndsInHash
  <2>2. Len(p) = Len(q) /\ PrefixMatches(p, q, Len(p))
    BY <2>1 DEF MqttMatch
  <2>3. PrefixMatches(p, t, Len(p))
    BY <1>0, <1>1, <2>1, <2>2
  <2>4. Len(t) = Len(p)
    <3>1. p[Len(p)] = Plus \/ p[Len(p)] = q[Len(p)]
      BY <1>0, <2>2 DEF PrefixMatches, LevelMatches
    <3>2. ~EndsInHash(q)
      BY <1>0, <2>1, <2>2, <3>1 DEF EndsInHash, PlusOverHash
    <3> QED
      BY <2>2, <3>2 DEF Matches
  <2> QED
    BY <1>3, <2>3, <2>4 DEF Matches
<1> QED
  BY <1>2, <1>3
=============================================================================
