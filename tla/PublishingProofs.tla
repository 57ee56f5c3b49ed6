-------------------------- MODULE PublishingProofs --------------------------
(***************************************************************************)
(* Proofs about Publishing, for any topics, policies and client ids.       *)
(***************************************************************************)
EXTENDS Publishing, SequenceTheorems, WellFoundedInduction, TLAPS

\* What the call that is being served rests on: serving begins with a name, and
\* goes on past the check only with a topic.
ServedInOrder ==
    /\ TypeOK
    /\ step \notin {"load", "exited"} => clientID # NoText
    /\ step = "response" => call.topic # NoText
    /\ \A m \in wire : m.from # NoText

LEMMA CallsAreServedInOrder == Spec => []ServedInOrder
<1> USE PublishingAssumption
<1>1. Init => ServedInOrder
  BY DEF Init, ServedInOrder, TypeOK, Call, NoCall, Tools
<1>2. ServedInOrder /\ [Next]_vars => ServedInOrder'
  <2> SUFFICES ASSUME ServedInOrder, [Next]_vars
               PROVE  ServedInOrder'
    OBVIOUS
  <2> USE DEF ServedInOrder
  <2>1. ASSUME NEW file \in Source, NEW env \in Source, Load(file, env)
        PROVE  ServedInOrder'
    <3>1. Overridden(file, env) \in ClientIDs
      BY DEF Overridden, Source
    <3> QED
      BY <2>1, <3>1 DEF Load, Valid, TypeOK
  <2>2. CASE LoadFails
    BY <2>2 DEF LoadFails, TypeOK, config
  <2>3. ASSUME NEW c \in Call, CallTool(c)
        PROVE  ServedInOrder'
    BY <2>3 DEF CallTool, TypeOK, config
  <2>4. CASE Check
    BY <2>4 DEF Check, TypeOK, config, HasTopic
  <2>5. CASE Publish \/ Request \/ Query
    <3>1. /\ call.topic \in Texts \ {NoText} /\ clientID \in ClientIDs \ {NoText}
          /\ Response \in Responses
      BY <2>5 DEF Publish, Request, Query, TypeOK, Call, Response
    <3>2. /\ step' \in {"client", "refused"}
          /\ UNCHANGED <<clientID, policy, responseDefault, call>>
          /\ wire' = wire \/ Send
      BY <2>5 DEF Publish, Request, Query, config
    <3>3. /\ wire' \subseteq [from : ClientIDs, topic : Texts \ {NoText}, response : Responses]
          /\ \A m \in wire' : m.from # NoText
      BY <3>1, <3>2 DEF Send, TypeOK
    <3> QED
      BY <3>1, <3>2, <3>3 DEF TypeOK
  <2>6. CASE UNCHANGED vars
    BY <2>6 DEF vars, TypeOK
  <2> QED
    BY <2>1, <2>2, <2>3, <2>4, <2>5, <2>6 DEF Next
<1> QED
  BY <1>1, <1>2, PTL DEF Spec

\* Every variable keeps its type; in particular no message without a topic is
\* given to the client, whatever a tool call leaves out.
THEOREM PublishingTypes == Spec => []TypeOK
<1>1. ServedInOrder => TypeOK
  BY DEF ServedInOrder
<1> QED
  BY <1>1, CallsAreServedInOrder, PTL

\* Whatever the file and the environment say, every message names its sender.
THEOREM SendersAreNamed == Spec => []SenderIsNamed
<1>1. ServedInOrder => SenderIsNamed
  BY DEF ServedInOrder, SenderIsNamed
<1> QED
  BY <1>1, CallsAreServedInOrder, PTL

-----------------------------------------------------------------------------
(* Induction over the characters of a text.  It rests on the least element *)
(* of a set of numbers, since a set, unlike a predicate, is a value that a *)
(* theorem can be applied to.                                              *)

LEMMA LeastNumber ==
    ASSUME NEW T, T \subseteq Nat, T # {}
    PROVE  \E x \in T : \A y \in T : x <= y
<1> DEFINE less == OpToRel(<, Nat)
<1>1. IsWellFoundedOn(less, Nat)
  BY NatLessThanWellFounded
<1>2. \A m, n \in Nat : m < n => <<m, n>> \in less
  BY DEF OpToRel
<1> HIDE DEF less
<1>3. PICK x \in T : \A y \in T : <<y, x>> \notin less
  BY <1>1, WFMin
<1>4. \A y \in T : x \in Nat /\ y \in Nat /\ ~(y < x)
  BY <1>2, <1>3
<1>5. \A y \in T : x <= y
  BY <1>4
<1> QED
  BY <1>5

LEMMA SetInduction ==
    ASSUME NEW T, 0 \in T, \A n \in Nat : n \in T => n + 1 \in T
    PROVE  \A n \in Nat : n \in T
<1> DEFINE rest == {n \in Nat : n \notin T}
<1>1. SUFFICES ASSUME rest # {}
               PROVE  FALSE
  OBVIOUS
<1>2. PICK x \in rest : \A y \in rest : x <= y
  BY <1>1, LeastNumber
<1>3. x \in Nat \ {0} /\ x - 1 \in Nat /\ x - 1 \notin rest
  BY <1>2
<1> QED
  BY <1>2, <1>3

\* Cut is what its recursive definition says: there is such a function for
\* every number of characters.
CutsUpTo(s, m, f) ==
    f = [n \in 0 .. m |-> IF n = 0 THEN << <<>> >> ELSE Extend(f[n - 1], s[n])]

LEMMA CutIsDefined ==
    ASSUME NEW s \in Seq(Characters)
    PROVE  /\ Cut(s)[0] = << <<>> >>
           /\ \A n \in 1 .. Len(s) : Cut(s)[n] = Extend(Cut(s)[n - 1], s[n])
<1> DEFINE T == {m \in Nat : \E f : CutsUpTo(s, m, f)}
<1>1. 0 \in T
  <2>1. CutsUpTo(s, 0, [n \in 0 .. 0 |-> << <<>> >>])
    BY DEF CutsUpTo
  <2> QED
    BY <2>1
<1>2. ASSUME NEW m \in Nat, m \in T
      PROVE  m + 1 \in T
  <2>1. PICK f : CutsUpTo(s, m, f)
    BY <1>2
  <2> DEFINE g == [n \in 0 .. m + 1 |->
                      IF n = m + 1 THEN Extend(f[m], s[m + 1]) ELSE f[n]]
  <2>2. \A n \in 0 .. m : f[n] = IF n = 0 THEN << <<>> >> ELSE Extend(f[n - 1], s[n])
    BY <2>1 DEF CutsUpTo
  <2>3. \A n \in 0 .. m : g[n] = f[n]
    OBVIOUS
  <2>4. g[m + 1] = Extend(f[m], s[m + 1])
    OBVIOUS
  <2>5. \A n \in 0 .. m + 1 :
           g[n] = IF n = 0 THEN << <<>> >> ELSE Extend(g[n - 1], s[n])
    <3> SUFFICES ASSUME NEW n \in 0 .. m + 1
                 PROVE  g[n] = IF n = 0 THEN << <<>> >> ELSE Extend(g[n - 1], s[n])
      OBVIOUS
    <3> HIDE DEF g
    <3>1. CASE n = m + 1
      BY <2>3, <2>4, <3>1
    <3>2. CASE n \in 0 .. m
      BY <2>2, <2>3, <3>2
    <3> QED
      BY <3>1, <3>2
  <2>6. CutsUpTo(s, m + 1, g)
    BY <2>5 DEF CutsUpTo
  <2> QED
    BY <2>6
<1> HIDE DEF T
<1>3. Len(s) \in T
  BY <1>1, <1>2, SetInduction
<1>4. \E f : CutsUpTo(s, Len(s), f)
  BY <1>3 DEF T
<1>5. CutsUpTo(s, Len(s), Cut(s))
  BY <1>4 DEF CutsUpTo, Cut
<1> QED
  BY SMTT(30), <1>5 DEF CutsUpTo

\* Every cut has a last level, and a character changes nothing before it.
Paths == {p \in Seq(Seq(Characters)) : p # <<>>}

LEMMA ExtendsLast ==
    ASSUME NEW p \in Paths, NEW c \in Characters
    PROVE  /\ Extend(p, c) \in Paths
           /\ Len(p) \in Nat \ {0}
           /\ c = Slash => /\ Len(Extend(p, c)) = Len(p) + 1
                           /\ Extend(p, c)[Len(p) + 1] = <<>>
                           /\ \A i \in 1 .. Len(p) : Extend(p, c)[i] = p[i]
           /\ c # Slash => /\ Len(Extend(p, c)) = Len(p)
                           /\ Extend(p, c)[Len(p)] = Append(p[Len(p)], c)
                           /\ \A i \in 1 .. Len(p) - 1 : Extend(p, c)[i] = p[i]
<1>1. Len(p) \in Nat \ {0} /\ p \in Seq(Seq(Characters)) /\ p[Len(p)] \in Seq(Characters)
  BY DEF Paths
<1>2. Len(p) \in 1 .. Len(p)
  BY <1>1
<1>3. CASE c = Slash
  BY <1>1, <1>3 DEF Extend, Paths
<1>4. CASE c # Slash
  <2> DEFINE last == Append(p[Len(p)], c)
             longer == [p EXCEPT ![Len(p)] = last]
  <2>1. p[Len(p)] \in Seq(Characters)
    BY <1>1
  <2>2. last \in Seq(Characters)
    BY <2>1, AppendProperties
  <2> HIDE DEF last
  <2>3. /\ longer \in Seq(Seq(Characters))
        /\ Len(longer) = Len(p)
        /\ \A j \in 1 .. Len(p) : longer[j] = IF j = Len(p) THEN last ELSE p[j]
    BY <1>1, <1>2, <2>2, ExceptSeq
  <2>4. Extend(p, c) = longer
    BY <1>4 DEF Extend, last
  <2> HIDE DEF longer
  <2>5. longer \in Paths
    BY <1>1, <2>3 DEF Paths
  <2>6. /\ longer[Len(p)] = last
        /\ \A j \in 1 .. Len(p) - 1 : longer[j] = p[j]
    BY <1>1, <2>3
  <2> QED
    BY <1>1, <1>4, <2>3, <2>4, <2>5, <2>6 DEF last
<1> QED
  BY <1>3, <1>4

LEMMA CutsArePaths ==
    ASSUME NEW s \in Seq(Characters)
    PROVE  \A n \in 0 .. Len(s) : Cut(s)[n] \in Paths
<1> DEFINE T == {n \in Nat : n <= Len(s) => Cut(s)[n] \in Paths}
<1>1. 0 \in T
  <2>1. << <<>> >> \in Paths
    BY DEF Paths
  <2> QED
    BY <2>1, CutIsDefined
<1>2. ASSUME NEW n \in Nat, n \in T
      PROVE  n + 1 \in T
  <2> SUFFICES ASSUME n + 1 <= Len(s)
               PROVE  Cut(s)[n + 1] \in Paths
    OBVIOUS
  <2>1. Cut(s)[n] \in Paths /\ s[n + 1] \in Characters
    BY <1>2
  <2>2. Cut(s)[n + 1] = Extend(Cut(s)[n], s[n + 1])
    BY CutIsDefined
  <2> QED
    BY <2>1, <2>2, ExtendsLast
<1> HIDE DEF T
<1>3. \A n \in Nat : n \in T
  BY <1>1, <1>2, SetInduction
<1> QED
  BY <1>3 DEF T

\* The cuts of a text are those of every text it begins.
LEMMA CutsOfPrefix ==
    ASSUME NEW q \in Seq(Characters), NEW t \in Seq(Characters), Len(q) <= Len(t),
           \A i \in 1 .. Len(q) : q[i] = t[i]
    PROVE  \A n \in 0 .. Len(q) : Cut(q)[n] = Cut(t)[n]
<1> DEFINE T == {n \in Nat : n <= Len(q) => Cut(q)[n] = Cut(t)[n]}
<1>1. 0 \in T
  BY CutIsDefined
<1>2. ASSUME NEW n \in Nat, n \in T
      PROVE  n + 1 \in T
  <2> SUFFICES ASSUME n + 1 <= Len(q)
               PROVE  Cut(q)[n + 1] = Cut(t)[n + 1]
    OBVIOUS
  <2>1. Cut(q)[n] = Cut(t)[n] /\ q[n + 1] = t[n + 1]
    BY <1>2
  <2>2. Cut(q)[n + 1] = Extend(Cut(q)[n], q[n + 1])
    BY CutIsDefined
  <2>3. Cut(t)[n + 1] = Extend(Cut(t)[n], t[n + 1])
    BY CutIsDefined
  <2> QED
    BY <2>1, <2>2, <2>3
<1> HIDE DEF T
<1>3. \A n \in Nat : n \in T
  BY <1>1, <1>2, SetInduction
<1> QED
  BY <1>3 DEF T

LEMMA AppendIsInjective ==
    ASSUME NEW s \in Seq(Characters), NEW t \in Seq(Characters),
           NEW c \in Characters, NEW d \in Characters, Append(s, c) = Append(t, d)
    PROVE  s = t /\ c = d
<1>1. /\ Len(s) \in Nat /\ Len(Append(s, c)) = Len(s) + 1
      /\ Append(s, c)[Len(s) + 1] = c
      /\ \A i \in 1 .. Len(s) : Append(s, c)[i] = s[i]
  BY AppendProperties, LenProperties
<1>2. /\ Len(t) \in Nat /\ Len(Append(t, d)) = Len(t) + 1
      /\ Append(t, d)[Len(t) + 1] = d
      /\ \A i \in 1 .. Len(t) : Append(t, d)[i] = t[i]
  BY AppendProperties, LenProperties
<1>3. Len(s) = Len(t)
  BY <1>1, <1>2
<1>4. \A i \in 1 .. Len(s) : s[i] = t[i]
  BY <1>1, <1>2, <1>3
<1> QED
  BY <1>1, <1>2, <1>3, <1>4, SeqEqual

\* From a path its last character can be told, and what was before it.
LEMMA LastOfPath ==
    ASSUME NEW p \in Paths, NEW c \in Characters
    PROVE  /\ Extend(p, c)[Len(Extend(p, c))] = <<>> <=> c = Slash
           /\ Extend(p, c) # << <<>> >>
<1>1. p[Len(p)] \in Seq(Characters)
  BY DEF Paths
<1>2. Append(p[Len(p)], c) # <<>>
  BY <1>1, AppendProperties
<1>3. CASE c = Slash
  <2>1. Len(Extend(p, c)) = Len(p) + 1 /\ Len(p) \in Nat \ {0}
    BY <1>3, ExtendsLast
  <2>2. Extend(p, c)[Len(Extend(p, c))] = <<>>
    BY <1>3, <2>1, ExtendsLast
  <2>3. Len(Extend(p, c)) # 1
    BY <2>1
  <2>4. Len(<< <<>> >>) = 1
    OBVIOUS
  <2> QED
    BY <1>3, <2>2, <2>3, <2>4
<1>4. CASE c # Slash
  <2>1. Extend(p, c)[Len(Extend(p, c))] # <<>>
    BY <1>2, <1>4, ExtendsLast
  <2>2. << <<>> >>[Len(<< <<>> >>)] = <<>>
    OBVIOUS
  <2> QED
    BY <1>4, <2>1, <2>2
<1> QED
  BY <1>3, <1>4

LEMMA ExtendIsInjective ==
    ASSUME NEW p \in Paths, NEW c \in Characters, NEW q \in Paths, NEW d \in Characters,
           Extend(p, c) = Extend(q, d)
    PROVE  p = q /\ c = d
<1>1. /\ p \in Seq(Seq(Characters)) /\ p[Len(p)] \in Seq(Characters)
      /\ q \in Seq(Seq(Characters)) /\ q[Len(q)] \in Seq(Characters)
  BY DEF Paths
<1>2. Len(p) \in Nat /\ Len(q) \in Nat
  BY <1>1, LenProperties
<1>3. c = Slash <=> d = Slash
  BY LastOfPath
<1>4. CASE c = Slash
  <2>1. /\ Len(Extend(p, c)) = Len(p) + 1
        /\ \A i \in 1 .. Len(p) : Extend(p, c)[i] = p[i]
    BY <1>4, ExtendsLast
  <2>2. /\ Len(Extend(q, d)) = Len(q) + 1
        /\ \A i \in 1 .. Len(q) : Extend(q, d)[i] = q[i]
    BY <1>3, <1>4, ExtendsLast
  <2>3. Len(p) = Len(q)
    <3>1. Len(p) + 1 = Len(q) + 1
      BY <2>1, <2>2
    <3> QED
      BY <1>2, <3>1
  <2>4. \A i \in 1 .. Len(p) : p[i] = q[i]
    BY <2>1, <2>2, <2>3
  <2> QED
    BY <1>1, <1>3, <1>4, <2>3, <2>4, SeqEqual
<1>5. CASE c # Slash
  <2>1. /\ Len(Extend(p, c)) = Len(p)
        /\ Extend(p, c)[Len(p)] = Append(p[Len(p)], c)
        /\ \A i \in 1 .. Len(p) - 1 : Extend(p, c)[i] = p[i]
    BY <1>5, ExtendsLast
  <2>2. /\ Len(Extend(q, d)) = Len(q)
        /\ Extend(q, d)[Len(q)] = Append(q[Len(q)], d)
        /\ \A i \in 1 .. Len(q) - 1 : Extend(q, d)[i] = q[i]
    BY <1>3, <1>5, ExtendsLast
  <2>3. Len(p) = Len(q)
    BY <2>1, <2>2
  <2>4. Append(p[Len(p)], c) = Append(q[Len(q)], d)
    <3>1. Append(q[Len(q)], d) = Extend(q, d)[Len(q)]
      BY <2>2
    <3>2. Append(p[Len(p)], c) = Extend(p, c)[Len(p)]
      BY <2>1
    <3> QED
      BY <2>3, <3>1, <3>2
  <2>5. p[Len(p)] = q[Len(q)] /\ c = d
    <3> DEFINE lastP == p[Len(p)]
               lastQ == q[Len(q)]
    <3>1. lastP \in Seq(Characters) /\ lastQ \in Seq(Characters)
      BY <1>1
    <3>2. Append(lastP, c) = Append(lastQ, d)
      BY <2>4
    <3> HIDE DEF lastP, lastQ
    <3>3. lastP = lastQ /\ c = d
      BY <3>1, <3>2, AppendIsInjective
    <3> QED
      BY <3>3 DEF lastP, lastQ
  <2>6. ASSUME NEW i \in 1 .. Len(p)
        PROVE  p[i] = q[i]
    <3>1. CASE i = Len(p)
      BY <2>3, <2>5, <3>1
    <3>2. CASE i \in 1 .. Len(p) - 1
      BY <2>1, <2>2, <2>3, <3>2
    <3> QED
      BY <1>2, <3>1, <3>2
  <2> QED
    BY <1>1, <2>3, <2>5, <2>6, SeqEqual
<1> QED
  BY <1>4, <1>5

\* Two texts with the same levels are the same.
LEMMA CutIsInjective ==
    ASSUME NEW a \in Seq(Characters), NEW b \in Seq(Characters)
    PROVE  \A m \in 0 .. Len(a), k \in 0 .. Len(b) :
              Cut(a)[m] = Cut(b)[k] => m = k /\ \A i \in 1 .. m : a[i] = b[i]
<1> DEFINE P(m) == \A k \in 0 .. Len(b) :
                      Cut(a)[m] = Cut(b)[k] => m = k /\ \A i \in 1 .. m : a[i] = b[i]
           T == {m \in Nat : m <= Len(a) => P(m)}
<1>0. Len(a) \in Nat /\ Len(b) \in Nat
  OBVIOUS
<1>1. \A k \in 1 .. Len(b) : /\ Cut(b)[k] = Extend(Cut(b)[k - 1], b[k])
                             /\ Cut(b)[k - 1] \in Paths /\ b[k] \in Characters
  BY CutIsDefined, CutsArePaths
<1>2. 0 \in T
  <2>1. ASSUME NEW k \in 0 .. Len(b), Cut(b)[k] = << <<>> >>
        PROVE  k = 0
    <3>1. CASE k \in 1 .. Len(b)
      <4>1. Extend(Cut(b)[k - 1], b[k]) # << <<>> >>
        BY <1>1, <3>1, LastOfPath
      <4> QED
        BY <1>1, <2>1, <3>1, <4>1
    <3> QED
      BY <1>0, <3>1
  <2>2. Cut(a)[0] = << <<>> >>
    BY CutIsDefined
  <2> QED
    BY <2>1, <2>2
<1>3. ASSUME NEW m \in Nat, m \in T
      PROVE  m + 1 \in T
  <2> SUFFICES ASSUME m + 1 <= Len(a), NEW k \in 0 .. Len(b), Cut(a)[m + 1] = Cut(b)[k]
               PROVE  m + 1 = k /\ \A i \in 1 .. m + 1 : a[i] = b[i]
    OBVIOUS
  <2>1. m \in 0 .. Len(a) /\ m + 1 \in 1 .. Len(a) /\ (m + 1) - 1 = m
    BY <1>0
  <2>2. /\ Cut(a)[m + 1] = Extend(Cut(a)[m], a[m + 1])
        /\ Cut(a)[m] \in Paths /\ a[m + 1] \in Characters
    BY <2>1, CutIsDefined, CutsArePaths
  <2>3. k # 0
    <3>1. Extend(Cut(a)[m], a[m + 1]) # << <<>> >>
      BY <2>2, LastOfPath
    <3>2. Cut(b)[0] = << <<>> >>
      BY CutIsDefined
    <3> QED
      BY <2>2, <3>1, <3>2
  <2>4. k \in 1 .. Len(b) /\ k - 1 \in 0 .. Len(b)
    BY <1>0, <2>3
  <2>5. Cut(a)[m] = Cut(b)[k - 1] /\ a[m + 1] = b[k]
    <3>1. /\ Extend(Cut(a)[m], a[m + 1]) = Extend(Cut(b)[k - 1], b[k])
          /\ Cut(b)[k - 1] \in Paths /\ b[k] \in Characters
      BY <1>1, <2>2, <2>4
    <3> DEFINE cutA == Cut(a)[m]
               cutB == Cut(b)[k - 1]
    <3>2. cutA \in Paths /\ cutB \in Paths /\ Extend(cutA, a[m + 1]) = Extend(cutB, b[k])
      BY <2>2, <3>1
    <3>3. a[m + 1] \in Characters /\ b[k] \in Characters
      BY <2>2, <3>1
    <3> HIDE DEF cutA, cutB
    <3>4. cutA = cutB /\ a[m + 1] = b[k]
      BY <3>2, <3>3, ExtendIsInjective
    <3> QED
      BY <3>4 DEF cutA, cutB
  <2>6. m = k - 1 /\ \A i \in 1 .. m : a[i] = b[i]
    BY <1>3, <2>1, <2>4, <2>5
  <2> QED
    BY <2>4, <2>5, <2>6
<1> HIDE DEF T
<1>4. \A m \in Nat : m \in T
  BY <1>2, <1>3, SetInduction
<1> QED
  BY <1>4 DEF T

\* A slash ends a level for good: what comes after it leaves the levels so far
\* alone, and adds to their number.
LEMMA SlashEndsLevel ==
    ASSUME NEW t \in Seq(Characters), NEW k \in Nat, k < Len(t), t[k + 1] = Slash
    PROVE  \A n \in k + 1 .. Len(t) :
              /\ Len(Cut(t)[k]) < Len(Cut(t)[n])
              /\ \A i \in 1 .. Len(Cut(t)[k]) : Cut(t)[n][i] = Cut(t)[k][i]
<1> DEFINE before == Cut(t)[k]
           Kept(path) == /\ path \in Paths
                         /\ Len(before) < Len(path)
                         /\ \A i \in 1 .. Len(before) : path[i] = before[i]
           T == {n \in Nat : k + 1 + n <= Len(t) => Kept(Cut(t)[k + 1 + n])}
<1>0. Len(t) \in Nat
  OBVIOUS
<1>1. before \in Paths /\ Len(before) \in Nat
  BY <1>0, CutsArePaths, ExtendsLast DEF Paths
<1>2. \A n \in Nat : n + 1 <= Len(t) =>
         /\ Cut(t)[n] \in Paths /\ t[n + 1] \in Characters
         /\ Cut(t)[n + 1] = Extend(Cut(t)[n], t[n + 1])
  BY <1>0, CutsArePaths, CutIsDefined
<1>3. ASSUME NEW path, Kept(path), NEW c \in Characters
      PROVE  Kept(Extend(path, c))
  <2>1. /\ path \in Paths /\ Len(path) \in Nat /\ Len(before) < Len(path)
        /\ \A i \in 1 .. Len(before) : path[i] = before[i]
    BY <1>3, ExtendsLast
  <2> HIDE DEF before
  <2>2. Extend(path, c) \in Paths
    BY <2>1, ExtendsLast
  <2>3. CASE c = Slash
    <3>1. /\ Len(Extend(path, c)) = Len(path) + 1
          /\ \A i \in 1 .. Len(path) : Extend(path, c)[i] = path[i]
      BY <2>1, <2>3, ExtendsLast
    <3> QED
      BY <1>1, <2>1, <2>2, <3>1
  <2>4. CASE c # Slash
    <3>1. /\ Len(Extend(path, c)) = Len(path)
          /\ \A i \in 1 .. Len(path) - 1 : Extend(path, c)[i] = path[i]
      BY <2>1, <2>4, ExtendsLast
    <3> QED
      BY <1>1, <2>1, <2>2, <3>1
  <2> QED
    BY <2>3, <2>4
<1>4. 0 \in T
  <2>1. t[k + 1] \in Characters /\ Cut(t)[k + 1] = Extend(before, t[k + 1])
    BY <1>0, <1>2
  <2> HIDE DEF before
  <2>2. /\ Extend(before, t[k + 1]) \in Paths
        /\ Len(Extend(before, t[k + 1])) = Len(before) + 1
        /\ \A i \in 1 .. Len(before) : Extend(before, t[k + 1])[i] = before[i]
    BY <1>1, <2>1, ExtendsLast
  <2>3. Kept(Extend(before, t[k + 1]))
    BY <1>1, <2>2
  <2> QED
    BY <2>1, <2>3
<1>5. ASSUME NEW n \in Nat, n \in T
      PROVE  n + 1 \in T
  <2> HIDE DEF before, Kept
  <2> SUFFICES ASSUME k + 1 + (n + 1) <= Len(t)
               PROVE  Kept(Cut(t)[k + 1 + (n + 1)])
    OBVIOUS
  <2>1. Kept(Cut(t)[k + 1 + n])
    BY <1>0, <1>5
  <2>2. /\ t[(k + 1 + n) + 1] \in Characters
        /\ Cut(t)[(k + 1 + n) + 1] = Extend(Cut(t)[k + 1 + n], t[(k + 1 + n) + 1])
    BY <1>0, <1>2
  <2>3. Kept(Cut(t)[(k + 1 + n) + 1])
    BY <1>3, <2>1, <2>2
  <2>4. k + 1 + (n + 1) = (k + 1 + n) + 1
    OBVIOUS
  <2> QED
    BY <2>3, <2>4
<1> HIDE DEF T, Kept
<1>6. \A n \in Nat : n \in T
  BY <1>4, <1>5, SetInduction
<1>7. ASSUME NEW n \in k + 1 .. Len(t)
      PROVE  Kept(Cut(t)[n])
  <2>1. n - (k + 1) \in Nat /\ k + 1 + (n - (k + 1)) = n
    BY <1>0
  <2>2. n - (k + 1) \in T
    BY <1>6, <2>1
  <2> QED
    BY <2>1, <2>2 DEF T
<1> QED
  BY <1>7 DEF Kept

\* And only a slash does: if the levels go on after those of a path, one of them
\* was ended where the text had come to that path.
LEMMA LevelsEndAtSlash ==
    ASSUME NEW t \in Seq(Characters), NEW path \in Paths
    PROVE  \A n \in 0 .. Len(t) :
              /\ Len(path) < Len(Cut(t)[n])
              /\ \A i \in 1 .. Len(path) : Cut(t)[n][i] = path[i]
              => \E m \in 0 .. Len(t) - 1 : Cut(t)[m] = path /\ t[m + 1] = Slash
<1> DEFINE Above(cut) == /\ Len(path) < Len(cut)
                         /\ \A i \in 1 .. Len(path) : cut[i] = path[i]
           Found == \E m \in 0 .. Len(t) - 1 : Cut(t)[m] = path /\ t[m + 1] = Slash
           T == {n \in Nat : n <= Len(t) /\ Above(Cut(t)[n]) => Found}
<1>0. Len(t) \in Nat /\ Len(path) \in Nat \ {0} /\ path \in Seq(Seq(Characters))
  BY ExtendsLast DEF Paths
<1>1. 0 \in T
  <2>1. Cut(t)[0] = << <<>> >>
    BY CutIsDefined
  <2>2. Len(<< <<>> >>) = 1
    OBVIOUS
  <2>3. ~(Len(path) < Len(Cut(t)[0]))
    BY <1>0, <2>1, <2>2
  <2> QED
    BY <2>3
<1>2. ASSUME NEW n \in Nat, n \in T
      PROVE  n + 1 \in T
  <2> DEFINE cut == Cut(t)[n]
             c == t[n + 1]
  <2> SUFFICES ASSUME n + 1 <= Len(t), Above(Cut(t)[n + 1])
               PROVE  Found
    OBVIOUS
  <2>1. cut \in Paths /\ c \in Characters /\ Cut(t)[n + 1] = Extend(cut, c)
    BY <1>0, CutsArePaths, CutIsDefined
  <2>2. Above(Extend(cut, c))
    BY <2>1
  <2>3. Above(cut) => Found
    BY <1>0, <1>2
  <2>4. n \in 0 .. Len(t) - 1
    BY <1>0
  <2>5. cut = path /\ c = Slash => Found
    BY <2>4
  <2> HIDE DEF cut, c, Found
  <2>6. /\ Len(cut) \in Nat \ {0} /\ cut \in Seq(Seq(Characters))
    BY <2>1, ExtendsLast DEF Paths
  <2>7. CASE c = Slash
    <3>1. /\ Len(Extend(cut, c)) = Len(cut) + 1
          /\ \A i \in 1 .. Len(cut) : Extend(cut, c)[i] = cut[i]
      BY <2>1, <2>7, ExtendsLast
    <3>2. \A i \in 1 .. Len(path) : i \in 1 .. Len(cut) => cut[i] = path[i]
      BY <2>2, <3>1
    <3>3. CASE Len(path) = Len(cut)
      <4>1. \A i \in 1 .. Len(path) : cut[i] = path[i]
        BY <3>2, <3>3
      <4>2. cut = path
        BY <1>0, <2>6, <3>3, <4>1, SeqEqual
      <4> QED
        BY <2>5, <2>7, <4>2
    <3>4. CASE Len(path) < Len(cut)
      BY <1>0, <2>3, <2>6, <3>2, <3>4
    <3>5. Len(path) < Len(cut) + 1
      BY <2>2, <3>1
    <3> QED
      BY <1>0, <2>6, <3>3, <3>4, <3>5
  <2>8. CASE c # Slash
    <3>1. /\ Len(Extend(cut, c)) = Len(cut)
          /\ \A i \in 1 .. Len(cut) - 1 : Extend(cut, c)[i] = cut[i]
      BY <2>1, <2>8, ExtendsLast
    <3>2. Len(path) < Len(cut)
      BY <2>2, <3>1
    <3>3. \A i \in 1 .. Len(path) : i \in 1 .. Len(cut) - 1
      BY <1>0, <2>6, <3>2
    <3>4. \A i \in 1 .. Len(path) : cut[i] = path[i]
      BY <2>2, <3>1, <3>3
    <3> QED
      BY <2>3, <3>2, <3>4
  <2> QED
    BY <2>7, <2>8
<1> HIDE DEF T
<1>3. \A n \in Nat : n \in T
  BY <1>1, <1>2, SetInduction
<1>4. ASSUME NEW n \in 0 .. Len(t), Above(Cut(t)[n])
      PROVE  Found
  <2> HIDE DEF Above, Found
  <2>1. n \in T /\ n <= Len(t)
    BY <1>0, <1>3
  <2> QED
    BY <1>4, <2>1 DEF T
<1> QED
  BY <1>4

-----------------------------------------------------------------------------
(* The policy.                                                             *)

LEMMA TrimmedIsText ==
    ASSUME NEW s \in Seq(Characters)
    PROVE  TrimSlashes(s) \in Seq(Characters)
<1> DEFINE kept == {i \in 1 .. Len(s) : s[i] # Slash}
           last == IF kept = {} THEN 0 ELSE Max(kept)
<1>0. Len(s) \in Nat
  OBVIOUS
<1>1. last \in 0 .. Len(s)
  <2>1. CASE kept = {}
    BY <1>0, <2>1
  <2>2. CASE kept # {}
    <3> DEFINE behind == {n \in Nat : Len(s) - n \in kept}
    <3>1. PICK i \in kept : TRUE
      BY <2>2
    <3>2. Len(s) - i \in Nat /\ Len(s) - (Len(s) - i) = i
      BY <1>0, <3>1
    <3>3. Len(s) - i \in behind
      BY <3>1, <3>2
    <3>4. PICK n \in behind : \A m \in behind : n <= m
      BY <3>3, LeastNumber
    <3>5. ASSUME NEW j \in kept
          PROVE  Len(s) - n >= j
      <4>1. Len(s) - j \in Nat /\ Len(s) - (Len(s) - j) = j
        BY <1>0
      <4>2. Len(s) - j \in behind
        BY <4>1
      <4>3. n \in Nat /\ n <= Len(s) - j
        BY <3>4, <4>2
      <4> QED
        BY <1>0, <4>1, <4>3
    <3>6. Len(s) - n \in kept
      BY <3>4
    <3>7. Max(kept) \in kept
      BY <3>5, <3>6 DEF Max
    <3> QED
      BY <1>0, <2>2, <3>7
  <2> QED
    BY <2>1, <2>2
<1>2. TrimSlashes(s) = SubSeq(s, 1, last)
  BY DEF TrimSlashes
<1> HIDE DEF last
<1>3. \A i \in 1 .. last : s[i] \in Characters
  BY <1>0, <1>1
<1> QED
  BY <1>0, <1>1, <1>2, <1>3, SubSeqProperties

\* What it is to begin with a text and a slash.
LEMMA BeginsWithSlash ==
    ASSUME NEW q \in Seq(Characters), NEW t \in Seq(Characters)
    PROVE  IsPrefix(Append(q, Slash), t) <=>
              /\ Len(q) < Len(t)
              /\ t[Len(q) + 1] = Slash
              /\ \A i \in 1 .. Len(q) : q[i] = t[i]
<1> DEFINE C == Characters \cup {Slash}
           qs == Append(q, Slash)
<1>1. q \in Seq(C) /\ t \in Seq(C) /\ Slash \in C
  BY SeqMonotonic
<1>2. /\ Len(q) \in Nat /\ Len(t) \in Nat
      /\ qs \in Seq(C)
      /\ Len(qs) = Len(q) + 1
      /\ \A i \in 1 .. Len(q) : qs[i] = q[i]
      /\ qs[Len(q) + 1] = Slash
  BY <1>1, AppendProperties, LenProperties
<1> HIDE DEF qs
<1>3. SubSeq(qs, 1, Len(qs)) = qs
  BY <1>1, <1>2, SubSeqFull
<1>4. ASSUME Len(qs) <= Len(t)
      PROVE  SubSeq(t, 1, Len(qs)) = qs <=> \A i \in 1 .. Len(qs) : t[i] = qs[i]
  <2>1. \A i \in 1 .. Len(qs) : t[i] \in C
    BY <1>1, <1>2, <1>4, ElementOfSeq
  <2>2. /\ SubSeq(t, 1, Len(qs)) \in Seq(C)
        /\ Len(SubSeq(t, 1, Len(qs))) = Len(qs)
        /\ \A i \in 1 .. Len(qs) : SubSeq(t, 1, Len(qs))[i] = t[i]
    BY <1>2, <2>1, SubSeqProperties
  <2> QED
    BY <1>2, <2>2, SeqEqual
<1>5. (\A i \in 1 .. Len(qs) : t[i] = qs[i]) <=>
         /\ t[Len(q) + 1] = Slash
         /\ \A i \in 1 .. Len(q) : q[i] = t[i]
  <2>1. ASSUME \A i \in 1 .. Len(qs) : t[i] = qs[i]
        PROVE  t[Len(q) + 1] = Slash /\ \A i \in 1 .. Len(q) : q[i] = t[i]
    <3>1. Len(q) + 1 \in 1 .. Len(qs) /\ \A i \in 1 .. Len(q) : i \in 1 .. Len(qs)
      BY <1>2
    <3> QED
      BY <1>2, <2>1, <3>1
  <2>2. ASSUME t[Len(q) + 1] = Slash, \A i \in 1 .. Len(q) : q[i] = t[i],
               NEW i \in 1 .. Len(qs)
        PROVE  t[i] = qs[i]
    <3>1. i = Len(q) + 1 \/ i \in 1 .. Len(q)
      BY <1>2
    <3> QED
      BY <1>2, <2>2, <3>1
  <2> QED
    BY <2>1, <2>2
<1> QED
  BY <1>2, <1>3, <1>4, <1>5 DEF IsPrefix, qs

\* The rule about characters is the rule about levels, for every text: to begin
\* with the trimmed prefix and a slash is to be below its path.
THEOREM PrefixesAreLevels ==
    ASSUME NEW p \in Seq(Characters), NEW t \in Seq(Characters)
    PROVE  IsPrefix(Append(TrimSlashes(p), Slash), t) <=> IsBelow(t, p)
<1> DEFINE q == TrimSlashes(p)
           path == Levels(q)
           levels == Levels(t)
<1>1. q \in Seq(Characters) /\ Len(q) \in Nat /\ Len(t) \in Nat
  BY TrimmedIsText, LenProperties
<1> HIDE DEF q
<1>2. /\ path \in Paths /\ path \in Seq(Seq(Characters)) /\ Len(path) \in Nat
      /\ levels \in Paths /\ levels \in Seq(Seq(Characters)) /\ Len(levels) \in Nat
      /\ path = Cut(q)[Len(q)] /\ levels = Cut(t)[Len(t)]
  BY <1>1, CutsArePaths, LenProperties DEF Levels, Paths
<1> HIDE DEF path, levels
<1>3. IsBelow(t, p) <=> /\ Len(path) < Len(levels)
                        /\ \A i \in 1 .. Len(path) : levels[i] = path[i]
  <2>1. IsBelow(t, p) <=> Len(path) < Len(levels) /\ SubSeq(levels, 1, Len(path)) = path
    BY DEF IsBelow, q, path, levels
  <2>2. ASSUME Len(path) < Len(levels)
        PROVE  SubSeq(levels, 1, Len(path)) = path <=>
                  \A i \in 1 .. Len(path) : levels[i] = path[i]
    <3>1. \A i \in 1 .. Len(path) : levels[i] \in Seq(Characters)
      BY <1>2, <2>2, ElementOfSeq
    <3>2. /\ SubSeq(levels, 1, Len(path)) \in Seq(Seq(Characters))
          /\ Len(SubSeq(levels, 1, Len(path))) = Len(path)
          /\ \A i \in 1 .. Len(path) : SubSeq(levels, 1, Len(path))[i] = levels[i]
      BY <1>2, <3>1, SubSeqProperties
    <3> QED
      BY <1>2, <3>2, SeqEqual
  <2> QED
    BY <2>1, <2>2
<1>4. ASSUME Len(q) < Len(t), t[Len(q) + 1] = Slash, \A i \in 1 .. Len(q) : q[i] = t[i]
      PROVE  IsBelow(t, p)
  <2>1. path = Cut(t)[Len(q)]
    <3>1. \A n \in 0 .. Len(q) : Cut(q)[n] = Cut(t)[n]
      <4>1. Len(q) <= Len(t)
        BY <1>1, <1>4
      <4> QED
        BY <1>1, <1>4, <4>1, CutsOfPrefix
    <3>2. Len(q) \in 0 .. Len(q)
      BY <1>1
    <3> QED
      BY <1>2, <3>1, <3>2
  <2>2. Len(t) \in Len(q) + 1 .. Len(t)
    BY <1>1, <1>4
  <2>3. \A n \in Len(q) + 1 .. Len(t) :
           /\ Len(Cut(t)[Len(q)]) < Len(Cut(t)[n])
           /\ \A i \in 1 .. Len(Cut(t)[Len(q)]) : Cut(t)[n][i] = Cut(t)[Len(q)][i]
    <3> DEFINE k == Len(q)
    <3>1. k \in Nat /\ k < Len(t) /\ t[k + 1] = Slash
      BY <1>1, <1>4
    <3> HIDE DEF k
    <3>2. \A n \in k + 1 .. Len(t) :
             /\ Len(Cut(t)[k]) < Len(Cut(t)[n])
             /\ \A i \in 1 .. Len(Cut(t)[k]) : Cut(t)[n][i] = Cut(t)[k][i]
      BY <3>1, SlashEndsLevel
    <3> QED
      BY <3>2 DEF k
  <2>4. /\ Len(path) < Len(levels)
        /\ \A i \in 1 .. Len(path) : levels[i] = path[i]
    BY <1>2, <2>1, <2>2, <2>3
  <2> QED
    BY <1>3, <2>4
<1>5. ASSUME IsBelow(t, p)
      PROVE  Len(q) < Len(t) /\ t[Len(q) + 1] = Slash /\ \A i \in 1 .. Len(q) : q[i] = t[i]
  <2>1. PICK m \in 0 .. Len(t) - 1 : Cut(t)[m] = path /\ t[m + 1] = Slash
    <3>1. /\ Len(path) < Len(Cut(t)[Len(t)])
          /\ \A i \in 1 .. Len(path) : Cut(t)[Len(t)][i] = path[i]
      BY <1>2, <1>3, <1>5
    <3>2. Len(t) \in 0 .. Len(t)
      BY <1>1
    <3> QED
      BY <1>2, <3>1, <3>2, LevelsEndAtSlash
  <2>2. m \in 0 .. Len(t) /\ Len(q) \in 0 .. Len(q) /\ Cut(t)[m] = Cut(q)[Len(q)]
    BY <1>1, <1>2, <2>1
  <2>3. m = Len(q) /\ \A i \in 1 .. m : t[i] = q[i]
    BY <1>1, <2>2, CutIsInjective
  <2> QED
    BY <1>1, <2>1, <2>3
<1> QED
  BY <1>1, <1>4, <1>5, BeginsWithSlash DEF q

\* So the code's check is the policy, whatever the prefixes and the topic are.
THEOREM CheckIsPolicy ==
    ASSUME policy \in Policies, NEW topic \in Texts
    PROVE  CheckTopicAllowed(topic) <=> WithinPolicy(topic)
<1>1. topic \in Seq(Characters) /\ \A p \in policy : p \in Seq(Characters)
  BY PublishingAssumption
<1>2. \A p \in policy : Allows(p, topic) <=> topic = p \/ IsBelow(topic, p)
  BY <1>1, PrefixesAreLevels DEF Allows
<1> QED
  BY <1>2 DEF CheckTopicAllowed, WithinPolicy

\* Past the check a topic is within the policy, unless the call is a query, and
\* so is all that was published; a refused call has its reason.
PolicyIsKept ==
    /\ TypeOK
    /\ step = "response" /\ call.tool # "query" => WithinPolicy(call.topic)
    /\ OnlyWithinPolicy
    /\ RefusedOnlyOutside

LEMMA PolicyIsAlwaysKept == Spec => []PolicyIsKept
<1> USE PublishingAssumption
<1>1. Init => PolicyIsKept
  BY DEF Init, PolicyIsKept, OnlyWithinPolicy, RefusedOnlyOutside, TypeOK, Call, NoCall, Tools
<1>2. PolicyIsKept /\ TypeOK' /\ [Next]_vars => PolicyIsKept'
  <2> SUFFICES ASSUME PolicyIsKept, TypeOK', [Next]_vars
               PROVE  PolicyIsKept'
    OBVIOUS
  <2>0. /\ UNCHANGED <<policy, responseDefault>>
        /\ \A topic : WithinPolicy(topic)' <=> WithinPolicy(topic)
    <3>1. UNCHANGED <<policy, responseDefault>>
      BY DEF Next, vars, config, Load, LoadFails, CallTool, Check, Publish, Request, Query
    <3> QED
      BY <3>1 DEF WithinPolicy
  <2>1. ASSUME UNCHANGED wire, step' \notin {"response", "refused"}
        PROVE  PolicyIsKept'
    BY <2>0, <2>1 DEF PolicyIsKept, OnlyWithinPolicy, RefusedOnlyOutside
  <2>2. ASSUME NEW file \in Source, NEW env \in Source, Load(file, env)
        PROVE  PolicyIsKept'
    BY <2>1, <2>2 DEF Load
  <2>3. CASE LoadFails
    BY <2>1, <2>3 DEF LoadFails
  <2>4. ASSUME NEW c \in Call, CallTool(c)
        PROVE  PolicyIsKept'
    BY <2>1, <2>4 DEF CallTool
  <2>5. CASE Check
    <3>1. CheckTopicAllowed(call.topic) <=> WithinPolicy(call.topic)
      BY CheckIsPolicy DEF PolicyIsKept, TypeOK, Call
    <3>2. UNCHANGED <<call, wire>>
      BY <2>5 DEF Check
    <3>3. OnlyWithinPolicy'
      BY <2>0, <3>2 DEF PolicyIsKept, OnlyWithinPolicy
    <3>4. (step = "response" /\ call.tool # "query" => WithinPolicy(call.topic))'
      BY <2>0, <2>5, <3>1, <3>2 DEF Check
    <3>5. RefusedOnlyOutside'
      BY <2>0, <2>5, <3>1, <3>2 DEF Check, HasTopic, RefusedOnlyOutside
    <3> QED
      BY <3>3, <3>4, <3>5 DEF PolicyIsKept
  <2>6. CASE Publish \/ Request \/ Query
    <3>1. UNCHANGED call /\ step' \in {"client", "refused"}
      BY <2>6 DEF Publish, Request, Query
    <3>2. wire' = wire \/ (Send /\ WithinPolicy(call.topic))
      BY <2>6 DEF Publish, Request, Query, PolicyIsKept
    <3>3. OnlyWithinPolicy'
      BY <2>0, <3>2 DEF PolicyIsKept, OnlyWithinPolicy, Send
    <3>4. RefusedOnlyOutside'
      <4>1. step' = "refused" => call.tool = "request" /\ Response = NoText
        BY <2>6 DEF Publish, Request, Query
      <4> QED
        BY <2>0, <3>1, <4>1 DEF RefusedOnlyOutside, Response
    <3> QED
      BY <3>1, <3>3, <3>4 DEF PolicyIsKept
  <2>7. CASE UNCHANGED vars
    BY <2>0, <2>7 DEF vars, PolicyIsKept, OnlyWithinPolicy, RefusedOnlyOutside, Response
  <2> QED
    BY <2>2, <2>3, <2>4, <2>5, <2>6, <2>7 DEF Next
<1> QED
  BY <1>1, <1>2, PublishingTypes, PTL DEF Spec

\* Whatever tools are called, every message published stays on a prefix or below
\* one, level by level.
THEOREM PublishesWithinPolicy == Spec => []OnlyWithinPolicy
<1>1. PolicyIsKept => OnlyWithinPolicy
  BY DEF PolicyIsKept
<1> QED
  BY <1>1, PolicyIsAlwaysKept, PTL

\* And nothing within the policy is refused for it.
THEOREM RefusesWithReason == Spec => []RefusedOnlyOutside
<1>1. PolicyIsKept => RefusedOnlyOutside
  BY DEF PolicyIsKept
<1> QED
  BY <1>1, PolicyIsAlwaysKept, PTL
=============================================================================
