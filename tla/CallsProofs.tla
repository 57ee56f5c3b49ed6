----------------------------- MODULE CallsProofs -----------------------------
(***************************************************************************)
(* Proofs about Calls, for any number of concurrent calls.                 *)
(***************************************************************************)
EXTENDS Calls, TopicFilterProofs, FiniteSetTheorems, WellFoundedInduction

-----------------------------------------------------------------------------
(* The list of OnConnectionUp, by induction over the subscribe topics it   *)
(* has looked at.  As in PublishingProofs the induction is about a set of  *)
(* numbers.                                                                *)

LEMMA LeastNumber ==
    ASSUME NEW T, T \subseteq Nat, T # {}
    PROVE  \E x \in T : \A y \in T : x <= y
<1> DEFINE less == OpToRel(<, Nat)
<1>1. IsWellFoundedOn(less, Nat)
  BY NatLessThanWellFounded
<1>2. \A m, n \in Nat : m < n => <<m, n>> \in less
  BY DEF OpToRel
<1> HIDE DEF less
<1>3. PICK x \in T : \A y \in T : <<y, x>> \notin less
  BY <1>1, WFMin
<1>4. \A y \in T : x \in Nat /\ y \in Nat /\ ~(y < x)
  BY <1>2, <1>3
<1>5. \A y \in T : x <= y
  BY <1>4
<1> QED
  BY <1>5

LEMMA SetInduction ==
    ASSUME NEW T, 0 \in T, \A n \in Nat : n \in T => n + 1 \in T
    PROVE  \A n \in Nat : n \in T
<1> DEFINE rest == {n \in Nat : n \notin T}
<1>1. SUFFICES ASSUME rest # {}
               PROVE  FALSE
  OBVIOUS
<1>2. PICK x \in rest : \A y \in rest : x <= y
  BY <1>1, LeastNumber
<1>3. x \in Nat \ {0} /\ x - 1 \in Nat /\ x - 1 \notin rest
  BY <1>2
<1> QED
  BY <1>2, <1>3

\* ListUpTo is what its recursive definition says: there is such a function for
\* every number of topics.
IsListUpTo(m, f) ==
    f = [n \in 0 .. m |-> IF n = 0 THEN LogTopics ELSE WithTopic(f[n - 1], SubscribeTopics[n])]

LEMMA ListIsDefined ==
    /\ ListUpTo[0] = LogTopics
    /\ \A n \in 1 .. Len(SubscribeTopics) :
          ListUpTo[n] = WithTopic(ListUpTo[n - 1], SubscribeTopics[n])
<1> DEFINE T == {m \in Nat : \E f : IsListUpTo(m, f)}
<1>0. Len(SubscribeTopics) \in Nat
  BY CallsAssumption
<1>1. 0 \in T
  <2>1. IsListUpTo(0, [n \in 0 .. 0 |-> LogTopics])
    BY DEF IsListUpTo
  <2> QED
    BY <2>1
<1>2. ASSUME NEW m \in Nat, m \in T
      PROVE  m + 1 \in T
  <2>1. PICK f : IsListUpTo(m, f)
    BY <1>2
  <2> DEFINE g == [n \in 0 .. m + 1 |->
                      IF n = m + 1 THEN WithTopic(f[m], SubscribeTopics[m + 1]) ELSE f[n]]
  <2>2. \A n \in 0 .. m :
           f[n] = IF n = 0 THEN LogTopics ELSE WithTopic(f[n - 1], SubscribeTopics[n])
    BY <2>1 DEF IsListUpTo
  <2>3. \A n \in 0 .. m : g[n] = f[n]
    OBVIOUS
  <2>4. g[m + 1] = WithTopic(f[m], SubscribeTopics[m + 1])
    OBVIOUS
  <2>5. \A n \in 0 .. m + 1 :
           g[n] = IF n = 0 THEN LogTopics ELSE WithTopic(g[n - 1], SubscribeTopics[n])
    <3> SUFFICES ASSUME NEW n \in 0 .. m + 1
                 PROVE  g[n] = IF n = 0 THEN LogTopics
                                        ELSE WithTopic(g[n - 1], SubscribeTopics[n])
      OBVIOUS
    <3> HIDE DEF g
    <3>1. CASE n = m + 1
      BY <2>3, <2>4, <3>1
    <3>2. CASE n \in 0 .. m
      BY <2>2, <2>3, <3>2
    <3> QED
      BY <3>1, <3>2
  <2>6. IsListUpTo(m + 1, g)
    BY <2>5 DEF IsListUpTo
  <2> QED
    BY <2>6
<1> HIDE DEF T
<1>3. Len(SubscribeTopics) \in T
  BY <1>0, <1>1, <1>2, SetInduction
<1>4. \E f : IsListUpTo(Len(SubscribeTopics), f)
  BY <1>3 DEF T
<1>5. IsListUpTo(Len(SubscribeTopics), ListUpTo)
  BY <1>4 DEF IsListUpTo, ListUpTo
<1> QED
  BY <1>0, <1>5, SMTT(30) DEF IsListUpTo

\* The list holds every log topic and otherwise only subscribe topics, and each
\* subscribe topic is on it or is covered by one that is.
LEMMA ConnectListCovers ==
    /\ LogTopics \subseteq SubscribedOnConnect
    /\ SubscribedOnConnect \subseteq LogTopics \cup PermanentTopics
    /\ \A f \in PermanentTopics :
          f \in SubscribedOnConnect \/ CoveredByAny(SubscribedOnConnect, f)
<1> DEFINE L(n) == ListUpTo[n]
           t(i) == SubscribeTopics[i]
           Good(n) == /\ LogTopics \subseteq L(n)
                      /\ L(n) \subseteq LogTopics \cup PermanentTopics
                      /\ \A i \in 1 .. n : t(i) \in L(n) \/ CoveredByAny(L(n), t(i))
           T == {n \in Nat : n <= Len(SubscribeTopics) => Good(n)}
<1>0. /\ Len(SubscribeTopics) \in Nat
      /\ \A i \in 1 .. Len(SubscribeTopics) : t(i) \in PermanentTopics
      /\ \A f \in PermanentTopics : \E i \in 1 .. Len(SubscribeTopics) : t(i) = f
  BY CallsAssumption DEF PermanentTopics, Range
<1>1. 0 \in T
  BY ListIsDefined
<1>2. ASSUME NEW n \in Nat, n \in T
      PROVE  n + 1 \in T
  <2> SUFFICES ASSUME n + 1 <= Len(SubscribeTopics)
               PROVE  Good(n + 1)
    OBVIOUS
  <2>1. Good(n) /\ t(n + 1) \in PermanentTopics
    BY <1>0, <1>2
  <2>2. L(n + 1) = WithTopic(L(n), t(n + 1))
    BY <1>0, ListIsDefined
  <2> HIDE DEF L, t
  <2>3. /\ L(n) \subseteq L(n + 1)
        /\ L(n + 1) \subseteq L(n) \cup {t(n + 1)}
        /\ t(n + 1) \in L(n + 1) \/ CoveredByAny(L(n), t(n + 1))
    BY <2>2 DEF WithTopic
  <2>4. \A f : CoveredByAny(L(n), f) => CoveredByAny(L(n + 1), f)
    BY <2>3 DEF CoveredByAny
  <2>5. ASSUME NEW i \in 1 .. n + 1
        PROVE  t(i) \in L(n + 1) \/ CoveredByAny(L(n + 1), t(i))
    <3>1. CASE i = n + 1
      BY <2>3, <2>4, <3>1
    <3>2. CASE i \in 1 .. n
      BY <2>1, <2>3, <2>4, <3>2
    <3> QED
      BY <3>1, <3>2
  <2> QED
    BY <2>1, <2>3, <2>5
<1> HIDE DEF T
<1>3. Len(SubscribeTopics) \in T
  BY <1>0, <1>1, <1>2, SetInduction
<1>4. Good(Len(SubscribeTopics))
  BY <1>0, <1>3 DEF T
<1> QED
  BY <1>0, <1>4 DEF SubscribedOnConnect

-----------------------------------------------------------------------------

\* The hypothesis the safety of Query rests on: no call is for the very filter
\* of a log topic (unless a subscribe topic covers it).
LogTopicsAreLeft == \A c \in Calls : FilterOf[c] \in LogTopics => IsPermanent(c)

\* What OnConnectionUp subscribed to, the broker keeps, and a call for a
\* permanent topic never gets to its Unsubscribe.
ConnectSubsStay ==
    /\ subs \in [Filters -> {"none", "noLocal", "plain"}]
    /\ \A f \in SubscribedOnConnect : subs[f] # "none"
    /\ DOMAIN pc = Calls
    /\ \A c \in Calls : pc[c] = "unsubscribe" => ~IsPermanent(c)

\* A step that does not enter or perform an Unsubscribe, or change subs.
LEMMA MovesKeep ==
    ASSUME ConnectSubsStay, UNCHANGED subs,
           NEW c \in Calls, NEW place,
           Goto(c, place), place = "unsubscribe" => ~IsPermanent(c)
    PROVE  ConnectSubsStay'
<1>1. \A d \in Calls : IsPermanent(d)' <=> IsPermanent(d)
  BY DEF IsPermanent
<1>2. /\ DOMAIN pc' = Calls
      /\ \A d \in Calls : pc'[d] = IF d = c THEN place ELSE pc[d]
  BY DEF Goto, ConnectSubsStay
<1>3. \A d \in Calls : pc'[d] = "unsubscribe" => ~IsPermanent(d)
  BY <1>2 DEF ConnectSubsStay
<1> QED
  BY <1>1, <1>2, <1>3 DEF ConnectSubsStay, SubscribedOnConnect

\* The filters of the connection are among those of the model, and of these a
\* call for one is for a permanent topic.
LEMMA ConnectFiltersArePermanent ==
    ASSUME LogTopicsAreLeft
    PROVE  /\ SubscribedOnConnect \subseteq Filters
           /\ \A c \in Calls : FilterOf[c] \in SubscribedOnConnect => IsPermanent(c)
  BY ConnectListCovers DEF Filters, LogTopicsAreLeft, IsPermanent, IsPermanentTopic

\* Under the hypothesis no call ever removes a subscription of the connection.
LEMMA ConnectSubsAreKept ==
    ASSUME LogTopicsAreLeft
    PROVE  Spec => []ConnectSubsStay
<1>0. /\ SubscribedOnConnect \subseteq Filters
      /\ \A c \in Calls : FilterOf[c] \in SubscribedOnConnect => IsPermanent(c)
  BY ConnectFiltersArePermanent
<1>1. Init => ConnectSubsStay
  BY <1>0 DEF Init, ConnectSubsStay
<1>2. ConnectSubsStay /\ [Next]_vars => ConnectSubsStay'
  <2> SUFFICES ASSUME ConnectSubsStay, [Next]_vars
               PROVE  ConnectSubsStay'
    OBVIOUS
  <2>0. \A c \in Calls : Cleanup(c) = "unsubscribe" => ~IsPermanent(c)
    BY DEF Cleanup
  <2>1. ASSUME NEW c \in Calls, Start(c)
        PROVE  ConnectSubsStay'
    BY <2>1, MovesKeep DEF Start
  <2>2. ASSUME NEW c \in Calls, CallStep(c)
        PROVE  ConnectSubsStay'
    <3>1. CASE SubscribeSend(c)
      <4>1. FilterOf[c] \in Filters
        BY DEF Filters
      <4>2. /\ subs' \in [Filters -> {"none", "noLocal", "plain"}]
            /\ \A f \in SubscribedOnConnect : subs'[f] # "none"
        BY <1>0, <3>1, <4>1 DEF SubscribeSend, ConnectSubsStay
      <4>3. /\ DOMAIN pc' = Calls
            /\ \A d \in Calls : pc'[d] = "unsubscribe" => ~IsPermanent(d)
        BY <3>1 DEF SubscribeSend, ConnectSubsStay, Goto
      <4> QED
        BY <4>2, <4>3 DEF ConnectSubsStay, SubscribedOnConnect, IsPermanent
    <3>2. CASE Unsubscribe(c)
      <4>1. FilterOf[c] \notin SubscribedOnConnect
        BY <1>0, <3>2 DEF Unsubscribe, ConnectSubsStay
      <4>2. /\ subs' \in [Filters -> {"none", "noLocal", "plain"}]
            /\ \A f \in SubscribedOnConnect : subs'[f] # "none"
        BY <1>0, <3>2, <4>1 DEF Unsubscribe, ConnectSubsStay
      <4>3. /\ DOMAIN pc' = Calls
            /\ \A d \in Calls : pc'[d] = "unsubscribe" => ~IsPermanent(d)
        BY <3>2 DEF Unsubscribe, ConnectSubsStay, Goto
      <4> QED
        BY <4>2, <4>3 DEF ConnectSubsStay, SubscribedOnConnect, IsPermanent
    <3>3. CASE SubscribeFails(c) \/ Suback(c)
      BY <3>3, MovesKeep DEF SubscribeFails, Suback
    <3>4. CASE PublishSend(c) \/ Puback(c)
      BY <3>4, MovesKeep DEF PublishSend, Puback
    <3>5. CASE PublishFails(c)
      BY <3>5, <2>0, MovesKeep DEF PublishFails
    <3>6. CASE Collect(c) \/ TakeAnswer(c) \/ Timeout(c)
      BY <3>6, <2>0, MovesKeep DEF Collect, TakeAnswer, Timeout
    <3>7. CASE RemoveHandler(c)
      BY <3>7, MovesKeep DEF RemoveHandler
    <3> QED
      BY <2>2, <3>1, <3>2, <3>3, <3>4, <3>5, <3>6, <3>7 DEF CallStep
  <2>3. CASE LinkUp
    <3>1. /\ subs' \in [Filters -> {"none", "noLocal", "plain"}]
          /\ \A f \in SubscribedOnConnect : subs'[f] # "none"
      BY <1>0, <2>3 DEF LinkUp, ConnectSubsStay
    <3> QED
      BY <2>3, <3>1 DEF LinkUp, ConnectSubsStay, SubscribedOnConnect, IsPermanent
  <2>4. CASE UNCHANGED <<subs, pc>>
    BY <2>4 DEF ConnectSubsStay, SubscribedOnConnect, IsPermanent
  <2> QED
    BY <2>1, <2>2, <2>3, <2>4
    DEF Next, vars, Dispatch, PeerAnswers, PeerPublishes, LinkDown
<1> QED
  BY <1>1, <1>2, PTL DEF Spec

\* No filter of the configuration has a "+" where a subscribe topic ends in "#"
\* (module TopicFilter).
NoPlusOverHash ==
    \A p \in LogTopics \cup PermanentTopics, q \in PermanentTopics : ~PlusOverHash(p, q)

\* While the entries of OnConnectionUp stay, a topic that a subscribe topic
\* matches is matched by one of them.
LEMMA PermanentIsActive ==
    ASSUME LogTopicsAreLeft, NoPlusOverHash, ConnectSubsStay,
           NEW f \in PermanentTopics, NEW t \in Seq(STRING), IsTopic(t), Matches(f, t)
    PROVE  \E g \in Active : Matches(g, t)
<1>1. SubscribedOnConnect \subseteq Active
  BY ConnectFiltersArePermanent DEF ConnectSubsStay, Active
<1>2. CASE f \in SubscribedOnConnect
  BY <1>1, <1>2
<1>3. CASE f \notin SubscribedOnConnect
  <2>1. PICK p \in SubscribedOnConnect : MqttMatch(p, f)
    BY <1>3, ConnectListCovers DEF CoveredByAny
  <2>2. p \in LogTopics \cup PermanentTopics
    BY ConnectListCovers
  <2>3. Matches(p, t)
    BY <2>1, <2>2, CoverIsSound, CallsAssumption DEF Filters, NoPlusOverHash
  <2> QED
    BY <1>1, <2>1, <2>3
<1> QED
  BY <1>2, <1>3

\* A Query, Who or Request never makes the agent deaf on its subscribe topics:
\* whatever calls run, fail or overlap, and however often the link breaks, an
\* entry that OnConnectionUp made still matches, if no call names a log topic
\* and no configured filter puts a "+" where a subscribe topic ends in "#".
THEOREM AgentIsNotDeafened ==
    ASSUME LogTopicsAreLeft, NoPlusOverHash
    PROVE  Spec => []AgentStaysReachable
<1>1. ConnectSubsStay => AgentStaysReachable
  BY PermanentIsActive, CallsAssumption DEF AgentStaysReachable
<1> QED
  BY <1>1, ConnectSubsAreKept, PTL

\* SetToSeq lists each element of a finite set.
LEMMA SetToSeqLists ==
    ASSUME NEW S, IsFiniteSet(S)
    PROVE  /\ SetToSeq(S) \in Seq(S)
           /\ \A x \in S : \E i \in 1 .. Len(SetToSeq(S)) : SetToSeq(S)[i] = x
<1> DEFINE n == Cardinality(S)
           s == SetToSeq(S)
<1>1. n \in Nat /\ ExistsBijection(1 .. n, S)
  BY FS_CardinalityType
<1>2. PICK g \in Bijection(1 .. n, S) : TRUE
  BY <1>1 DEF ExistsBijection
<1>3. g \in [1 .. n -> S] /\ IsInjective(g)
  BY <1>2 DEF Bijection, Injection
<1>4. s \in [1 .. n -> S] /\ IsInjective(s)
  BY <1>3 DEF SetToSeq
<1>5. s \in Seq(S) /\ Len(s) = n
  BY <1>1, <1>4
<1>6. s \in Surjection(1 .. n, S)
  <2>1. s \in Injection(1 .. n, S)
    BY <1>4 DEF Injection
  <2>2. Cardinality(1 .. n) = n
    BY <1>1, FS_Interval
  <2> QED
    BY <2>1, <2>2, FS_Injection
<1>7. \A x \in S : \E i \in 1 .. n : s[i] = x
  BY <1>6 DEF Surjection
<1> QED
  BY <1>5, <1>7

\* The messages a SUBSCRIBE makes the broker send are the retained ones of the
\* topics its filter matches.
LEMMA RetainedAreSent ==
    ASSUME NEW f
    PROVE  /\ RetainedFor(f) \in Seq(Message)
           /\ \A t \in RetainedTopics : Matches(f, t) =>
                 \E i \in 1 .. Len(RetainedFor(f)) :
                    RetainedFor(f)[i] = [topic |-> t, from |-> NoCall]
           /\ \A i \in 1 .. Len(RetainedFor(f)) : \E t \in RetainedTopics :
                 RetainedFor(f)[i] = [topic |-> t, from |-> NoCall]
<1> DEFINE T == {x \in RetainedTopics : Matches(f, x)}
           S == {[topic |-> t, from |-> NoCall] : t \in T}
<1>1. IsFiniteSet(T)
  BY CallsAssumption, FS_Subset
<1>2. IsFiniteSet(S)
  <2> DEFINE g == [t \in T |-> [topic |-> t, from |-> NoCall]]
  <2>1. g \in Surjection(T, S)
    BY DEF Surjection
  <2> QED
    BY <1>1, <2>1, FS_Surjection
<1>3. S \subseteq Message
  BY DEF Message
<1>4. RetainedFor(f) = SetToSeq(S)
  BY DEF RetainedFor
<1> HIDE DEF S
<1>5. RetainedFor(f) \in Seq(S)
  BY <1>2, <1>4, SetToSeqLists
<1>6. RetainedFor(f) \in Seq(Message)
  BY <1>3, <1>5
<1>7. \A x \in S : \E i \in 1 .. Len(RetainedFor(f)) : RetainedFor(f)[i] = x
  BY <1>2, <1>4, SetToSeqLists
<1>8. \A i \in 1 .. Len(RetainedFor(f)) : RetainedFor(f)[i] \in S
  BY <1>5
<1> QED
  BY <1>6, <1>7, <1>8 DEF S

-----------------------------------------------------------------------------
\* A call that only moves keeps the types.
LEMMA MovesKeepTypes ==
    ASSUME TypeOK, NEW c \in Calls, NEW place \in Places, Goto(c, place),
           UNCHANGED <<outcome, got, link, drops, subs, inbox, asked, answered, traffic>>
    PROVE  TypeOK'
  BY DEF TypeOK, Goto

\* A call that moves and returns keeps the types.
LEMMA ReturnsKeepTypes ==
    ASSUME TypeOK, NEW c \in Calls, NEW place \in Places, Goto(c, place),
           NEW what \in {"ok", "other", "error"}, Return(c, what),
           UNCHANGED <<got, link, drops, subs, inbox, asked, answered, traffic>>
    PROVE  TypeOK'
  BY DEF TypeOK, Goto, Return

\* Every variable keeps its type; in particular a Request's channel never holds
\* more than one message.
THEOREM CallsTypes == Spec => []TypeOK
<1> USE CallsAssumption
<1>1. Init => TypeOK
  <2> SUFFICES ASSUME Init
               PROVE  TypeOK
    OBVIOUS
  <2>1. \A r \in Requests : Cardinality(got[r]) <= 1
    BY FS_EmptySet DEF Init, Calls
  <2>2. pc \in [Calls -> Places] /\ outcome \in [Calls -> {"none", "ok", "other", "error"}]
    BY DEF Init, Places
  <2>3. subs \in [Filters -> {"none", "noLocal", "plain"}]
    BY DEF Init
  <2>4. got \in [Calls -> SUBSET Message]
    BY DEF Init
  <2>5. link \in {"up", "down"} /\ asked \subseteq Requests /\ answered \subseteq Requests
    BY DEF Init
  <2>6. drops \in 0 .. MaxDrops /\ traffic \in 0 .. MaxTraffic
    BY DEF Init
  <2>7. inbox \in Seq(Message)
    BY DEF Init
  <2> QED
    BY <2>1, <2>2, <2>3, <2>4, <2>5, <2>6, <2>7 DEF TypeOK
<1>2. TypeOK /\ [Next]_vars => TypeOK'
  <2> SUFFICES ASSUME TypeOK, [Next]_vars
               PROVE  TypeOK'
    OBVIOUS
  <2>0. \A c \in Calls : Cleanup(c) \in Places
    BY DEF Cleanup, Places
  <2>1. ASSUME NEW c \in Calls, Start(c)
        PROVE  TypeOK'
    <3>1. CASE UNCHANGED outcome
      <4>1. \E place \in Places : Goto(c, place)
        BY <2>1 DEF Start, Places
      <4> QED
        BY <2>1, <3>1, <4>1, MovesKeepTypes DEF Start
    <3>2. CASE Goto(c, "done") /\ Return(c, "error")
      BY <2>1, <3>2, ReturnsKeepTypes DEF Start, Places
    <3> QED
      BY <2>1, <3>1, <3>2 DEF Start
  <2>2. ASSUME NEW c \in Calls, CallStep(c)
        PROVE  TypeOK'
    <3>1. CASE SubscribeSend(c)
      <4>1. FilterOf[c] \in Filters
        BY DEF Filters
      <4>2. subs' \in [Filters -> {"none", "noLocal", "plain"}]
        BY <3>1, <4>1 DEF SubscribeSend, TypeOK
      <4>3. inbox' \in Seq(Message)
        BY <3>1, RetainedAreSent DEF SubscribeSend, TypeOK
      <4>4. pc' \in [Calls -> Places]
        BY <3>1 DEF SubscribeSend, TypeOK, Goto, Places
      <4> QED
        BY <3>1, <4>2, <4>3, <4>4 DEF SubscribeSend, TypeOK
    <3>2. CASE SubscribeFails(c)
      BY <3>2, ReturnsKeepTypes DEF SubscribeFails, Places
    <3>3. CASE Suback(c)
      <4>1. \E place \in Places : Goto(c, place)
        BY <3>3 DEF Suback, Places
      <4> QED
        BY <3>3, <4>1, MovesKeepTypes DEF Suback
    <3>4. CASE PublishSend(c)
      <4>1. c \in Requests
        BY <3>4 DEF PublishSend
      <4>2. pc' \in [Calls -> Places]
        BY <3>4 DEF PublishSend, TypeOK, Goto, Places
      <4> QED
        BY <3>4, <4>1, <4>2 DEF PublishSend, TypeOK
    <3>5. CASE PublishFails(c)
      BY <3>5, <2>0, ReturnsKeepTypes DEF PublishFails
    <3>6. CASE Puback(c)
      BY <3>6, MovesKeepTypes DEF Puback, Places
    <3>7. CASE Collect(c)
      BY <3>7, <2>0, ReturnsKeepTypes DEF Collect
    <3>8. CASE TakeAnswer(c)
      <4>1. \E what \in {"ok", "other"} : Return(c, what)
        BY <3>8 DEF TakeAnswer
      <4> QED
        BY <3>8, <4>1, <2>0, ReturnsKeepTypes DEF TakeAnswer
    <3>9. CASE Timeout(c)
      BY <3>9, <2>0, ReturnsKeepTypes DEF Timeout
    <3>10. CASE Unsubscribe(c)
      <4>1. FilterOf[c] \in Filters
        BY DEF Filters
      <4>2. subs' \in [Filters -> {"none", "noLocal", "plain"}]
        BY <3>10, <4>1 DEF Unsubscribe, TypeOK
      <4>3. pc' \in [Calls -> Places]
        BY <3>10 DEF Unsubscribe, TypeOK, Goto, Places
      <4> QED
        BY <3>10, <4>2, <4>3 DEF Unsubscribe, TypeOK
    <3>11. CASE RemoveHandler(c)
      <4>1. pc' \in [Calls -> Places] /\ got' \in [Calls -> SUBSET Message]
        BY <3>11 DEF RemoveHandler, TypeOK, Goto, Places
      <4>2. \A r \in Requests : Cardinality(got'[r]) <= 1
        BY <3>11, FS_EmptySet DEF RemoveHandler, TypeOK, Calls
      <4> QED
        BY <3>11, <4>1, <4>2 DEF RemoveHandler, TypeOK
    <3> QED
      BY <2>2, <3>1, <3>2, <3>3, <3>4, <3>5, <3>6, <3>7, <3>8, <3>9, <3>10, <3>11
      DEF CallStep
  <2>3. CASE Dispatch
    <3>1. Head(inbox) \in Message /\ inbox' \in Seq(Message)
      BY <2>3 DEF Dispatch, TypeOK
    <3>2. got' \in [Calls -> SUBSET Message]
      BY <2>3, <3>1 DEF Dispatch, TypeOK
    <3>3. ASSUME NEW r \in Requests
          PROVE  Cardinality(got'[r]) <= 1
      <4>1. r \in Calls /\ r \notin Queries
        BY DEF Calls
      <4>2. CASE Keeps(r, Head(inbox))
        <5>1. got'[r] = {Head(inbox)}
          BY <2>3, <4>1, <4>2 DEF Dispatch, Keeps
        <5>2. Cardinality({Head(inbox)}) = 1
          BY FS_Singleton
        <5> QED
          BY <5>1, <5>2
      <4>3. CASE ~Keeps(r, Head(inbox))
        <5>1. got'[r] = got[r]
          BY <2>3, <4>1, <4>3 DEF Dispatch
        <5>2. Cardinality(got[r]) <= 1
          BY DEF TypeOK
        <5> QED
          BY <5>1, <5>2
      <4> QED
        BY <4>2, <4>3
    <3> QED
      BY <2>3, <3>1, <3>2, <3>3 DEF Dispatch, TypeOK
  <2>4. ASSUME NEW r \in Requests, PeerAnswers(r)
        PROVE  TypeOK'
    <3>1. [topic |-> FilterOf[r], from |-> r] \in Message
      BY DEF Message
    <3>2. inbox' \in Seq(Message)
      BY <2>4, <3>1 DEF PeerAnswers, Send, TypeOK
    <3> QED
      BY <2>4, <3>2 DEF PeerAnswers, TypeOK
  <2>5. ASSUME NEW t \in TaskTopics, PeerPublishes(t)
        PROVE  TypeOK'
    <3>1. [topic |-> t, from |-> NoCall] \in Message
      BY DEF Message
    <3>2. inbox' \in Seq(Message)
      BY <2>5, <3>1 DEF PeerPublishes, Send, TypeOK
    <3> QED
      BY <2>5, <3>2 DEF PeerPublishes, TypeOK
  <2>6. CASE LinkDown
    BY <2>6 DEF LinkDown, TypeOK
  <2>7. CASE LinkUp
    <3>1. subs' \in [Filters -> {"none", "noLocal", "plain"}]
      BY <2>7 DEF LinkUp, TypeOK
    <3> QED
      BY <2>7, <3>1 DEF LinkUp, TypeOK
  <2>8. CASE UNCHANGED vars
    BY <2>8 DEF vars, TypeOK
  <2> QED
    BY <2>1, <2>2, <2>3, <2>4, <2>5, <2>6, <2>7, <2>8 DEF Next
<1> QED
  BY <1>1, <1>2, PTL DEF Spec

-----------------------------------------------------------------------------
\* The moves of a call: what it does to itself, and to the other calls nothing.
LEMMA StepsOfACall ==
    ASSUME TypeOK, NEW c \in Calls, Start(c) \/ CallStep(c)
    PROVE  /\ \A d \in Calls \ {c} : /\ pc'[d] = pc[d]
                                     /\ outcome'[d] = outcome[d]
                                     /\ got'[d] = got[d]
           /\ pc'[c] \in Places \ {"idle"}
           /\ pc'[c] = "subscribe" => pc[c] = "idle" /\ Subscribes(c)
           /\ pc'[c] = "suback" => SubscribeSend(c)
           /\ pc'[c] = "publish" => \/ pc[c] = "idle" /\ ~Subscribes(c)
                                    \/ pc[c] = "suback" /\ c \notin Queries
           /\ pc'[c] = "puback" => PublishSend(c)
           /\ pc'[c] = "wait" => \/ pc[c] = "puback"
                                 \/ pc[c] = "suback" /\ c \in Queries
           /\ pc'[c] = "unsubscribe" => ~IsPermanent(c)
           /\ got'[c] = got[c] \/ pc'[c] = "done"
           /\ outcome'[c] = outcome[c] \/ pc[c] \notin {"unsubscribe", "remove", "done"}
           /\ outcome'[c] = "none" \/ pc'[c] \in {"unsubscribe", "remove", "done"}
              \/ outcome[c] # "none"
<1>0. pc \in [Calls -> Places] /\ got \in [Calls -> SUBSET Message] /\ DOMAIN outcome = Calls
  BY DEF TypeOK
<1>1. CASE Start(c)
  BY <1>0, <1>1 DEF Start, Places, Goto, Return
<1>2. CASE SubscribeSend(c)
  BY <1>0, <1>2 DEF SubscribeSend, Places, Goto
<1>3. CASE SubscribeFails(c)
  BY <1>0, <1>3 DEF SubscribeFails, Places, Goto, Return
<1>4. CASE Suback(c)
  BY <1>0, <1>4 DEF Suback, Places, Goto
<1>5. CASE PublishSend(c)
  BY <1>0, <1>5 DEF PublishSend, Places, Goto
<1>6. CASE PublishFails(c)
  BY <1>0, <1>6 DEF PublishFails, Places, Goto, Return, Cleanup
<1>7. CASE Puback(c)
  BY <1>0, <1>7 DEF Puback, Places, Goto
<1>8. CASE Collect(c)
  BY <1>0, <1>8 DEF Collect, Places, Goto, Return, Cleanup
<1>9. CASE TakeAnswer(c)
  BY <1>0, <1>9 DEF TakeAnswer, Places, Goto, Return, Cleanup
<1>10. CASE Timeout(c)
  BY <1>0, <1>10 DEF Timeout, Places, Goto, Return, Cleanup
<1>11. CASE Unsubscribe(c)
  BY <1>0, <1>11 DEF Unsubscribe, Places, Goto
<1>12. CASE RemoveHandler(c)
  BY <1>0, <1>12 DEF RemoveHandler, Places, Goto
<1> QED
  BY <1>1, <1>2, <1>3, <1>4, <1>5, <1>6, <1>7, <1>8, <1>9, <1>10, <1>11, <1>12
  DEF CallStep

\* m is on its way from the broker to the handlers.
Pending(m) == \E i \in 1 .. Len(inbox) : inbox[i] = m

\* What the broker sends joins the messages on the way.
LEMMA MoreIsPending ==
    ASSUME inbox \in Seq(Message), NEW s \in Seq(Message), inbox' = inbox \o s
    PROVE  /\ \A m : Pending(m) => Pending(m)'
           /\ \A i \in 1 .. Len(s) : Pending(s[i])'
<1>1. /\ Len(inbox') = Len(inbox) + Len(s)
      /\ \A i \in 1 .. Len(inbox) : inbox'[i] = inbox[i]
      /\ \A i \in 1 .. Len(s) : inbox'[Len(inbox) + i] = s[i]
      /\ Len(inbox) \in Nat /\ Len(s) \in Nat
  OBVIOUS
<1>2. ASSUME NEW m, Pending(m)
      PROVE  Pending(m)'
  BY <1>1, <1>2 DEF Pending
<1>3. ASSUME NEW i \in 1 .. Len(s)
      PROVE  Pending(s[i])'
  <2>1. Len(inbox) + i \in 1 .. Len(inbox') /\ inbox'[Len(inbox) + i] = s[i]
    BY <1>1
  <2> QED
    BY <2>1 DEF Pending
<1> QED
  BY <1>2, <1>3

\* A message sent is on the way if a subscription matches it.
LEMMA SentIsPending ==
    ASSUME inbox \in Seq(Message), NEW m \in Message, Send(m)
    PROVE  /\ \A n : Pending(n) => Pending(n)'
           /\ Routed(m) => Pending(m)'
<1>1. CASE Routed(m)
  <2>1. inbox' = Append(inbox, m)
    BY <1>1 DEF Send
  <2>2. /\ Len(inbox') = Len(inbox) + 1 /\ Len(inbox) \in Nat
        /\ \A i \in 1 .. Len(inbox) : inbox'[i] = inbox[i]
        /\ inbox'[Len(inbox) + 1] = m
    BY <2>1
  <2> QED
    BY <2>2 DEF Pending
<1>2. CASE ~Routed(m)
  <2>1. inbox' = inbox
    BY <1>2 DEF Send
  <2> QED
    BY <2>1, <1>2 DEF Pending
<1> QED
  BY <1>1, <1>2

\* A dispatch delivers the first message, and the others stay on the way.
LEMMA OthersStayPending ==
    ASSUME inbox \in Seq(Message), Dispatch
    PROVE  \A m : Pending(m) => m = Head(inbox) \/ Pending(m)'
<1>1. inbox' = Tail(inbox) /\ inbox # <<>>
  BY DEF Dispatch
<1>2. /\ Len(inbox') = Len(inbox) - 1 /\ Len(inbox) \in Nat /\ Head(inbox) = inbox[1]
      /\ \A j \in 1 .. Len(inbox) - 1 : inbox'[j] = inbox[j + 1]
  BY <1>1
<1>3. ASSUME NEW i \in 1 .. Len(inbox), i # 1
      PROVE  i - 1 \in 1 .. Len(inbox') /\ inbox'[i - 1] = inbox[i]
  BY <1>2, <1>3
<1> QED
  BY <1>2, <1>3 DEF Pending

-----------------------------------------------------------------------------
\* What a step of a call does outside the call.
LEMMA EffectsOfACall ==
    ASSUME NEW c \in Calls, Start(c) \/ CallStep(c)
    PROVE  /\ link' = link /\ drops' = drops /\ answered' = answered /\ traffic' = traffic
           /\ asked' = asked \/ PublishSend(c)
           /\ subs' = subs \/ SubscribeSend(c) \/ Unsubscribe(c)
           /\ inbox' = inbox \/ SubscribeSend(c)
           /\ got' = got \/ RemoveHandler(c)
<1>1. CASE Start(c)
  BY <1>1 DEF Start
<1>2. CASE SubscribeSend(c) \/ PublishSend(c) \/ Unsubscribe(c)
  BY <1>2 DEF SubscribeSend, PublishSend, Unsubscribe
<1>3. CASE SubscribeFails(c) \/ Suback(c) \/ PublishFails(c) \/ Puback(c)
  BY <1>3 DEF SubscribeFails, Suback, PublishFails, Puback
<1>4. CASE Collect(c) \/ TakeAnswer(c) \/ Timeout(c) \/ RemoveHandler(c)
  BY <1>4 DEF Collect, TakeAnswer, Timeout, RemoveHandler
<1> QED
  BY <1>1, <1>2, <1>3, <1>4 DEF CallStep

\* No step but a call's own moves a call.
LEMMA OnlyCallsMove ==
    ASSUME [Next]_vars, ~\E c \in Calls : Start(c) \/ CallStep(c)
    PROVE  /\ UNCHANGED <<pc, outcome>>
           /\ got' = got \/ Dispatch
           /\ asked' \cup answered' = asked \cup answered
           /\ subs' = subs \/ LinkUp
           /\ inbox' = inbox \/ Dispatch \/ (\E r \in Requests : PeerAnswers(r))
              \/ (\E t \in TaskTopics : PeerPublishes(t))
<1>1. CASE Dispatch
  BY <1>1 DEF Dispatch
<1>2. CASE \E r \in Requests : PeerAnswers(r)
  BY <1>2 DEF PeerAnswers
<1>3. CASE \E t \in TaskTopics : PeerPublishes(t)
  BY <1>3 DEF PeerPublishes
<1>4. CASE LinkDown \/ LinkUp
  BY <1>4 DEF LinkDown, LinkUp
<1>5. CASE UNCHANGED vars
  BY <1>5 DEF vars
<1> QED
  BY <1>1, <1>2, <1>3, <1>4, <1>5 DEF Next

\* Where a call can be: a Query never publishes, only a call that has to
\* subscribe does, one that has returned is cleaning up, and a peer knows of a
\* Request only once it is past its PUBLISH.
CallsInStep ==
    /\ \A q \in Queries : pc[q] \notin {"publish", "puback"}
    /\ \A c \in Calls : pc[c] = "subscribe" => Subscribes(c)
    /\ \A c \in Calls : pc[c] = "unsubscribe" => ~IsPermanent(c)
    /\ \A c \in Calls : outcome[c] = "none" \/ pc[c] \in {"unsubscribe", "remove", "done"}
    /\ \A r \in Requests \cap (asked \cup answered) :
           pc[r] \notin {"idle", "subscribe", "suback", "publish"}

LEMMA CallsAreInStep == Spec => []CallsInStep
<1>1. Init => CallsInStep
  BY DEF Init, CallsInStep, Calls
<1>2. TypeOK /\ CallsInStep /\ [Next]_vars => CallsInStep'
  <2> SUFFICES ASSUME TypeOK, CallsInStep, [Next]_vars
               PROVE  CallsInStep'
    OBVIOUS
  <2>0. /\ \A c \in Calls : Subscribes(c)' <=> Subscribes(c)
        /\ \A c \in Calls : IsPermanent(c)' <=> IsPermanent(c)
        /\ Queries \subseteq Calls /\ Requests \subseteq Calls /\ Queries \cap Requests = {}
    BY CallsAssumption DEF Subscribes, IsPermanent, Calls
  <2>1. ASSUME NEW c \in Calls, Start(c) \/ CallStep(c)
        PROVE  CallsInStep'
    <3>1. \A q \in Queries : pc'[q] \notin {"publish", "puback"}
      <4>1. CASE pc'[c] = "puback"
        BY <2>0, <2>1, <4>1, StepsOfACall DEF CallsInStep, PublishSend
      <4>2. CASE pc'[c] # "puback"
        BY <2>0, <2>1, <4>2, StepsOfACall DEF CallsInStep, Subscribes
      <4> QED
        BY <4>1, <4>2
    <3>2. \A d \in Calls : pc'[d] = "subscribe" => Subscribes(d)
      BY <2>1, StepsOfACall DEF CallsInStep
    <3>3. \A d \in Calls : pc'[d] = "unsubscribe" => ~IsPermanent(d)
      BY <2>1, StepsOfACall DEF CallsInStep
    <3>4. \A d \in Calls : outcome'[d] = "none" \/ pc'[d] \in {"unsubscribe", "remove", "done"}
      <4>1. CASE outcome[c] = "none"
        BY <2>1, <4>1, StepsOfACall DEF CallsInStep
      <4>2. CASE outcome[c] # "none"
        <5>1. pc[c] \in {"unsubscribe", "remove", "done"}
          BY <4>2 DEF CallsInStep
        <5>2. pc'[c] \in {"unsubscribe", "remove", "done"}
          BY <2>1, <5>1, StepsOfACall DEF SubscribeSend, PublishSend, Places
        <5> QED
          BY <2>1, <5>2, StepsOfACall DEF CallsInStep
      <4> QED
        BY <4>1, <4>2
    <3>5. ASSUME NEW r \in Requests, r \in asked' \cup answered'
          PROVE  pc'[r] \notin {"idle", "subscribe", "suback", "publish"}
      <4>1. CASE PublishSend(c)
        BY <2>0, <2>1, <3>5, <4>1 DEF PublishSend, Goto, CallsInStep, TypeOK
      <4>2. CASE ~PublishSend(c)
        <5>1. r \in asked \cup answered
          BY <2>1, <3>5, <4>2, EffectsOfACall
        <5>2. pc[r] \notin {"idle", "subscribe", "suback", "publish"}
          BY <5>1 DEF CallsInStep
        <5>3. CASE r = c
          BY <2>1, <5>2, <5>3, StepsOfACall DEF SubscribeSend
        <5>4. CASE r # c
          BY <2>0, <2>1, <5>2, <5>4, StepsOfACall
        <5> QED
          BY <5>3, <5>4
      <4> QED
        BY <4>1, <4>2
    <3> QED
      BY <2>0, <3>1, <3>2, <3>3, <3>4, <3>5 DEF CallsInStep
  <2>2. CASE ~\E c \in Calls : Start(c) \/ CallStep(c)
    BY <2>0, <2>2, OnlyCallsMove DEF CallsInStep
  <2> QED
    BY <2>1, <2>2
<1> QED
  BY <1>1, <1>2, CallsTypes, PTL DEF Spec

-----------------------------------------------------------------------------
\* A Query misses no retained message, whatever the other calls and the link do
\* while it is subscribed.
THEOREM RetainedIsCollected == Spec => []RetainedCollected
<1> USE CallsAssumption
<1>1. Init => RetainedCollected
  BY DEF Init, RetainedCollected, Calls
<1>2. TypeOK /\ CallsInStep /\ RetainedCollected /\ [Next]_vars => RetainedCollected'
  <2> SUFFICES ASSUME TypeOK, CallsInStep, RetainedCollected, [Next]_vars,
                      NEW q \in Queries, NEW t \in RetainedTopics,
                      pc'[q] \in {"suback", "wait"}, Matches(FilterOf[q], t)
               PROVE  LET m == [topic |-> t, from |-> NoCall]
                      IN  m \in got'[q] \/ Pending(m)'
    BY DEF RetainedCollected, Pending
  <2> DEFINE m == [topic |-> t, from |-> NoCall]
  <2>0. /\ pc[q] \in {"suback", "wait"} => m \in got[q] \/ Pending(m)
        /\ q \in Calls /\ m \in Message /\ inbox \in Seq(Message)
    BY DEF RetainedCollected, Pending, Calls, Message, TypeOK
  <2> HIDE DEF m
  <2>1. ASSUME NEW c \in Calls, Start(c) \/ CallStep(c)
        PROVE  m \in got'[q] \/ Pending(m)'
    <3>1. CASE SubscribeSend(c)
      <4>0. /\ RetainedFor(FilterOf[c]) \in Seq(Message) /\ got' = got
            /\ inbox' = inbox \o RetainedFor(FilterOf[c])
        BY <3>1, RetainedAreSent DEF SubscribeSend
      <4>1. CASE c = q
        <5>1. PICK i \in 1 .. Len(RetainedFor(FilterOf[c])) : RetainedFor(FilterOf[c])[i] = m
          BY <4>1, RetainedAreSent DEF m
        <5>2. Pending(RetainedFor(FilterOf[c])[i])'
          BY <2>0, <4>0, MoreIsPending
        <5> QED
          BY <5>1, <5>2 DEF Pending
      <4>2. CASE c # q
        <5>1. pc[q] \in {"suback", "wait"}
          BY <2>0, <2>1, <4>2, StepsOfACall
        <5>2. CASE m \in got[q]
          BY <4>0, <5>2
        <5>3. CASE Pending(m)
          BY <2>0, <4>0, <5>3, MoreIsPending
        <5> QED
          BY <2>0, <5>1, <5>2, <5>3
      <4> QED
        BY <4>1, <4>2
    <3>2. CASE ~SubscribeSend(c)
      <4>1. pc[q] \in {"suback", "wait"}
        BY <2>0, <2>1, <3>2, StepsOfACall DEF CallsInStep
      <4>2. inbox' = inbox
        BY <2>1, <3>2, EffectsOfACall
      <4>3. got'[q] = got[q]
        BY <2>0, <2>1, StepsOfACall
      <4>4. Pending(m) => Pending(m)'
        BY <4>2 DEF Pending
      <4> QED
        BY <2>0, <4>1, <4>3, <4>4
    <3> QED
      BY <3>1, <3>2
  <2>2. ASSUME ~\E c \in Calls : Start(c) \/ CallStep(c)
        PROVE  m \in got'[q] \/ Pending(m)'
    <3>0. pc[q] \in {"suback", "wait"}
      BY <2>2, OnlyCallsMove
    <3>1. CASE Dispatch
      <4>1. CASE m \in got[q]
        BY <2>0, <3>1, <4>1 DEF Dispatch
      <4>2. CASE m = Head(inbox)
        <5>1. FilterOf[q] \in Seq(STRING) /\ IsFilter(FilterOf[q])
          BY <2>0 DEF Filters
        <5>2. MqttMatch(FilterOf[q], t)
          BY <5>1, MatchIsTheBrokersRule
        <5>3. Keeps(q, Head(inbox))
          BY <3>0, <4>2, <5>2 DEF Keeps, Listens, m
        <5> QED
          BY <2>0, <3>1, <4>2, <5>3 DEF Dispatch
      <4> QED
        BY <2>0, <3>0, <3>1, <4>1, <4>2, OthersStayPending
    <3>2. ASSUME NEW r \in Requests, PeerAnswers(r)
          PROVE  m \in got'[q] \/ Pending(m)'
      <4>1. [topic |-> FilterOf[r], from |-> r] \in Message
        BY DEF Message
      <4>2. got' = got /\ Send([topic |-> FilterOf[r], from |-> r])
        BY <3>2 DEF PeerAnswers
      <4>3. Pending(m) => Pending(m)'
        BY <2>0, <4>1, <4>2, SentIsPending
      <4> QED
        BY <2>0, <3>0, <4>2, <4>3
    <3>3. ASSUME NEW u \in TaskTopics, PeerPublishes(u)
          PROVE  m \in got'[q] \/ Pending(m)'
      <4>1. [topic |-> u, from |-> NoCall] \in Message
        BY DEF Message
      <4>2. got' = got /\ Send([topic |-> u, from |-> NoCall])
        BY <3>3 DEF PeerPublishes
      <4>3. Pending(m) => Pending(m)'
        BY <2>0, <4>1, <4>2, SentIsPending
      <4> QED
        BY <2>0, <3>0, <4>2, <4>3
    <3>4. CASE inbox' = inbox /\ got' = got
      <4>1. Pending(m) => Pending(m)'
        BY <3>4 DEF Pending
      <4> QED
        BY <2>0, <3>0, <3>4, <4>1
    <3> QED
      BY <2>2, <3>1, <3>2, <3>3, <3>4, OnlyCallsMove
  <2> QED
    BY <2>1, <2>2 DEF m
<1> QED
  BY <1>1, <1>2, CallsTypes, CallsAreInStep, PTL DEF Spec

-----------------------------------------------------------------------------
\* The agent's subscriptions keep noLocal unless a Query names one of them:
\* a Request of theirs does not subscribe.
THEOREM OwnMessagesAreKeptOut ==
    ASSUME LogTopicsAreLeft
    PROVE  Spec => []OwnMessagesStayOut
<1>0. \A c \in Calls : FilterOf[c] \in SubscribedOnConnect => IsPermanent(c)
  BY ConnectFiltersArePermanent
<1>1. Init => OwnMessagesStayOut
  BY ConnectFiltersArePermanent DEF Init, OwnMessagesStayOut
<1>2. TypeOK /\ CallsInStep /\ OwnMessagesStayOut /\ [Next]_vars => OwnMessagesStayOut'
  <2> SUFFICES ASSUME TypeOK, CallsInStep, OwnMessagesStayOut, [Next]_vars,
                      NEW f \in SubscribedOnConnect, subs'[f] = "plain"
               PROVE  \E q \in Queries : FilterOf[q] = f /\ pc'[q] # "idle"
    BY DEF OwnMessagesStayOut, SubscribedOnConnect
  <2>0. Queries \subseteq Calls /\ f \in Filters
    BY ConnectFiltersArePermanent DEF Calls
  <2>1. ASSUME NEW c \in Calls, Start(c) \/ CallStep(c)
        PROVE  \E q \in Queries : FilterOf[q] = f /\ pc'[q] # "idle"
    <3>1. CASE subs[f] = "plain"
      <4>1. PICK q \in Queries : FilterOf[q] = f /\ pc[q] # "idle"
        BY <3>1 DEF OwnMessagesStayOut
      <4>2. pc'[q] # "idle"
        BY <2>0, <2>1, <4>1, StepsOfACall
      <4> QED
        BY <4>1, <4>2
    <3>2. CASE subs[f] # "plain"
      <4>1. SubscribeSend(c) /\ FilterOf[c] = f
        BY <2>0, <2>1, <3>2, EffectsOfACall DEF SubscribeSend, Unsubscribe, TypeOK
      <4>2. Subscribes(c)
        BY <4>1 DEF SubscribeSend, CallsInStep
      <4>3. c \in Queries
        BY <1>0, <4>1, <4>2 DEF Subscribes
      <4>4. pc'[c] # "idle"
        BY <4>1 DEF SubscribeSend, Goto, TypeOK
      <4> QED
        BY <4>1, <4>3, <4>4
    <3> QED
      BY <3>1, <3>2
  <2>2. CASE ~\E c \in Calls : Start(c) \/ CallStep(c)
    <3>1. subs'[f] = subs[f]
      <4>1. CASE LinkUp
        BY <2>0, <4>1 DEF LinkUp
      <4> QED
        BY <2>2, <4>1, OnlyCallsMove
    <3> QED
      BY <2>2, <3>1, OnlyCallsMove DEF OwnMessagesStayOut
  <2> QED
    BY <2>1, <2>2
<1> QED
  BY <1>1, <1>2, CallsTypes, CallsAreInStep, PTL DEF Spec

-----------------------------------------------------------------------------
\* The hypothesis a Request's safety rests on: no other call is for its topic,
\* unless the topic is permanent, so that none unsubscribes it.
TopicsAreOwn ==
    \A r \in Requests : \A c \in Calls \ {r} :
        FilterOf[c] = FilterOf[r] => IsPermanent(r)

\* A Request that had to subscribe keeps its subscription until its cleanup.
RequestsSubscribed ==
    \A r \in Requests :
        pc[r] \in {"suback", "publish", "puback", "wait"} /\ ~IsPermanent(r)
            => subs[FilterOf[r]] # "none"

LEMMA RequestsStaySubscribed ==
    ASSUME TopicsAreOwn
    PROVE  Spec => []RequestsSubscribed
<1>1. Init => RequestsSubscribed
  BY DEF Init, RequestsSubscribed, Calls
<1>2. TypeOK /\ CallsInStep /\ RequestsSubscribed /\ [Next]_vars => RequestsSubscribed'
  <2> SUFFICES ASSUME TypeOK, CallsInStep, RequestsSubscribed, [Next]_vars,
                      NEW r \in Requests, ~IsPermanent(r),
                      pc'[r] \in {"suback", "publish", "puback", "wait"}
               PROVE  subs'[FilterOf[r]] # "none"
    BY DEF RequestsSubscribed, IsPermanent
  <2>0. r \in Calls /\ FilterOf[r] \in Filters
    BY DEF Calls, Filters
  <2>1. ASSUME NEW c \in Calls, Start(c) \/ CallStep(c)
        PROVE  subs'[FilterOf[r]] # "none"
    <3>1. CASE SubscribeSend(c)
      <4>1. CASE FilterOf[c] = FilterOf[r]
        BY <2>0, <3>1, <4>1 DEF SubscribeSend, TypeOK
      <4>2. CASE FilterOf[c] # FilterOf[r]
        <5>1. subs'[FilterOf[r]] = subs[FilterOf[r]]
          BY <2>0, <3>1, <4>2 DEF SubscribeSend, TypeOK
        <5>2. pc'[r] = pc[r]
          BY <2>0, <2>1, <4>2, StepsOfACall
        <5> QED
          BY <5>1, <5>2 DEF RequestsSubscribed
      <4> QED
        BY <4>1, <4>2
    <3>2. CASE ~SubscribeSend(c)
      <4>1. pc[r] \in {"suback", "publish", "puback", "wait"}
        <5>1. CASE r = c
          BY <2>1, <3>2, <5>1, StepsOfACall DEF PublishSend, Subscribes
        <5>2. CASE r # c
          BY <2>0, <2>1, <5>2, StepsOfACall
        <5> QED
          BY <5>1, <5>2
      <4>2. CASE Unsubscribe(c)
        <5>1. c # r
          BY <4>1, <4>2 DEF Unsubscribe
        <5>2. FilterOf[c] # FilterOf[r]
          BY <5>1 DEF TopicsAreOwn
        <5>3. subs'[FilterOf[r]] = subs[FilterOf[r]]
          BY <2>0, <4>2, <5>2 DEF Unsubscribe, TypeOK
        <5> QED
          BY <4>1, <5>3 DEF RequestsSubscribed
      <4>3. CASE subs' = subs
        BY <4>1, <4>3 DEF RequestsSubscribed
      <4> QED
        BY <2>1, <3>2, <4>2, <4>3, EffectsOfACall
    <3> QED
      BY <3>1, <3>2
  <2>2. CASE ~\E c \in Calls : Start(c) \/ CallStep(c)
    <3>1. pc' = pc /\ subs[FilterOf[r]] # "none"
      BY <2>2, OnlyCallsMove DEF RequestsSubscribed
    <3>2. CASE LinkUp
      BY <2>0, <3>1, <3>2 DEF LinkUp
    <3> QED
      BY <2>2, <3>1, <3>2, OnlyCallsMove
  <2> QED
    BY <2>1, <2>2
<1> QED
  BY <1>1, <1>2, CallsTypes, CallsAreInStep, PTL DEF Spec

\* While it waits, a Request's answer is routed to the agent.
LEMMA AnswersAreRouted ==
    ASSUME LogTopicsAreLeft, NoPlusOverHash, ConnectSubsStay, RequestsSubscribed,
           NEW r \in Requests, pc[r] \in {"puback", "wait"}
    PROVE  Routed([topic |-> FilterOf[r], from |-> r])
<1>1. /\ FilterOf[r] \in Filters /\ FilterOf[r] \in Seq(STRING) /\ IsTopic(FilterOf[r])
      /\ \A p \in PermanentTopics : p \in Seq(STRING) /\ IsFilter(p)
  BY CallsAssumption DEF Filters, Calls
<1>2. Matches(FilterOf[r], FilterOf[r])
  BY <1>1 DEF Matches, EndsInHash, PrefixMatches, LevelMatches, IsTopic
<1>3. \E g \in Active : Matches(g, FilterOf[r])
  <2>1. CASE IsPermanent(r)
    <3>1. PICK p \in PermanentTopics : p = FilterOf[r] \/ MqttMatch(p, FilterOf[r])
      BY <2>1 DEF IsPermanent, IsPermanentTopic
    <3>2. Matches(p, FilterOf[r])
      BY <1>1, <1>2, <3>1, MatchIsTheBrokersRule
    <3> QED
      BY <1>1, <3>2, PermanentIsActive
  <2>2. CASE ~IsPermanent(r)
    BY <1>1, <1>2, <2>2 DEF RequestsSubscribed, Active
  <2> QED
    BY <2>1, <2>2
<1> QED
  BY <1>3 DEF Routed

\* A Request misses no answer that a peer gives while it waits, if no call names
\* a log topic, no other call its own topic, and no "+" stands over a "#".
THEOREM AnswersAreNotMissed ==
    ASSUME LogTopicsAreLeft, NoPlusOverHash, TopicsAreOwn
    PROVE  Spec => []AnswerNotMissed
<1>1. Init => AnswerNotMissed
  BY DEF Init, AnswerNotMissed
<1>2. TypeOK /\ CallsInStep /\ ConnectSubsStay /\ RequestsSubscribed /\ AnswerNotMissed
        /\ [Next]_vars => AnswerNotMissed'
  <2> SUFFICES ASSUME TypeOK, CallsInStep, ConnectSubsStay, RequestsSubscribed,
                      AnswerNotMissed, [Next]_vars,
                      NEW r \in Requests, pc'[r] \in {"puback", "wait"}, r \in answered'
               PROVE  got'[r] # {} \/ Pending([topic |-> FilterOf[r], from |-> r])'
    BY DEF AnswerNotMissed, Pending
  <2> DEFINE m == [topic |-> FilterOf[r], from |-> r]
  <2>0. /\ pc[r] \in {"puback", "wait"} /\ r \in answered => got[r] # {} \/ Pending(m)
        /\ r \in Calls /\ r \notin Queries /\ m \in Message /\ inbox \in Seq(Message)
    BY CallsAssumption DEF AnswerNotMissed, Pending, Calls, Message, TypeOK
  <2> HIDE DEF m
  <2>1. ASSUME NEW c \in Calls, Start(c) \/ CallStep(c)
        PROVE  got'[r] # {} \/ Pending(m)'
    <3>1. r \in answered /\ pc[r] \notin {"suback", "publish"}
      BY <2>1, EffectsOfACall DEF CallsInStep
    <3>2. pc[r] \in {"puback", "wait"}
      <4>1. CASE r = c
        BY <2>0, <2>1, <3>1, <4>1, StepsOfACall DEF PublishSend
      <4>2. CASE r # c
        BY <2>0, <2>1, <4>2, StepsOfACall
      <4> QED
        BY <4>1, <4>2
    <3>3. got'[r] = got[r]
      BY <2>0, <2>1, StepsOfACall
    <3>4. Pending(m) => Pending(m)'
      <4>1. CASE SubscribeSend(c)
        <5>1. /\ RetainedFor(FilterOf[c]) \in Seq(Message)
              /\ inbox' = inbox \o RetainedFor(FilterOf[c])
          BY <4>1, RetainedAreSent DEF SubscribeSend
        <5> QED
          BY <2>0, <5>1, MoreIsPending
      <4>2. CASE inbox' = inbox
        BY <4>2 DEF Pending
      <4> QED
        BY <2>1, <4>1, <4>2, EffectsOfACall
    <3> QED
      BY <2>0, <3>1, <3>2, <3>3, <3>4
  <2>2. ASSUME ~\E c \in Calls : Start(c) \/ CallStep(c)
        PROVE  got'[r] # {} \/ Pending(m)'
    <3>0. pc[r] \in {"puback", "wait"}
      BY <2>2, OnlyCallsMove
    <3>1. CASE Dispatch
      <4>0. r \in answered
        BY <3>1 DEF Dispatch
      <4>1. CASE got[r] # {}
        BY <2>0, <3>1, <4>1 DEF Dispatch
      <4>2. CASE got[r] = {} /\ m = Head(inbox)
        <5>1. Keeps(r, Head(inbox))
          BY <2>0, <3>0, <4>2 DEF Keeps, Listens, m
        <5> QED
          BY <2>0, <3>1, <5>1 DEF Dispatch
      <4> QED
        BY <2>0, <3>0, <3>1, <4>0, <4>1, <4>2, OthersStayPending
    <3>2. ASSUME NEW d \in Requests, PeerAnswers(d)
          PROVE  got'[r] # {} \/ Pending(m)'
      <4>1. [topic |-> FilterOf[d], from |-> d] \in Message
        BY DEF Message
      <4>2. /\ got' = got /\ answered' = answered \cup {d}
            /\ Send([topic |-> FilterOf[d], from |-> d])
        BY <3>2 DEF PeerAnswers
      <4>3. CASE d = r
        BY <2>0, <3>0, <4>1, <4>2, <4>3, AnswersAreRouted, SentIsPending DEF m
      <4>4. CASE d # r
        <5>1. Pending(m) => Pending(m)'
          BY <2>0, <4>1, <4>2, SentIsPending
        <5> QED
          BY <2>0, <3>0, <4>2, <4>4, <5>1
      <4> QED
        BY <4>3, <4>4
    <3>3. ASSUME NEW u \in TaskTopics, PeerPublishes(u)
          PROVE  got'[r] # {} \/ Pending(m)'
      <4>1. [topic |-> u, from |-> NoCall] \in Message
        BY DEF Message
      <4>2. got' = got /\ answered' = answered /\ Send([topic |-> u, from |-> NoCall])
        BY <3>3 DEF PeerPublishes
      <4>3. Pending(m) => Pending(m)'
        BY <2>0, <4>1, <4>2, SentIsPending
      <4> QED
        BY <2>0, <3>0, <4>2, <4>3
    <3>4. CASE UNCHANGED <<inbox, got, answered>>
      <4>1. Pending(m) => Pending(m)'
        BY <3>4 DEF Pending
      <4> QED
        BY <2>0, <3>0, <3>4, <4>1
    <3> QED
      BY <2>2, <3>1, <3>2, <3>3, <3>4 DEF Next, LinkDown, LinkUp, vars
  <2> QED
    BY <2>1, <2>2 DEF m
<1> QED
  BY <1>1, <1>2, CallsTypes, CallsAreInStep, ConnectSubsAreKept, RequestsStaySubscribed,
     PTL DEF Spec

-----------------------------------------------------------------------------
\* While the link has not broken, an entry that is not of OnConnectionUp is that
\* of a call that has still to unsubscribe, or gave up before it asked anything,
\* or names a permanent topic.
ExtrasHaveOwners ==
    drops = 0 =>
        /\ link = "up"
        /\ \A f \in Active \ SubscribedOnConnect :
               \E c \in Calls :
                  /\ FilterOf[c] = f
                  /\ \/ /\ pc[c] \in {"suback", "publish", "puback", "wait", "unsubscribe"}
                        /\ ~IsPermanent(c)
                     \/ /\ pc[c] \in {"remove", "done"}
                        /\ outcome[c] = "error" /\ c \notin asked \cup answered
                     \/ c \in Queries /\ IsPermanent(c) /\ pc[c] # "idle"

LEMMA ExtrasKeepOwners == Spec => []ExtrasHaveOwners
<1>1. Init => ExtrasHaveOwners
  BY DEF Init, ExtrasHaveOwners, Active
<1>2. TypeOK /\ CallsInStep /\ ExtrasHaveOwners /\ [Next]_vars => ExtrasHaveOwners'
  <2> SUFFICES ASSUME TypeOK, CallsInStep, ExtrasHaveOwners, [Next]_vars, drops' = 0
               PROVE  ExtrasHaveOwners'
    BY DEF ExtrasHaveOwners
  <2> DEFINE Owns(c) == \/ /\ pc[c] \in {"suback", "publish", "puback", "wait", "unsubscribe"}
                           /\ ~IsPermanent(c)
                        \/ /\ pc[c] \in {"remove", "done"}
                           /\ outcome[c] = "error" /\ c \notin asked \cup answered
                        \/ c \in Queries /\ IsPermanent(c) /\ pc[c] # "idle"
  <2>0. /\ drops \in Nat /\ DOMAIN pc = Calls /\ DOMAIN outcome = Calls
        /\ DOMAIN subs = Filters
        /\ SubscribedOnConnect' = SubscribedOnConnect
    BY CallsAssumption DEF TypeOK, SubscribedOnConnect
  <2>1. ASSUME NEW c \in Calls, Start(c) \/ CallStep(c)
        PROVE  ExtrasHaveOwners'
    <3>0. drops = 0 /\ link = "up" /\ link' = "up"
      BY <2>1, EffectsOfACall DEF ExtrasHaveOwners
    <3>1. ASSUME NEW f \in Filters \ SubscribedOnConnect, subs'[f] # "none"
          PROVE  \E d \in Calls : FilterOf[d] = f /\ Owns(d)'
      <4>1. CASE subs[f] = "none"
        <5>1. SubscribeSend(c) /\ FilterOf[c] = f
          BY <2>0, <2>1, <3>1, <4>1, EffectsOfACall DEF SubscribeSend, Unsubscribe
        <5>2. pc'[c] = "suback" /\ Subscribes(c)
          BY <2>0, <5>1 DEF SubscribeSend, Goto, CallsInStep
        <5> QED
          BY <5>1, <5>2 DEF Subscribes, IsPermanent
      <4>2. CASE subs[f] # "none"
        <5>1. PICK d \in Calls : FilterOf[d] = f /\ Owns(d)
          BY <3>0, <3>1, <4>2 DEF ExtrasHaveOwners, Active
        <5>2. CASE d # c
          <6>1. pc'[d] = pc[d] /\ outcome'[d] = outcome[d]
            BY <2>1, <5>2, StepsOfACall
          <6>2. asked' \cup answered' \subseteq asked \cup answered \cup {c}
            BY <2>1, EffectsOfACall DEF PublishSend
          <6> QED
            BY <5>1, <5>2, <6>1, <6>2 DEF IsPermanent
        <5>3. CASE /\ d = c /\ pc[c] \in {"remove", "done"}
                   /\ outcome[c] = "error" /\ c \notin asked \cup answered
          <6>1. RemoveHandler(c)
            BY <2>1, <5>3
            DEF CallStep, Start, SubscribeSend, SubscribeFails, Suback, PublishSend,
                PublishFails, Puback, Collect, TakeAnswer, Timeout, Unsubscribe
          <6>2. /\ pc'[c] = "done" /\ outcome' = outcome
                /\ asked' = asked /\ answered' = answered
            BY <2>0, <6>1 DEF RemoveHandler, Goto
          <6> QED
            BY <5>1, <5>3, <6>2
        <5>4. CASE d = c /\ c \in Queries /\ IsPermanent(c)
          BY <2>1, <5>1, <5>4, StepsOfACall DEF IsPermanent
        <5>5. CASE /\ d = c /\ ~IsPermanent(c)
                   /\ pc[c] \in {"suback", "publish", "puback", "wait", "unsubscribe"}
          <6>1. CASE SubscribeFails(c)
            <7>1. /\ pc[c] = "suback" /\ pc'[c] = "remove" /\ outcome'[c] = "error"
                  /\ asked' = asked /\ answered' = answered
              BY <2>0, <5>5, <6>1 DEF SubscribeFails, Goto, Return
            <7>2. c \notin asked \cup answered
              BY <7>1 DEF CallsInStep, TypeOK
            <7> QED
              BY <5>1, <5>5, <7>1, <7>2
          <6>2. CASE Suback(c) \/ PublishSend(c) \/ Puback(c)
            <7>1. pc'[c] \in {"publish", "puback", "wait"}
              BY <2>0, <6>2 DEF Suback, PublishSend, Puback, Goto
            <7> QED
              BY <5>1, <5>5, <7>1 DEF IsPermanent
          <6>3. CASE PublishFails(c) \/ Collect(c) \/ TakeAnswer(c) \/ Timeout(c)
            <7>1. pc'[c] = "unsubscribe"
              BY <2>0, <5>5, <6>3
              DEF PublishFails, Collect, TakeAnswer, Timeout, Goto, Cleanup
            <7> QED
              BY <5>1, <5>5, <7>1 DEF IsPermanent
          <6>4. CASE Unsubscribe(c)
            BY <2>0, <3>0, <3>1, <5>1, <5>5, <6>4 DEF Unsubscribe
          <6> QED
            BY <2>1, <5>5, <6>1, <6>2, <6>3, <6>4
            DEF CallStep, Start, SubscribeSend, RemoveHandler
        <5> QED
          BY <5>1, <5>2, <5>3, <5>4, <5>5
      <4> QED
        BY <4>1, <4>2
    <3> QED
      BY <2>0, <3>0, <3>1 DEF ExtrasHaveOwners, Active
  <2>2. CASE ~\E c \in Calls : Start(c) \/ CallStep(c)
    <3>1. UNCHANGED <<pc, outcome>> /\ (subs' = subs \/ LinkUp)
      BY <2>2, OnlyCallsMove
    <3>2. ~LinkDown /\ (LinkUp => drops' = drops)
      BY <2>0 DEF LinkDown, LinkUp
    <3>3. drops' = drops /\ (link' = link \/ LinkUp)
      BY <2>2, <3>2 DEF Next, vars, Dispatch, PeerAnswers, PeerPublishes, LinkUp
    <3>4. ~LinkUp
      BY <3>3 DEF LinkUp, ExtrasHaveOwners
    <3>5. asked' \cup answered' = asked \cup answered
      BY <2>2, OnlyCallsMove
    <3> QED
      BY <3>1, <3>3, <3>4, <3>5, <2>0 DEF ExtrasHaveOwners, Active, IsPermanent
  <2> QED
    BY <2>1, <2>2
<1> QED
  BY <1>1, <1>2, CallsTypes, CallsAreInStep, PTL DEF Spec

\* The session ends with the subscriptions it began with, and at most those of
\* calls that gave up on their SUBACK and queries that named a permanent topic, if
\* no call names a log topic.
THEOREM SessionIsLeftClean ==
    ASSUME LogTopicsAreLeft
    PROVE  Spec => []NothingLeftBehind
<1>1. ConnectSubsStay /\ CallsInStep /\ ExtrasHaveOwners => NothingLeftBehind
  BY ConnectFiltersArePermanent
  DEF ConnectSubsStay, CallsInStep, ExtrasHaveOwners, NothingLeftBehind, Active
<1> QED
  BY <1>1, ConnectSubsAreKept, CallsAreInStep, ExtrasKeepOwners, PTL

-----------------------------------------------------------------------------
\* What somebody has said: the retained messages, those published unasked, and
\* the answers to requests.
Said ==
    {m \in Message :
        IF m.from = NoCall
        THEN m.topic \in RetainedTopics \/ (m.topic \in TaskTopics /\ traffic > 0)
        ELSE m.from \in answered /\ m.topic = FilterOf[m.from]}

\* What is on the way to the handlers, and what they keep, has been said; a
\* Request keeps what is said on its topic.
HeardWasSaid ==
    /\ inbox \in Seq(Said)
    /\ \A c \in Calls : got[c] \subseteq Said
    /\ \A r \in Requests : \A m \in got[r] : m.topic = FilterOf[r]

\* What was said stays said, and what was heard too if no more is.
LEMMA SaidStaysSaid ==
    ASSUME TypeOK, TypeOK', answered \subseteq answered', traffic' >= traffic
    PROVE  /\ Said \subseteq Said'
           /\ HeardWasSaid => inbox \in Seq(Said') /\ \A c \in Calls : got[c] \subseteq Said'
<1>1. traffic \in Nat /\ traffic' \in Nat
  BY CallsAssumption DEF TypeOK
<1>2. Said \subseteq Said'
  BY <1>1 DEF Said, Message
<1>3. Seq(Said) \subseteq Seq(Said')
  BY <1>2
<1> QED
  BY <1>2, <1>3 DEF HeardWasSaid

LEMMA WhatIsHeardWasSaid == Spec => []HeardWasSaid
<1>1. Init => HeardWasSaid
  BY DEF Init, HeardWasSaid, Calls
<1>2. TypeOK /\ TypeOK' /\ HeardWasSaid /\ [Next]_vars => HeardWasSaid'
  <2> SUFFICES ASSUME TypeOK, TypeOK', HeardWasSaid, [Next]_vars
               PROVE  HeardWasSaid'
    OBVIOUS
  <2>0. /\ DOMAIN got = Calls /\ traffic \in Nat
        /\ Queries \cap Requests = {} /\ Requests \subseteq Calls /\ NoCall \notin Calls
        /\ answered \subseteq Requests
    BY CallsAssumption DEF TypeOK, Calls
  <2>1. answered \subseteq answered' /\ traffic' >= traffic
    <3>1. CASE \E c \in Calls : Start(c) \/ CallStep(c)
      BY <2>0, <3>1, EffectsOfACall
    <3>2. CASE ~\E c \in Calls : Start(c) \/ CallStep(c)
      <4>1. CASE Dispatch \/ LinkDown \/ LinkUp \/ UNCHANGED vars
        <5>1. UNCHANGED <<answered, traffic>>
          BY <4>1 DEF Dispatch, LinkDown, LinkUp, vars
        <5> QED
          BY <2>0, <5>1
      <4>2. CASE \E r \in Requests : PeerAnswers(r)
        BY <2>0, <4>2 DEF PeerAnswers
      <4>3. CASE \E t \in TaskTopics : PeerPublishes(t)
        BY <2>0, <4>3 DEF PeerPublishes
      <4> QED
        BY <3>2, <4>1, <4>2, <4>3 DEF Next
    <3> QED
      BY <3>1, <3>2
  <2>2. /\ inbox \in Seq(Said') /\ \A c \in Calls : got[c] \subseteq Said'
        /\ \A r \in Requests : \A m \in got[r] : m.topic = FilterOf[r]
    BY <2>1, SaidStaysSaid DEF HeardWasSaid
  <2>3. ASSUME inbox' \in Seq(Said'), \A c \in Calls : got'[c] \subseteq got[c]
        PROVE  HeardWasSaid'
    <3>1. \A c \in Calls : got'[c] \subseteq Said'
      BY <2>2, <2>3
    <3>2. \A r \in Requests : \A m \in got'[r] : m.topic = FilterOf[r]
      BY <2>0, <2>2, <2>3
    <3> QED
      BY <2>3, <3>1, <3>2 DEF HeardWasSaid
  <2>4. ASSUME NEW c \in Calls, Start(c) \/ CallStep(c)
        PROVE  HeardWasSaid'
    <3>1. \A d \in Calls : got'[d] \subseteq got[d]
      BY <2>0, <2>4, EffectsOfACall DEF RemoveHandler
    <3>2. CASE SubscribeSend(c)
      <4> DEFINE more == RetainedFor(FilterOf[c])
      <4>1. /\ more \in Seq(Message)
            /\ \A i \in 1 .. Len(more) : \E t \in RetainedTopics :
                  more[i] = [topic |-> t, from |-> NoCall]
        BY RetainedAreSent
      <4>2. inbox' = inbox \o more
        BY <3>2 DEF SubscribeSend
      <4> HIDE DEF more
      <4>3. \A t \in RetainedTopics : [topic |-> t, from |-> NoCall] \in Said'
        BY DEF Said, Message
      <4>4. more \in Seq(Said')
        <5>1. \A i \in 1 .. Len(more) : more[i] \in Said'
          BY <4>1, <4>3
        <5> QED
          BY <4>1, <5>1
      <4> QED
        BY <2>2, <2>3, <3>1, <4>2, <4>4
    <3> QED
      BY <2>2, <2>3, <2>4, <3>1, <3>2, EffectsOfACall
  <2>5. CASE Dispatch
    <3>1. inbox' = Tail(inbox) /\ inbox # <<>>
      BY <2>5 DEF Dispatch
    <3>2. inbox' \in Seq(Said') /\ Head(inbox) \in Said'
      BY <2>2, <3>1
    <3>3. \A c \in Calls : \A m \in got'[c] :
             m \in got[c] \/ (m = Head(inbox) /\ Keeps(c, m))
      BY <2>5 DEF Dispatch
    <3>4. \A r \in Requests : \A m \in got'[r] : m.topic = FilterOf[r]
      BY <2>0, <2>2, <3>3 DEF Keeps
    <3>5. \A c \in Calls : got'[c] \subseteq Said'
      BY <2>2, <3>2, <3>3
    <3> QED
      BY <3>2, <3>4, <3>5 DEF HeardWasSaid
  <2>6. ASSUME NEW m \in Said', Send(m), got' = got
        PROVE  HeardWasSaid'
    <3>1. inbox' \in Seq(Said')
      BY <2>2, <2>6 DEF Send
    <3> QED
      BY <2>3, <2>6, <3>1
  <2>7. ASSUME NEW r \in Requests, PeerAnswers(r)
        PROVE  HeardWasSaid'
    <3>1. [topic |-> FilterOf[r], from |-> r] \in Said'
      BY <2>0, <2>7 DEF PeerAnswers, Said, Message
    <3> QED
      BY <2>6, <2>7, <3>1 DEF PeerAnswers
  <2>8. ASSUME NEW t \in TaskTopics, PeerPublishes(t)
        PROVE  HeardWasSaid'
    <3>1. [topic |-> t, from |-> NoCall] \in Said'
      BY <2>0, <2>8 DEF PeerPublishes, Said, Message
    <3> QED
      BY <2>6, <2>8, <3>1 DEF PeerPublishes
  <2>9. CASE LinkDown \/ LinkUp \/ UNCHANGED vars
    BY <2>2, <2>3, <2>9 DEF LinkDown, LinkUp, vars
  <2> QED
    BY <2>4, <2>5, <2>7, <2>8, <2>9 DEF Next
<1> QED
  BY <1>1, <1>2, CallsTypes, PTL DEF Spec

\* A request is answered once, since a peer hears it once; a call that waits for
\* the answer has published it.
RequestsInStep ==
    /\ asked \cap answered = {}
    /\ \A r \in Requests : pc[r] \in {"puback", "wait"} => r \in asked \cup answered

LEMMA RequestsAreInStep == Spec => []RequestsInStep
<1>1. Init => RequestsInStep
  BY DEF Init, RequestsInStep, Calls
<1>2. TypeOK /\ CallsInStep /\ RequestsInStep /\ [Next]_vars => RequestsInStep'
  <2> SUFFICES ASSUME TypeOK, CallsInStep, RequestsInStep, [Next]_vars
               PROVE  RequestsInStep'
    OBVIOUS
  <2>0. Requests \subseteq Calls /\ Queries \cap Requests = {} /\ DOMAIN pc = Calls
    BY CallsAssumption DEF Calls, TypeOK
  <2>1. ASSUME NEW c \in Calls, Start(c) \/ CallStep(c)
        PROVE  RequestsInStep'
    <3>1. CASE PublishSend(c)
      BY <2>0, <3>1 DEF PublishSend, Goto, CallsInStep, RequestsInStep
    <3>2. CASE ~PublishSend(c)
      <4>1. UNCHANGED <<asked, answered>>
        BY <2>1, <3>2, EffectsOfACall
      <4>2. ASSUME NEW r \in Requests, pc'[r] \in {"puback", "wait"}
            PROVE  pc[r] \in {"puback", "wait"}
        <5>1. CASE r = c
          BY <2>0, <2>1, <3>2, <4>2, <5>1, StepsOfACall
        <5>2. CASE r # c
          BY <2>0, <2>1, <4>2, <5>2, StepsOfACall
        <5> QED
          BY <5>1, <5>2
      <4> QED
        BY <4>1, <4>2 DEF RequestsInStep
    <3> QED
      BY <3>1, <3>2
  <2>2. CASE ~\E c \in Calls : Start(c) \/ CallStep(c)
    <3>1. pc' = pc /\ asked' \cup answered' = asked \cup answered
      BY <2>2, OnlyCallsMove
    <3>2. asked' \cap answered' = {}
      <4>1. CASE \E r \in Requests : PeerAnswers(r)
        BY <4>1 DEF PeerAnswers, RequestsInStep
      <4>2. CASE UNCHANGED <<asked, answered>>
        BY <4>2 DEF RequestsInStep
      <4> QED
        BY <2>2, <4>1, <4>2
        DEF Next, Dispatch, PeerPublishes, LinkDown, LinkUp, vars
    <3> QED
      BY <3>1, <3>2 DEF RequestsInStep
  <2> QED
    BY <2>1, <2>2
<1> QED
  BY <1>1, <1>2, CallsTypes, CallsAreInStep, PTL DEF Spec

\* The calls implement the abstract conversation: a call asks once and before it
\* returns, it returns once, and no Request returns what nobody has said to it.
THEOREM ConversationIsImplemented == Spec => ImplementsConversation
<1> DEFINE Begun == {c \in Calls : pc[c] # "idle"}
           Sent  == asked \cup answered
<1>1. Init => Talk!Init
  BY DEF Init, Talk!Init, Talk!Calls, Calls
<1>2. ASSUME TypeOK, CallsInStep, RequestsInStep, HeardWasSaid, [Next]_vars
      PROVE  [Talk!Next]_(Talk!vars)
  <2>0. /\ DOMAIN pc = Calls /\ DOMAIN outcome = Calls /\ Talk!Calls = Calls
        /\ Requests \subseteq Calls /\ Queries \cap Requests = {} /\ NoCall \notin Calls
        /\ \A c \in Calls : Talk!Open(c) <=> pc[c] # "idle" /\ outcome[c] = "none"
    <3>1. /\ DOMAIN pc = Calls /\ DOMAIN outcome = Calls /\ Talk!Calls = Calls
          /\ Requests \subseteq Calls /\ Queries \cap Requests = {} /\ NoCall \notin Calls
      BY <1>2, CallsAssumption DEF TypeOK, Calls, Talk!Calls
    <3> QED
      BY <3>1 DEF Talk!Open
  <2>1. ASSUME NEW c \in Calls, Start(c)
        PROVE  Talk!Next
    <3>1. /\ c \notin Begun /\ Begun' = Begun \cup {c}
          /\ UNCHANGED <<asked, answered, traffic>>
      BY <2>0, <2>1 DEF Start, Goto
    <3>2. CASE UNCHANGED outcome
      BY <2>0, <3>1, <3>2 DEF Talk!Next, Talk!Begin
    <3>3. CASE Return(c, "error")
      BY <2>0, <3>1, <3>3 DEF Talk!Next, Talk!Refuse, Return
    <3> QED
      BY <2>1, <3>2, <3>3 DEF Start
  <2>2. ASSUME NEW c \in Calls, NEW place, Goto(c, place), place # "idle", pc[c] # "idle"
        PROVE  Begun' = Begun
    BY <2>0, <2>2 DEF Goto
  <2>3. ASSUME NEW c \in Calls, NEW what \in {"ok", "other", "error"},
               Talk!MayReturn(c, what), Return(c, what),
               pc[c] \in {"subscribe", "suback", "publish", "puback", "wait"},
               Begun' = Begun, UNCHANGED <<asked, answered, traffic>>
        PROVE  Talk!Next
    <3>1. Talk!Open(c)
      BY <1>2, <2>0, <2>3 DEF CallsInStep
    <3>2. Talk!Return(c)
      BY <2>3, <3>1 DEF Talk!Return, Return
    <3> QED
      BY <2>0, <3>2 DEF Talk!Next
  <2>4. ASSUME NEW c \in Calls, CallStep(c)
        PROVE  [Talk!Next]_(Talk!vars)
    <3>0. Talk!MayReturn(c, "error") /\ Cleanup(c) # "idle"
      BY DEF Talk!MayReturn, Cleanup
    <3>1. CASE SubscribeSend(c) \/ Suback(c) \/ Puback(c) \/ Unsubscribe(c) \/ RemoveHandler(c)
      <4>1. Begun' = Begun
        BY <2>2, <3>1 DEF SubscribeSend, Suback, Puback, Unsubscribe, RemoveHandler
      <4>2. UNCHANGED <<outcome, asked, answered, traffic>>
        BY <3>1 DEF SubscribeSend, Suback, Puback, Unsubscribe, RemoveHandler
      <4> QED
        BY <4>1, <4>2 DEF Talk!vars
    <3>2. CASE SubscribeFails(c) \/ PublishFails(c) \/ Timeout(c)
      <4>1. Begun' = Begun
        BY <2>2, <3>0, <3>2 DEF SubscribeFails, PublishFails, Timeout
      <4> QED
        BY <2>3, <3>0, <3>2, <4>1 DEF SubscribeFails, PublishFails, Timeout
    <3>3. CASE PublishSend(c)
      <4>1. /\ c \in Requests /\ Begun' = Begun /\ UNCHANGED <<outcome, answered, traffic>>
            /\ Sent' = Sent \cup {c}
        BY <2>2, <3>3 DEF PublishSend
      <4>2. c \notin Sent /\ Talk!Open(c)
        BY <1>2, <2>0, <3>3, <4>1 DEF PublishSend, CallsInStep
      <4>3. Talk!Ask(c)
        BY <4>1, <4>2 DEF Talk!Ask
      <4> QED
        BY <4>1, <4>3 DEF Talk!Next
    <3>4. CASE Collect(c)
      <4>1. Begun' = Begun
        BY <2>2, <3>0, <3>4 DEF Collect
      <4>2. Talk!MayReturn(c, "ok")
        BY <3>4 DEF Talk!MayReturn, Collect
      <4> QED
        BY <2>3, <3>4, <4>1, <4>2 DEF Collect
    <3>5. CASE TakeAnswer(c)
      <4>1. Begun' = Begun
        BY <2>2, <3>0, <3>5 DEF TakeAnswer
      <4>2. /\ c \in Requests /\ c \notin Queries /\ c \in Sent /\ c # NoCall
            /\ got[c] \subseteq Said /\ \A m \in got[c] : m.topic = FilterOf[c]
        BY <1>2, <2>0, <3>5 DEF TakeAnswer, RequestsInStep, HeardWasSaid
      <4>3. CASE \E m \in got[c] : m.from = c
        <5>1. c \in answered
          BY <4>2, <4>3 DEF Said
        <5>2. Talk!MayReturn(c, "ok")
          BY <4>2, <5>1 DEF Talk!MayReturn
        <5> QED
          BY <2>3, <3>5, <4>1, <4>3, <5>2 DEF TakeAnswer
      <4>4. CASE ~\E m \in got[c] : m.from = c
        <5>1. PICK m \in got[c] : m.from # c
          BY <3>5, <4>4 DEF TakeAnswer
        <5>2. Talk!SomebodyElse(c)
          BY <4>2, <5>1 DEF Said, Talk!SomebodyElse
        <5>3. Talk!MayReturn(c, "other")
          BY <4>2, <5>2 DEF Talk!MayReturn
        <5> QED
          BY <2>3, <3>5, <4>1, <4>4, <5>3 DEF TakeAnswer
      <4> QED
        BY <4>3, <4>4
    <3> QED
      BY <2>4, <3>1, <3>2, <3>3, <3>4, <3>5 DEF CallStep
  <2>5. ASSUME NEW r \in Requests, PeerAnswers(r)
        PROVE  Talk!Next
    <3>1. /\ r \in Sent \ answered /\ answered' = answered \cup {r}
          /\ Begun' = Begun /\ Sent' = Sent /\ UNCHANGED <<outcome, traffic>>
      BY <1>2, <2>5 DEF PeerAnswers, RequestsInStep
    <3>2. Talk!Answer(r)
      BY <3>1 DEF Talk!Answer
    <3> QED
      BY <3>2 DEF Talk!Next
  <2>6. ASSUME NEW t \in TaskTopics, PeerPublishes(t)
        PROVE  Talk!Next
    BY <2>6 DEF PeerPublishes, Talk!Next, Talk!Speak
  <2>7. CASE Dispatch \/ LinkDown \/ LinkUp \/ UNCHANGED vars
    BY <2>7 DEF Dispatch, LinkDown, LinkUp, vars, Talk!vars
  <2> QED
    BY <1>2, <2>1, <2>4, <2>5, <2>6, <2>7 DEF Next
<1> QED
  BY <1>1, <1>2, CallsTypes, CallsAreInStep, RequestsAreInStep, WhatIsHeardWasSaid,
     PTL DEF Spec, ImplementsConversation, Talk!Spec

-----------------------------------------------------------------------------
\* The hypothesis under which "request/reply in one call" is true: each request
\* has a reply topic of its own, on which nobody speaks unasked.
RepliesAreOwn ==
    \A r \in Requests :
        /\ FilterOf[r] \notin RetainedTopics \cup TaskTopics
        /\ \A s \in Requests : FilterOf[s] = FilterOf[r] => s = r

\* A Request whose reply topic is its own returns its own answer or an error,
\* whatever the other calls do and however late an answer comes.
THEOREM OwnTopicOwnAnswer ==
    ASSUME RepliesAreOwn
    PROVE  Spec => []RequestReturnsItsAnswer
<1>1. Init => RequestReturnsItsAnswer
  BY DEF Init, RequestReturnsItsAnswer, Calls
<1>2. TypeOK /\ HeardWasSaid /\ RequestReturnsItsAnswer /\ [Next]_vars
        => RequestReturnsItsAnswer'
  <2> SUFFICES ASSUME TypeOK, HeardWasSaid, RequestReturnsItsAnswer, [Next]_vars,
                      NEW r \in Requests
               PROVE  outcome'[r] # "other"
    BY DEF RequestReturnsItsAnswer
  <2>0. r \in Calls /\ DOMAIN outcome = Calls /\ answered \subseteq Requests
        /\ outcome[r] # "other"
    BY DEF Calls, TypeOK, RequestReturnsItsAnswer
  <2>1. ASSUME NEW c \in Calls, Start(c) \/ CallStep(c)
        PROVE  outcome'[r] # "other"
    <3>1. CASE c # r
      BY <2>0, <2>1, <3>1, StepsOfACall
    <3>2. CASE c = r /\ TakeAnswer(r)
      <4>1. PICK m \in got[r] : TRUE
        BY <3>2 DEF TakeAnswer
      <4>2. m \in Said /\ m.topic = FilterOf[r]
        BY <2>0, <4>1 DEF HeardWasSaid
      <4>3. m.from = r
        BY <2>0, <4>2 DEF Said, RepliesAreOwn
      <4>4. Return(r, "ok")
        BY <3>2, <4>1, <4>3 DEF TakeAnswer
      <4> QED
        BY <2>0, <4>4 DEF Return
    <3>3. CASE c = r /\ ~TakeAnswer(r)
      <4>1. outcome' = outcome \/ Return(r, "ok") \/ Return(r, "error")
        BY <2>1, <3>3 DEF CallStep, Start, SubscribeSend, SubscribeFails, Suback, PublishSend,
                          PublishFails, Puback, Collect, Timeout, Unsubscribe, RemoveHandler
      <4> QED
        BY <2>0, <4>1 DEF Return
    <3> QED
      BY <3>1, <3>2, <3>3
  <2>2. CASE ~\E c \in Calls : Start(c) \/ CallStep(c)
    BY <2>0, <2>2, OnlyCallsMove
  <2> QED
    BY <2>1, <2>2
<1> QED
  BY <1>1, <1>2, CallsTypes, WhatIsHeardWasSaid, PTL DEF Spec
=============================================================================
