---------------------------- MODULE InboundProofs ----------------------------
(***************************************************************************)
(* Proofs about Inbound, for every set of payloads and keys, every queue   *)
(* capacity and every choice of the intervals.                             *)
(***************************************************************************)
EXTENDS Inbound, TLAPS

\* Every variable keeps its type, and the channel its capacity, under every
\* step of the handler, the two goroutines and their environment.
THEOREM TypeCorrect == Spec => []TypeOK
<1> USE InboundAssumption DEF TypeOK, Ages, AgeCap, Unseen
<1>1. Init => TypeOK
  <2>1. Unseen \in Ages /\ CleanPeriod \in -Jitter .. CleanPeriod
    OBVIOUS
  <2>2. <<>> \in Seq(Nat \ {0}) /\ Len(<<>>) = 0
    OBVIOUS
  <2> SUFFICES ASSUME Init
               PROVE  TypeOK
    OBVIOUS
  <2>3. dedupSeen \in [Keys -> Ages] /\ accepted \in [Keys -> Ages]
    <3> HIDE DEF Ages
    <3> QED
      BY <2>1 DEF Init
  <2>4. notifyCh \in Seq(Nat \ {0}) /\ Len(notifyCh) <= QueueCap
    BY <2>2 DEF Init
  <2>5. cleanIn \in -Jitter .. CleanPeriod
    BY <2>1 DEF Init
  <2>6. pause \in 0 .. NotifyInterval /\ sinceSend \in 0 .. NotifyInterval
    BY DEF Init
  <2> QED
    BY <2>2, <2>3, <2>4, <2>5, <2>6 DEF Init
<1>2. TypeOK /\ [Next]_vars => TypeOK'
  <2> SUFFICES ASSUME TypeOK, [Next]_vars
               PROVE  TypeOK'
    OBVIOUS
  <2>1. ASSUME NEW m \in Msgs, HandleMQTTMessage(m)
        PROVE  TypeOK'
    <3>1. arrivals' = arrivals + 1
      BY <2>1 DEF HandleMQTTMessage, Arrive
    <3>2. ASSUME NEW f \in [Keys -> Ages]
          PROVE  WithKeyAtNow(f, m) \in [Keys -> Ages]
      BY DEF WithKeyAtNow
    <3>3. CASE DropPresence(m) \/ DropDuplicate(m)
      BY <2>1, <3>1, <3>3 DEF HandleMQTTMessage, DropPresence, DropDuplicate
    <3>4. CASE DropOverflow(m)
      <4>1. dedupSeen' \in [Keys -> Ages] /\ UNCHANGED <<notifyCh, accepted>>
        BY <3>2, <3>4 DEF DropOverflow, RecordKey
      <4> HIDE DEF Ages, AgeCap
      <4> QED
        BY <2>1, <3>1, <4>1 DEF HandleMQTTMessage
    <3>5. CASE Enqueue(m)
      <4>1. /\ notifyCh' \in Seq(Nat \ {0})
            /\ Len(notifyCh') <= QueueCap
        <5>1. arrivals + 1 \in Nat \ {0}
          OBVIOUS
        <5>2. Len(notifyCh') = Len(notifyCh) + 1
          BY <3>5, <5>1 DEF Enqueue, Queued
        <5>3. notifyCh' \in Seq(Nat \ {0})
          BY <3>5, <5>1 DEF Enqueue, Queued
        <5> QED
          BY <3>5, <5>2, <5>3 DEF Enqueue, HasRoom
      <4>2. dedupSeen' \in [Keys -> Ages] /\ accepted' \in [Keys -> Ages]
        BY <3>2, <3>5 DEF Enqueue, RecordKey
      <4> HIDE DEF Ages, AgeCap
      <4> QED
        BY <2>1, <3>1, <4>1, <4>2 DEF HandleMQTTMessage
    <3> QED
      BY <2>1, <3>3, <3>4, <3>5 DEF HandleMQTTMessage
  <2>2. CASE WorkerSend
    <3>1. /\ notifyCh' \in Seq(Nat \ {0})
          /\ Len(notifyCh') <= QueueCap
          /\ Head(notifyCh) \in Nat \ {0}
      BY <2>2 DEF WorkerSend, Rest
    <3>2. delivered' \in Seq(Nat \ {0})
      BY <2>2, <3>1 DEF WorkerSend
    <3> QED
      BY <2>2, <3>1, <3>2 DEF WorkerSend
  <2>3. CASE WorkerWake
    BY <2>3 DEF WorkerWake
  <2>4. CASE WorkerStop
    BY <2>4 DEF WorkerStop, StopsIn
  <2>5. CASE CleanerRun
    BY <2>5 DEF CleanerRun
  <2>6. CASE CleanerStop
    BY <2>6 DEF CleanerStop
  <2>7. CASE Tick
    <3>1. ASSUME NEW age \in Ages
          PROVE  Older(age) \in Ages
      BY DEF Older
    <3>2. /\ dedupSeen' \in [Keys -> Ages]
          /\ accepted' \in [Keys -> Ages]
      BY <2>7, <3>1 DEF Tick
    <3>3. /\ pause' \in 0 .. NotifyInterval
          /\ sinceSend' \in 0 .. NotifyInterval
          /\ cleanIn' \in -Jitter .. CleanPeriod
      BY <2>7 DEF Tick
    <3> QED
      BY <2>7, <3>2, <3>3 DEF Tick
  <2>8. CASE Cancel
    BY <2>8 DEF Cancel
  <2>9. CASE ClientInitialize
    BY <2>9 DEF ClientInitialize
  <2>10. CASE UNCHANGED vars
    BY <2>10 DEF vars
  <2> QED
    BY <2>1, <2>2, <2>3, <2>4, <2>5, <2>6, <2>7, <2>8, <2>9, <2>10 DEF Next
<1> QED
  BY <1>1, <1>2, PTL DEF Spec

-----------------------------------------------------------------------------
\* Messages are neither reordered nor repeated, in the channel or on their
\* way out: the handler appends the newest number, the worker moves the
\* oldest, and nothing else touches the channel.
THEOREM Ordered == Spec => []InOrder
<1> USE InboundAssumption
<1>1. Init => InOrder
  BY DEF Init, InOrder
<1>2. TypeOK /\ InOrder /\ [Next]_vars => InOrder'
  <2> SUFFICES ASSUME TypeOK, InOrder, [Next]_vars
               PROVE  InOrder'
    OBVIOUS
  <2>0. /\ arrivals \in Nat
        /\ notifyCh \in Seq(Nat \ {0})
        /\ delivered \in Seq(Nat \ {0})
    BY DEF TypeOK
  <2>1. ASSUME NEW m \in Msgs, HandleMQTTMessage(m)
        PROVE  InOrder'
    <3>1. arrivals' = arrivals + 1 /\ delivered' = delivered
      BY <2>1 DEF HandleMQTTMessage, Arrive
    <3>2. CASE notifyCh' = notifyCh
      BY <2>0, <3>1, <3>2 DEF InOrder
    <3>3. CASE notifyCh' = Append(notifyCh, arrivals + 1)
      <4>1. /\ Len(notifyCh') = Len(notifyCh) + 1
            /\ \A i \in 1 .. Len(notifyCh) : notifyCh'[i] = notifyCh[i]
            /\ notifyCh'[Len(notifyCh) + 1] = arrivals + 1
        BY <2>0, <3>3
      <4>2. \A i \in 1 .. Len(notifyCh') : notifyCh'[i] <= arrivals'
        BY SMTT(30), <2>0, <3>1, <4>1 DEF InOrder
      <4>3. \A i, j \in 1 .. Len(notifyCh') : i < j => notifyCh'[i] < notifyCh'[j]
        <5> SUFFICES ASSUME NEW i \in 1 .. Len(notifyCh'),
                            NEW j \in 1 .. Len(notifyCh'), i < j
                     PROVE  notifyCh'[i] < notifyCh'[j]
          OBVIOUS
        <5>1. i \in 1 .. Len(notifyCh) /\ notifyCh'[i] = notifyCh[i]
          BY <2>0, <4>1
        <5>2. notifyCh[i] \in Nat /\ notifyCh[i] <= arrivals
          BY <2>0, <5>1 DEF InOrder
        <5>3. CASE j = Len(notifyCh) + 1
          BY <2>0, <4>1, <5>1, <5>2, <5>3
        <5>4. CASE j \in 1 .. Len(notifyCh)
          <6>1. notifyCh[i] < notifyCh[j]
            BY <5>1, <5>4 DEF InOrder
          <6> QED
            BY <4>1, <5>1, <5>4, <6>1
        <5>5. Len(notifyCh) \in Nat
          BY <2>0
        <5>6. j = Len(notifyCh) + 1 \/ j \in 1 .. Len(notifyCh)
          BY <4>1, <5>5
        <5> QED
          BY <5>3, <5>4, <5>6
      <4>4. \A i \in 1 .. Len(delivered), j \in 1 .. Len(notifyCh') :
                delivered[i] < notifyCh'[j]
        <5> SUFFICES ASSUME NEW i \in 1 .. Len(delivered),
                            NEW j \in 1 .. Len(notifyCh')
                     PROVE  delivered[i] < notifyCh'[j]
          OBVIOUS
        <5>1. delivered[i] \in Nat /\ delivered[i] <= arrivals
          BY <2>0 DEF InOrder
        <5>2. CASE j = Len(notifyCh) + 1
          BY <2>0, <4>1, <5>1, <5>2
        <5>3. CASE j \in 1 .. Len(notifyCh)
          BY <4>1, <5>3 DEF InOrder
        <5> QED
          BY <2>0, <4>1, <5>2, <5>3
      <4> QED
        BY <2>0, <3>1, <4>2, <4>3, <4>4 DEF InOrder
    <3> QED
      BY <2>1, <3>2, <3>3 DEF HandleMQTTMessage, DropPresence, DropDuplicate,
                              DropOverflow, Enqueue, Queued
  <2>2. CASE WorkerSend
    <3>1. /\ Len(notifyCh) > 0
          /\ Len(Tail(notifyCh)) = Len(notifyCh) - 1
          /\ \A i \in 1 .. Len(notifyCh) - 1 : Tail(notifyCh)[i] = notifyCh[i + 1]
          /\ Head(notifyCh) = notifyCh[1]
      BY <2>0, <2>2 DEF WorkerSend
    <3>2. notifyCh' = Tail(notifyCh) /\ arrivals' = arrivals
      BY <2>2 DEF WorkerSend, Rest
    <3>3. CASE delivered' = delivered
      BY <2>0, <3>1, <3>2, <3>3 DEF InOrder
    <3>4. CASE delivered' = Append(delivered, notifyCh[1])
      <4>1. /\ Len(delivered') = Len(delivered) + 1
            /\ \A i \in 1 .. Len(delivered) : delivered'[i] = delivered[i]
            /\ delivered'[Len(delivered) + 1] = notifyCh[1]
            /\ Len(delivered) \in Nat
        BY <2>0, <3>1, <3>4
      <4>2. \A i \in 1 .. Len(delivered') :
                \/ i \in 1 .. Len(delivered)
                \/ i = Len(delivered) + 1
        BY <4>1
      <4>3. \A i, j \in 1 .. Len(delivered') : i < j => delivered'[i] < delivered'[j]
        BY <3>1, <4>1, <4>2 DEF InOrder
      <4>4. \A i \in 1 .. Len(delivered') : delivered'[i] <= arrivals'
        BY <3>1, <3>2, <4>1, <4>2 DEF InOrder
      <4>5. \A i, j \in 1 .. Len(notifyCh') : i < j => notifyCh'[i] < notifyCh'[j]
        BY <2>0, <3>1, <3>2 DEF InOrder
      <4>6. /\ \A j \in 1 .. Len(notifyCh') : notifyCh'[j] <= arrivals'
            /\ \A j \in 1 .. Len(notifyCh') : notifyCh[1] < notifyCh'[j]
        <5>1. Len(notifyCh) \in Nat
          BY <2>0
        <5>2. \A j \in 1 .. Len(notifyCh') :
                  j + 1 \in 1 .. Len(notifyCh) /\ 1 \in 1 .. Len(notifyCh) /\ 1 < j + 1
          BY <3>1, <3>2, <5>1
        <5>3. \A j \in 1 .. Len(notifyCh') : notifyCh'[j] = notifyCh[j + 1]
          BY <3>1, <3>2, <5>1
        <5> QED
          BY <3>2, <5>2, <5>3 DEF InOrder
      <4>7. \A i \in 1 .. Len(delivered'), j \in 1 .. Len(notifyCh') :
                delivered'[i] < notifyCh'[j]
        <5>1. \A i \in 1 .. Len(delivered), j \in 1 .. Len(notifyCh') :
                  delivered[i] < notifyCh'[j]
          BY <2>0, <3>1, <3>2 DEF InOrder
        <5> QED
          BY <4>1, <4>2, <4>6, <5>1
      <4> QED
        BY <4>3, <4>4, <4>5, <4>6, <4>7 DEF InOrder
    <3> QED
      BY <2>2, <3>1, <3>3, <3>4 DEF WorkerSend
  <2>3. CASE UNCHANGED <<arrivals, notifyCh, delivered>>
    BY <2>3 DEF InOrder
  <2> QED
    BY <2>1, <2>2, <2>3 DEF Next, vars, WorkerWake, WorkerStop, CleanerRun,
                            CleanerStop, Tick, Cancel, ClientInitialize
<1> QED
  BY <1>1, <1>2, TypeCorrect, PTL DEF Spec

-----------------------------------------------------------------------------
\* dedupSeen holds no key for ever: while the cleaner runs, a key's age and
\* the time to the next tick together never exceed dedupTTL and a period.
THEOREM KeysExpire == Spec => []NoStaleKey
<1> USE InboundAssumption
<1>1. Init => KeyLife
  BY DEF Init, KeyLife, Seen
<1>2. TypeOK /\ KeyLife /\ [Next]_vars => KeyLife'
  <2> SUFFICES ASSUME TypeOK, KeyLife, [Next]_vars,
                      cleaner' = "running",
                      NEW k \in Keys, dedupSeen'[k] # Unseen
               PROVE  dedupSeen'[k] + cleanIn' <= DedupTTL + CleanPeriod
    BY DEF KeyLife, Seen
  <2>0. /\ dedupSeen[k] \in Ages
        /\ cleanIn \in -Jitter .. CleanPeriod
        /\ dedupSeen \in [Keys -> Ages]
    BY DEF TypeOK
  <2> USE DEF Ages, AgeCap, Unseen
  <2>1. ASSUME NEW m \in Msgs, HandleMQTTMessage(m)
        PROVE  dedupSeen'[k] + cleanIn' <= DedupTTL + CleanPeriod
    <3>1. cleanIn' = cleanIn /\ cleaner = "running"
      BY <2>1 DEF HandleMQTTMessage
    <3>2. dedupSeen'[k] = dedupSeen[k] \/ dedupSeen'[k] = 0
      BY <2>1 DEF HandleMQTTMessage, DropPresence, DropDuplicate, DropOverflow,
                  Enqueue, RecordKey, WithKeyAtNow
    <3> QED
      BY <2>0, <3>1, <3>2 DEF KeyLife, Seen
  <2>2. CASE CleanerRun
    <3>1. dedupSeen'[k] = dedupSeen[k] /\ ~Expired(k)
      BY <2>2 DEF CleanerRun
    <3> QED
      BY <2>0, <2>2, <3>1 DEF CleanerRun, Expired
  <2>3. CASE Tick
    <3>1. cleaner = "running" /\ cleanIn' = cleanIn - 1
      BY <2>3 DEF Tick
    <3>2. dedupSeen[k] # Unseen /\ dedupSeen'[k] <= dedupSeen[k] + 1
      BY <2>0, <2>3 DEF Tick, Older
    <3>3. dedupSeen'[k] \in Ages
      BY <2>0, <2>3 DEF Tick, Older
    <3> QED
      BY <2>0, <3>1, <3>2, <3>3 DEF KeyLife, Seen
  <2>4. CASE UNCHANGED <<dedupSeen, cleaner, cleanIn>>
    BY <2>4 DEF KeyLife, Seen
  <2> QED
    BY <2>1, <2>2, <2>3, <2>4
    DEF Next, vars, WorkerSend, WorkerWake, WorkerStop, CleanerStop, Cancel,
        ClientInitialize
<1>3. TypeOK /\ KeyLife => NoStaleKey
  <2> SUFFICES ASSUME TypeOK, KeyLife, cleaner = "running", NEW k \in Keys
               PROVE  dedupSeen[k] <= DedupTTL + CleanPeriod + Jitter
    BY DEF NoStaleKey
  <2>1. dedupSeen[k] \in Ages /\ cleanIn \in -Jitter .. CleanPeriod
    BY DEF TypeOK
  <2> QED
    BY <2>1 DEF KeyLife, Seen, Ages, AgeCap, Unseen
<1> QED
  BY <1>1, <1>2, <1>3, TypeCorrect, PTL DEF Spec

-----------------------------------------------------------------------------
\* Two jobs with the same from+ts are queued more than dedupTTL apart: the
\* cleaner deletes a key only when it is older than that.
THEOREM RepeatsAreRefused == Spec => NoRepeatWithinTTL
<1> USE InboundAssumption DEF Unseen
<1>1. Init => RecentIsSeen
  BY DEF Init, RecentIsSeen
<1>2. TypeOK /\ RecentIsSeen /\ [Next]_vars => RecentIsSeen'
  <2> SUFFICES ASSUME TypeOK, RecentIsSeen, [Next]_vars, NEW k \in Keys,
                      accepted'[k] # Unseen, accepted'[k] <= DedupTTL
               PROVE  dedupSeen'[k] = accepted'[k]
    BY DEF RecentIsSeen
  <2>0. /\ dedupSeen \in [Keys -> Ages] /\ dedupSeen[k] \in Ages
        /\ accepted \in [Keys -> Ages] /\ accepted[k] \in Ages
    BY DEF TypeOK
  <2> USE DEF Ages, AgeCap
  <2>1. ASSUME NEW m \in Msgs, HandleMQTTMessage(m)
        PROVE  dedupSeen'[k] = accepted'[k]
    <3>1. CASE DropPresence(m) \/ DropDuplicate(m)
      BY <3>1 DEF DropPresence, DropDuplicate, RecentIsSeen
    <3>2. CASE DropOverflow(m)
      BY <2>0, <3>2 DEF DropOverflow, RecordKey, WithKeyAtNow, IsDuplicate,
                        Seen, RecentIsSeen
    <3>3. CASE Enqueue(m)
      BY <3>3 DEF Enqueue, RecordKey, WithKeyAtNow, RecentIsSeen
    <3> QED
      BY <2>1, <3>1, <3>2, <3>3 DEF HandleMQTTMessage
  <2>2. CASE CleanerRun
    BY <2>0, <2>2 DEF CleanerRun, Expired, RecentIsSeen
  <2>3. CASE Tick
    <3>1. accepted[k] # Unseen /\ accepted[k] <= DedupTTL
      BY <2>0, <2>3 DEF Tick, Older
    <3> QED
      BY <2>0, <2>3, <3>1 DEF Tick, RecentIsSeen
  <2>4. CASE UNCHANGED <<dedupSeen, accepted>>
    BY <2>4 DEF RecentIsSeen
  <2> QED
    BY <2>1, <2>2, <2>3, <2>4
    DEF Next, vars, WorkerSend, WorkerWake, WorkerStop, CleanerStop, Cancel,
        ClientInitialize
<1>3. ASSUME TypeOK, RecentIsSeen, NEW m \in Msgs, HandleMQTTMessage(m),
             Len(notifyCh') > Len(notifyCh), NEW k \in Keys, k = KeyOf[m]
      PROVE  accepted[k] = Unseen \/ accepted[k] > DedupTTL
  <2>1. notifyCh \in Seq(Nat \ {0}) /\ accepted[k] \in Ages
    BY <1>3 DEF TypeOK
  <2>2. dedupSeen[k] = Unseen
    BY <1>3, <2>1 DEF HandleMQTTMessage, DropPresence, DropDuplicate,
                      DropOverflow, Enqueue, IsDuplicate, Seen
  <2> QED
    <3>1. accepted[k] \in Int /\ DedupTTL \in Int
      BY <2>1 DEF Ages, AgeCap
    <3>2. accepted[k] # Unseen /\ accepted[k] <= DedupTTL
            => dedupSeen[k] = accepted[k]
      BY <1>3 DEF RecentIsSeen
    <3> QED
      BY <2>2, <3>1, <3>2
<1>4. TypeOK /\ RecentIsSeen /\ [Next]_vars =>
        [\A m \in Msgs : HandleMQTTMessage(m) /\ Len(notifyCh') > Len(notifyCh) =>
           \A k \in Keys : k = KeyOf[m] =>
              accepted[k] = Unseen \/ accepted[k] > DedupTTL]_vars
  BY <1>3
<1> QED
  BY <1>1, <1>2, <1>4, TypeCorrect, PTL DEF Spec, NoRepeatWithinTTL

-----------------------------------------------------------------------------
\* Two notifications are never closer than notifyInterval: the worker is
\* ready to send again only when its timer has run down.
THEOREM SendsArePaced == Spec => Paced
<1> USE InboundAssumption
<1>1. Init => PauseLeft
  BY DEF Init, PauseLeft
<1>2. TypeOK /\ PauseLeft /\ [Next]_vars => PauseLeft'
  <2> SUFFICES ASSUME TypeOK, PauseLeft, [Next]_vars
               PROVE  PauseLeft'
    OBVIOUS
  <2>0. pause \in 0 .. NotifyInterval /\ sinceSend \in 0 .. NotifyInterval
    BY DEF TypeOK
  <2>1. CASE WorkerSend
    BY <2>1 DEF WorkerSend, PauseLeft
  <2>2. CASE WorkerWake
    BY <2>0, <2>2 DEF WorkerWake, PauseOver, PauseLeft
  <2>3. CASE WorkerStop
    BY <2>3 DEF WorkerStop, PauseLeft
  <2>4. CASE Tick
    BY <2>0, <2>4 DEF Tick, PauseLeft
  <2>5. CASE UNCHANGED <<worker, pause, sinceSend>>
    BY <2>5 DEF PauseLeft
  <2> QED
    BY <2>1, <2>2, <2>3, <2>4, <2>5
    DEF Next, vars, HandleMQTTMessage, CleanerRun, CleanerStop, Cancel,
        ClientInitialize
<1>3. PauseLeft /\ [Next]_vars => [WorkerSend => sinceSend = NotifyInterval]_vars
  BY DEF PauseLeft, WorkerSend
<1> QED
  BY <1>1, <1>2, <1>3, TypeCorrect, PTL DEF Spec, Paced

-----------------------------------------------------------------------------
\* The handler and the worker together implement a FIFO that may lose
\* messages: an arrival is sent, a notification received.
THEOREM Refinement == Spec => ImplementsLossyFifo
<1> USE InboundAssumption
<1>1. Init => Fifo!Init
  BY DEF Init, Fifo!Init
<1>2. TypeOK /\ InOrder /\ [Next]_vars => [Fifo!Next]_(Fifo!vars)
  <2> SUFFICES ASSUME TypeOK, InOrder, [Next]_vars
               PROVE  [Fifo!Next]_(Fifo!vars)
    OBVIOUS
  <2>0. notifyCh \in Seq(Nat \ {0}) /\ delivered \in Seq(Nat \ {0})
    BY DEF TypeOK
  <2>1. ASSUME NEW m \in Msgs, HandleMQTTMessage(m)
        PROVE  Fifo!Next
    BY <2>1 DEF HandleMQTTMessage, Arrive, Fifo!Next, Fifo!Send
  <2>2. CASE WorkerSend
    <3>1. CASE delivered' = delivered
      BY <2>2, <3>1 DEF WorkerSend, Fifo!vars
    <3>2. CASE delivered' = Append(delivered, Head(notifyCh))
      <4>1. Len(notifyCh) > 0 /\ Head(notifyCh) = notifyCh[1]
        BY <2>0, <2>2 DEF WorkerSend
      <4>2. Head(notifyCh) \in 1 .. arrivals
        BY <2>0, <4>1 DEF InOrder, TypeOK
      <4>3. Fifo!Receive(Head(notifyCh))
        <5>1. \A i \in 1 .. Len(delivered) : delivered[i] < Head(notifyCh)
          BY <2>0, <4>1 DEF InOrder
        <5> QED
          BY <2>2, <3>2, <5>1 DEF Fifo!Receive, WorkerSend
      <4> QED
        BY <4>2, <4>3 DEF Fifo!Next
    <3> QED
      BY <2>2, <3>1, <3>2 DEF WorkerSend
  <2>3. CASE UNCHANGED <<arrivals, delivered>>
    BY <2>3 DEF Fifo!vars
  <2> QED
    BY <2>1, <2>2, <2>3 DEF Next, vars, WorkerWake, WorkerStop, CleanerRun,
                            CleanerStop, Tick, Cancel, ClientInitialize
<1> QED
  BY <1>1, <1>2, TypeCorrect, Ordered, PTL DEF Spec, ImplementsLossyFifo, Fifo!Spec
=============================================================================
