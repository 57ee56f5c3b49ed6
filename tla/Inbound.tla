------------------------------- MODULE Inbound -------------------------------
(***************************************************************************)
(* The path of an MQTT message through the bridge to Claude Code           *)
(* (internal/mcp/server.go): HandleMQTTMessage filters presence topics,    *)
(* drops duplicates by the key from+ts, and puts a job in the bounded      *)
(* channel notifyCh without blocking; notifyWorker drains the channel and  *)
(* pauses between sends; dedupCleaner expires the keys on a ticker.        *)
(*                                                                         *)
(* Time is discrete.  A time stamp of the code is modelled by its age, the *)
(* number of ticks since it was taken, saturated at AgeCap, which is past  *)
(* every age the code distinguishes; so no run needs a time horizon.       *)
(***************************************************************************)
EXTENDS Integers, Sequences

CONSTANTS
    Msgs,           \* payloads that may arrive; one may arrive several times
    Keys,           \* the dedup keys "from:ts"
    NoKey,          \* a payload that is no JSON message, or has no "from"
    KeyOf,          \* the key isDuplicate computes for a payload
    PresenceMsgs,   \* the messages whose topic starts with agents/presence/
    QueueCap,       \* capacity of notifyCh (64 in the code)
    NotifyInterval, \* notifyInterval, in ticks (50 ms)
    DedupTTL,       \* dedupTTL, in ticks (200 ms)
    CleanPeriod,    \* period of the cleaner's ticker, in ticks (500 ms)
    Jitter,         \* how many ticks late the cleaner may be scheduled
    MaxArrivals     \* bound of the model: calls of HandleMQTTMessage

ASSUME InboundAssumption ==
    /\ NoKey \notin Keys
    /\ KeyOf \in [Msgs -> Keys \cup {NoKey}]
    /\ PresenceMsgs \subseteq Msgs
    /\ QueueCap \in Nat \ {0}
    /\ NotifyInterval \in Nat
    /\ DedupTTL \in Nat
    /\ CleanPeriod \in Nat \ {0}
    /\ Jitter \in 0 .. CleanPeriod - 1
    /\ MaxArrivals \in Nat

VARIABLES
    arrivals,    \* number of calls of HandleMQTTMessage so far
    dedupSeen,   \* age of each recorded key, or Unseen when not in the map
    notifyCh,    \* the buffered channel; a job is the number of its arrival
    worker,      \* where notifyWorker is: "recv", "pause" or "stopped"
    pause,       \* ticks left of the worker's time.After(notifyInterval)
    cleaner,     \* "running" or "stopped"
    cleanIn,     \* ticks until the cleaner's ticker fires; negative if late
    cancelled,   \* the context given to Start is cancelled
    initialized, \* an MCP client has finished the initialize handshake
    delivered,   \* history: arrival numbers of the jobs a client received
    accepted,    \* history: age of the last queued job of each key
    sinceSend    \* history: age of the last send, saturated at NotifyInterval

vars == <<arrivals, dedupSeen, notifyCh, worker, pause, cleaner, cleanIn,
          cancelled, initialized, delivered, accepted, sinceSend>>

AgeCap == DedupTTL + CleanPeriod + Jitter + 1
Unseen == -1
Ages   == Unseen .. AgeCap

TypeOK ==
    /\ arrivals \in Nat
    /\ dedupSeen \in [Keys -> Ages]
    /\ notifyCh \in Seq(Nat \ {0})
    /\ Len(notifyCh) <= QueueCap
    /\ worker \in {"recv", "pause", "stopped"}
    /\ pause \in 0 .. NotifyInterval
    /\ cleaner \in {"running", "stopped"}
    /\ cleanIn \in -Jitter .. CleanPeriod
    /\ cancelled \in BOOLEAN
    /\ initialized \in BOOLEAN
    /\ delivered \in Seq(Nat \ {0})
    /\ accepted \in [Keys -> Ages]
    /\ sinceSend \in 0 .. NotifyInterval

-----------------------------------------------------------------------------
Seen(k) == dedupSeen[k] # Unseen

\* An age after one more tick.
Older(age) == IF age = Unseen \/ age = AgeCap THEN age ELSE age + 1

\* What isDuplicate answers, and the key it records on first sight.
IsDuplicate(m) == KeyOf[m] # NoKey /\ Seen(KeyOf[m])
WithKeyAtNow(f, m) == [k \in Keys |-> IF k = KeyOf[m] THEN 0 ELSE f[k]]
RecordKey(m) == dedupSeen' = WithKeyAtNow(dedupSeen, m)

-----------------------------------------------------------------------------
(* HandleMQTTMessage: runs on the router's goroutine, one call at a time.  *)

\* Faults: a full channel takes jobs; the channel is a stack.
HasRoomAlways  == TRUE
QueuedFirst(n) == <<n>> \o notifyCh

HasRoom   == Len(notifyCh) < QueueCap
Queued(n) == Append(notifyCh, n)

Arrive == arrivals < MaxArrivals /\ arrivals' = arrivals + 1

DropPresence(m) ==
    /\ m \in PresenceMsgs
    /\ UNCHANGED <<dedupSeen, notifyCh, accepted>>

DropDuplicate(m) ==
    /\ m \notin PresenceMsgs
    /\ IsDuplicate(m)
    /\ UNCHANGED <<dedupSeen, notifyCh, accepted>>

\* The key is recorded before the channel is found full.
DropOverflow(m) ==
    /\ m \notin PresenceMsgs
    /\ ~IsDuplicate(m)
    /\ ~HasRoom
    /\ RecordKey(m)
    /\ UNCHANGED <<notifyCh, accepted>>

Enqueue(m) ==
    /\ m \notin PresenceMsgs
    /\ ~IsDuplicate(m)
    /\ HasRoom
    /\ RecordKey(m)
    /\ notifyCh' = Queued(arrivals + 1)
    /\ accepted' = WithKeyAtNow(accepted, m)

HandleMQTTMessage(m) ==
    /\ Arrive
    /\ \/ DropPresence(m)
       \/ DropDuplicate(m)
       \/ DropOverflow(m)
       \/ Enqueue(m)
    /\ UNCHANGED <<worker, pause, cleaner, cleanIn, cancelled, initialized,
                   delivered, sinceSend>>

-----------------------------------------------------------------------------
(* notifyWorker.  Both of its selects pick any ready case, so after the    *)
(* cancellation a waiting job may still be sent.                           *)

\* Faults: a job sent during the shutdown stays; a send empties the channel.
RestKeeping == IF cancelled THEN notifyCh ELSE Tail(notifyCh)
RestNone    == <<>>
Rest        == Tail(notifyCh)

\* Faults: no wait for the timer; only the inner select ends the worker.
PauseOverAlways == TRUE
StopsInPause    == {"pause"}

PauseOver == pause = 0
StopsIn   == {"recv", "pause"}

\* SendNotificationToAllClients reaches only clients that are initialized.
WorkerSend ==
    /\ worker = "recv"
    /\ notifyCh # <<>>
    /\ notifyCh' = Rest
    /\ delivered' = IF initialized THEN Append(delivered, Head(notifyCh))
                                   ELSE delivered
    /\ worker' = "pause"
    /\ pause' = NotifyInterval
    /\ sinceSend' = 0
    /\ UNCHANGED <<arrivals, dedupSeen, cleaner, cleanIn, cancelled,
                   initialized, accepted>>

WorkerWake ==
    /\ worker = "pause"
    /\ PauseOver
    /\ worker' = "recv"
    /\ UNCHANGED <<arrivals, dedupSeen, notifyCh, pause, cleaner, cleanIn,
                   cancelled, initialized, delivered, accepted, sinceSend>>

WorkerStop ==
    /\ worker \in StopsIn
    /\ cancelled
    /\ worker' = "stopped"
    /\ UNCHANGED <<arrivals, dedupSeen, notifyCh, pause, cleaner, cleanIn,
                   cancelled, initialized, delivered, accepted, sinceSend>>

-----------------------------------------------------------------------------
(* dedupCleaner.                                                           *)

\* Faults: the cutoff is one tick too low; the cutoff is a period too high.
ExpiredAtTTL(k) == dedupSeen[k] >= DedupTTL
ExpiredLate(k)  == dedupSeen[k] > DedupTTL + CleanPeriod

\* seen.Before(now - dedupTTL) is an age above DedupTTL.
Expired(k) == dedupSeen[k] > DedupTTL

CleanerRun ==
    /\ cleaner = "running"
    /\ cleanIn <= 0
    /\ dedupSeen' = [k \in Keys |-> IF Expired(k) THEN Unseen ELSE dedupSeen[k]]
    /\ cleanIn' = cleanIn + CleanPeriod
    /\ UNCHANGED <<arrivals, notifyCh, worker, pause, cleaner, cancelled,
                   initialized, delivered, accepted, sinceSend>>

CleanerStop ==
    /\ cleaner = "running"
    /\ cancelled
    /\ cleaner' = "stopped"
    /\ UNCHANGED <<arrivals, dedupSeen, notifyCh, worker, pause, cleanIn,
                   cancelled, initialized, delivered, accepted, sinceSend>>

-----------------------------------------------------------------------------
(* The environment: the clock, main's cancel(), the MCP client.            *)

\* Time does not pass a due cleaner by more than Jitter.
Tick ==
    /\ cleaner = "running" => cleanIn > -Jitter
    /\ cleanIn' = IF cleaner = "running" THEN cleanIn - 1 ELSE cleanIn
    /\ pause' = IF pause = 0 THEN 0 ELSE pause - 1
    /\ dedupSeen' = [k \in Keys |-> Older(dedupSeen[k])]
    /\ accepted' = [k \in Keys |-> Older(accepted[k])]
    /\ sinceSend' = IF sinceSend = NotifyInterval THEN sinceSend
                                                  ELSE sinceSend + 1
    /\ UNCHANGED <<arrivals, notifyCh, worker, cleaner, cancelled, initialized,
                   delivered>>

Cancel ==
    /\ ~cancelled
    /\ cancelled' = TRUE
    /\ UNCHANGED <<arrivals, dedupSeen, notifyCh, worker, pause, cleaner,
                   cleanIn, initialized, delivered, accepted, sinceSend>>

ClientInitialize ==
    /\ ~initialized
    /\ initialized' = TRUE
    /\ UNCHANGED <<arrivals, dedupSeen, notifyCh, worker, pause, cleaner,
                   cleanIn, cancelled, delivered, accepted, sinceSend>>

\* New and Start: empty map and channel, both goroutines launched.
Init ==
    /\ arrivals = 0
    /\ dedupSeen = [k \in Keys |-> Unseen]
    /\ notifyCh = <<>>
    /\ worker = "recv"
    /\ pause = 0
    /\ cleaner = "running"
    /\ cleanIn = CleanPeriod
    /\ cancelled = FALSE
    /\ initialized = FALSE
    /\ delivered = <<>>
    /\ accepted = [k \in Keys |-> Unseen]
    /\ sinceSend = NotifyInterval

Next ==
    \/ \E m \in Msgs : HandleMQTTMessage(m)
    \/ WorkerSend
    \/ WorkerWake
    \/ WorkerStop
    \/ CleanerRun
    \/ CleanerStop
    \/ Tick
    \/ Cancel
    \/ ClientInitialize

Spec == Init /\ [][Next]_vars

\* The Go scheduler runs a goroutine that stays ready, and time passes.
Fairness ==
    /\ WF_vars(WorkerSend)
    /\ WF_vars(WorkerWake)
    /\ WF_vars(WorkerStop)
    /\ WF_vars(CleanerRun)
    /\ WF_vars(CleanerStop)
    /\ WF_vars(Tick)

FairSpec == Spec /\ Fairness

-----------------------------------------------------------------------------
(* Safety.                                                                 *)

\* The channel holds jobs in order of arrival, each newer than everything
\* delivered: HandleMQTTMessage and notifyWorker never reorder or repeat.
InOrder ==
    /\ \A i, j \in 1 .. Len(delivered) : i < j => delivered[i] < delivered[j]
    /\ \A i, j \in 1 .. Len(notifyCh) : i < j => notifyCh[i] < notifyCh[j]
    /\ \A i \in 1 .. Len(delivered), j \in 1 .. Len(notifyCh) :
            delivered[i] < notifyCh[j]
    /\ \A i \in 1 .. Len(delivered) : delivered[i] <= arrivals
    /\ \A i \in 1 .. Len(notifyCh) : notifyCh[i] <= arrivals

\* While the cleaner runs, no key outlives its TTL by more than one period
\* of the ticker and its lateness: dedupSeen does not grow for ever, and a
\* message is not refused for ever (dedupCleaner).
NoStaleKey ==
    cleaner = "running" =>
        \A k \in Keys : dedupSeen[k] <= DedupTTL + CleanPeriod + Jitter

\* Two jobs with the same from+ts are never queued within dedupTTL of each
\* other, whatever the cleaner does in between (isDuplicate's comment).
NoRepeatWithinTTL ==
    [][\A m \in Msgs : HandleMQTTMessage(m) /\ Len(notifyCh') > Len(notifyCh) =>
          \A k \in Keys : k = KeyOf[m] =>
              accepted[k] = Unseen \/ accepted[k] > DedupTTL]_vars

\* Consecutive notifications are at least notifyInterval apart ("minimum
\* delay between consecutive MCP notifications", server.go).
Paced == [][WorkerSend => sinceSend = NotifyInterval]_vars

\* Seen from outside, the path is a FIFO that may lose messages but neither
\* reorders, repeats nor invents them.
Fifo == INSTANCE LossyFifo WITH sent <- arrivals, received <- delivered
ImplementsLossyFifo == Fifo!Spec

\* What isDuplicate's comment says of a refusal: an identical message was
\* seen within dedupTTL.  The code refuses until the cleaner's next tick.
RefusedOnlyWithinTTL ==
    [][\A m \in Msgs : HandleMQTTMessage(m) /\ DropDuplicate(m) =>
          dedupSeen[KeyOf[m]] <= DedupTTL]_vars

-----------------------------------------------------------------------------
(* Why NoStaleKey, NoRepeatWithinTTL and Paced hold: what each step keeps. *)

\* The age a key will have when the ticker next fires is bounded.
KeyLife ==
    cleaner = "running" =>
        \A k \in Keys : Seen(k) => dedupSeen[k] + cleanIn <= DedupTTL + CleanPeriod

\* A key queued within the TTL is still recorded, with the same age.
RecentIsSeen ==
    \A k \in Keys : accepted[k] # Unseen /\ accepted[k] <= DedupTTL
                        => dedupSeen[k] = accepted[k]

\* The pause that is left makes up for the time since the last send.
PauseLeft ==
    /\ worker = "recv" => sinceSend = NotifyInterval
    /\ worker = "pause" => sinceSend + pause = NotifyInterval

IInv == TypeOK /\ InOrder /\ KeyLife /\ RecentIsSeen /\ PauseLeft

-----------------------------------------------------------------------------
(* Liveness.                                                               *)

IsQueued(n)    == \E i \in 1 .. Len(notifyCh) : notifyCh[i] = n
IsDelivered(n) == \E i \in 1 .. Len(delivered) : delivered[i] = n

\* A job in the channel reaches an initialized client unless main cancels:
\* neither the pause nor a full channel loses it.
QueuedIsDelivered ==
    \A n \in 1 .. MaxArrivals :
        IsQueued(n) /\ initialized ~> IsDelivered(n) \/ cancelled

\* After main's cancel() both goroutines of Start end, wherever they were.
ShutdownCompletes == cancelled ~> worker = "stopped" /\ cleaner = "stopped"
=============================================================================
