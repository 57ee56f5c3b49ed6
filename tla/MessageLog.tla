------------------------------ MODULE MessageLog ------------------------------
(***************************************************************************)
(* MQTTLogger.Log (internal/logger/logger.go): messages are appended to    *)
(* one Markdown file per week.  The router's goroutine logs what arrives,  *)
(* the goroutines of the tools log what Publish sent; one lock per process *)
(* orders them.  Bridges with the same Log.Path write to the same files,   *)
(* and nothing orders those.  Every error of the file system is ignored.   *)
(***************************************************************************)
EXTENDS TopicFilter, FiniteSets

CONSTANTS
    Processes,  \* the bridges that log to one directory
    Callers,    \* the goroutines that call Log
    ProcessOf,  \* the process of each
    LogTopics,  \* Log.Topics of the configuration
    Topics,     \* topics of the messages
    MaxWeek,    \* bound of the model: weeks that begin
    MaxTime,    \* bound of the model: ticks of the clock
    MaxCalls,   \* bound of the model: calls of Log
    MaxCrashes  \* bound of the model: processes killed and restarted

ASSUME MessageLogAssumption ==
    /\ ProcessOf \in [Callers -> Processes]
    /\ MaxWeek \in Nat \ {0}
    /\ {MaxTime, MaxCalls, MaxCrashes} \subseteq Nat

VARIABLES
    pc,       \* where each caller is in Log
    job,      \* the number of its call
    at,       \* its time.Now(): the week, and the time in ticks
    mu,       \* the lock of each process: held or not
    file,     \* what each week's file holds, block by block
    week,     \* the current week
    time,     \* the clock
    calls,    \* calls so far
    crashes,  \* processes killed so far
    skipped,  \* history: calls that end without an entry, and may
    spoiled   \* history: weeks in which a header could not be written

vars == <<pc, job, at, mu, file, week, time, calls, crashes, skipped, spoiled>>
clock == <<week, time>>

Weeks  == 1 .. MaxWeek
Stamps == [week : Weeks, time : 0 .. MaxTime]
Blocks == [kind : {"header", "entry"}, by : Processes, job : 0 .. MaxCalls,
           time : 0 .. MaxTime]

TypeOK ==
    /\ pc \in [Callers -> {"idle", "lock", "open", "header", "entry"}]
    /\ job \in [Callers -> 0 .. MaxCalls]
    /\ at \in [Callers -> Stamps]
    /\ mu \in [Processes -> BOOLEAN]
    /\ file \in [Weeks -> Seq(Blocks)]
    /\ week \in Weeks
    /\ time \in 0 .. MaxTime
    /\ calls \in 0 .. MaxCalls
    /\ crashes \in 0 .. MaxCrashes
    /\ skipped \subseteq 0 .. MaxCalls
    /\ spoiled \subseteq Weeks

-----------------------------------------------------------------------------
(* The steps of Log.                                                       *)

\* New: without log topics the logger takes agents/#.  matchTopic is the
\* client's mqttMatch once more.
LoggerTopics == IF LogTopics = {} THEN {<<"agents", Hash>>} ELSE LogTopics
Accepts(t)   == \E p \in LoggerTopics : MqttMatch(p, t)

Goto(c, place) == pc' = [pc EXCEPT ![c] = place]

\* Faults: the lock is not looked at; an early return keeps it.
FreeAlways(p)     == TRUE
UnlockForgotten(p) == UNCHANGED mu

Free(p)   == ~mu[p]
Unlock(p) == mu' = [mu EXCEPT ![p] = FALSE]

\* Fault: the week is one too high.
StampNextWeek == [week |-> week + 1, time |-> time]

Stamp == [week |-> week, time |-> time]

\* Faults: a header for the first week only; the file is opened without
\* O_APPEND, and a write starts at its beginning.
IsNewFirstWeek(w)   == file[w] = <<>> /\ w = 1
OverWritten(w, b) == <<b>>

IsNew(w)       == file[w] = <<>>
Appended(w, b) == Append(file[w], b)

Write(w, b) == file' = [file EXCEPT ![w] = Appended(w, b)]

\* A topic that does not match is not logged.
Call(c, t) ==
    /\ pc[c] = "idle"
    /\ calls < MaxCalls
    /\ calls' = calls + 1
    /\ IF Accepts(t)
       THEN Goto(c, "lock") /\ job' = [job EXCEPT ![c] = calls + 1] /\ UNCHANGED skipped
       ELSE skipped' = skipped \cup {calls + 1} /\ UNCHANGED <<pc, job>>
    /\ UNCHANGED <<at, mu, file, clock, crashes, spoiled>>

\* The time is taken under the lock.
Lock(c) ==
    /\ pc[c] = "lock"
    /\ Free(ProcessOf[c])
    /\ mu' = [mu EXCEPT ![ProcessOf[c]] = TRUE]
    /\ at' = [at EXCEPT ![c] = Stamp]
    /\ Goto(c, "open")
    /\ UNCHANGED <<job, file, clock, calls, crashes, skipped, spoiled>>

\* MkdirAll or OpenFile fails: the message is not logged.
OpenFails(c) ==
    /\ pc[c] = "open"
    /\ Goto(c, "idle")
    /\ Unlock(ProcessOf[c])
    /\ skipped' = skipped \cup {job[c]}
    /\ UNCHANGED <<job, at, file, clock, calls, crashes, spoiled>>

\* The size decides; another process may write before this one does.
Open(c) ==
    /\ pc[c] = "open"
    /\ Goto(c, IF IsNew(at[c].week) THEN "header" ELSE "entry")
    /\ UNCHANGED <<job, at, mu, file, clock, calls, crashes, skipped, spoiled>>

WriteHeader(c) ==
    /\ pc[c] = "header"
    /\ Goto(c, "entry")
    /\ \/ /\ Write(at[c].week, [kind |-> "header", by |-> ProcessOf[c], job |-> 0,
                                time |-> at[c].time])
          /\ UNCHANGED spoiled
       \/ spoiled' = spoiled \cup {at[c].week} /\ UNCHANGED file
    /\ UNCHANGED <<job, at, mu, clock, calls, crashes, skipped>>

WriteEntry(c) ==
    /\ pc[c] = "entry"
    /\ Goto(c, "idle")
    /\ Unlock(ProcessOf[c])
    /\ \/ /\ Write(at[c].week, [kind |-> "entry", by |-> ProcessOf[c], job |-> job[c],
                                time |-> at[c].time])
          /\ UNCHANGED skipped
       \/ skipped' = skipped \cup {job[c]} /\ UNCHANGED file
    /\ UNCHANGED <<job, at, clock, calls, crashes, spoiled>>

-----------------------------------------------------------------------------
(* The environment.                                                        *)

Tick ==
    /\ time < MaxTime
    /\ time' = time + 1
    /\ week' \in {week, week + 1} \cap Weeks
    /\ UNCHANGED <<pc, job, at, mu, file, calls, crashes, skipped, spoiled>>

Busy(p) == {c \in Callers : ProcessOf[c] = p /\ pc[c] # "idle"}

\* The process is killed and started again.
Crash(p) ==
    /\ crashes < MaxCrashes
    /\ crashes' = crashes + 1
    /\ pc' = [c \in Callers |-> IF c \in Busy(p) THEN "idle" ELSE pc[c]]
    /\ skipped' = skipped \cup {job[c] : c \in Busy(p)}
    /\ mu' = [mu EXCEPT ![p] = FALSE]
    /\ UNCHANGED <<job, at, file, clock, calls, spoiled>>

Init ==
    /\ pc = [c \in Callers |-> "idle"]
    /\ job = [c \in Callers |-> 0]
    /\ at = [c \in Callers |-> [week |-> 1, time |-> 0]]
    /\ mu = [p \in Processes |-> FALSE]
    /\ file = [w \in Weeks |-> <<>>]
    /\ week = 1
    /\ time = 0
    /\ calls = 0
    /\ crashes = 0
    /\ skipped = {}
    /\ spoiled = {}

LogStep(c) == Lock(c) \/ Open(c) \/ OpenFails(c) \/ WriteHeader(c) \/ WriteEntry(c)

Next ==
    \/ \E c \in Callers, t \in Topics : Call(c, t)
    \/ \E c \in Callers : LogStep(c)
    \/ \E p \in Processes : Crash(p)
    \/ Tick

Spec == Init /\ [][Next]_vars

\* A goroutine that can go on does; a Go mutex starves none that waits.
FairSpec == Spec /\ \A c \in Callers : SF_vars(LogStep(c))

-----------------------------------------------------------------------------
(* Safety.                                                                 *)

\* A file begins with its header, whichever processes share it and wherever
\* one is killed, unless writing a header failed (Log ignores that error).
HeaderFirst ==
    \A w \in Weeks : file[w] # <<>> /\ w \notin spoiled => file[w][1].kind = "header"

\* No process writes a second header into a file, not after a restart either;
\* so a file no two bridges share has one.
HeaderOnce ==
    \A w \in Weeks : \A i, j \in 1 .. Len(file[w]) :
        /\ file[w][i].kind = "header" /\ file[w][j].kind = "header"
        /\ file[w][i].by = file[w][j].by
        => i = j

\* What a process writes to a file stands there in the order of its times:
\* the clock is read under the lock (Log).
Chronological ==
    \A w \in Weeks : \A i, j \in 1 .. Len(file[w]) :
        i < j /\ file[w][i].by = file[w][j].by => file[w][i].time <= file[w][j].time

\* A call leaves exactly one entry, unless its topic is not logged, its
\* process is killed or the file system fails: no write undoes another.
IsEntryOf(block, n) == block.kind = "entry" /\ block.job = n

EntriesOf(n) ==
    UNION {{<<w, i>> : i \in {k \in 1 .. Len(file[w]) : IsEntryOf(file[w][k], n)}} :
              w \in Weeks}

Pending(n) == \E c \in Callers : job[c] = n /\ pc[c] # "idle"

EntryKept ==
    \A n \in 1 .. calls :
        Cardinality(EntriesOf(n)) = IF Pending(n) \/ n \in skipped THEN 0 ELSE 1

-----------------------------------------------------------------------------
(* Why HeaderFirst, HeaderOnce, Chronological and EntryKept hold.          *)

InLog(c) == pc[c] \in {"open", "header", "entry"}

\* At most one caller of a process is between Lock and Unlock.
Exclusive ==
    \A c \in Callers : InLog(c) =>
        /\ mu[ProcessOf[c]]
        /\ \A d \in Callers : InLog(d) /\ ProcessOf[d] = ProcessOf[c] => d = c

\* Who is about to write the header has not written one; who is about to
\* write an entry has seen the file with a header, or could not write it.
HeaderBeforeEntry ==
    \A c \in Callers :
        /\ pc[c] = "header" => \A i \in 1 .. Len(file[at[c].week]) :
               file[at[c].week][i].by # ProcessOf[c]
        /\ pc[c] = "entry" /\ at[c].week \notin spoiled => file[at[c].week] # <<>>

\* No block is newer than a time taken under the lock, or than now.
NotFromTheFuture ==
    /\ \A c \in Callers : at[c].time <= time
    /\ \A w \in Weeks : \A i \in 1 .. Len(file[w]) :
          /\ file[w][i].time <= time
          /\ \A c \in Callers : InLog(c) /\ file[w][i].by = ProcessOf[c]
                => file[w][i].time <= at[c].time

\* A number belongs to one call at most that is under way.
JobsAreOwn ==
    \A c \in Callers : pc[c] # "idle" =>
        /\ job[c] \in (1 .. calls) \ skipped
        /\ \A d \in Callers : pc[d] # "idle" /\ job[d] = job[c] => d = c

\* A number has no entry before its call, while the call is under way and when
\* it was skipped; otherwise it has one.
OneEntryEach ==
    /\ skipped \subseteq 1 .. calls
    /\ \A n \in 1 .. MaxCalls :
          IF n > calls \/ Pending(n) \/ n \in skipped THEN EntriesOf(n) = {}
                                                     ELSE \E e \in EntriesOf(n) : EntriesOf(n) = {e}

-----------------------------------------------------------------------------
(* Liveness.                                                               *)

\* Log returns from every one of its exits with the lock released, so that
\* neither the router nor a tool waits for ever.
LogReturns == \A c \in Callers : pc[c] # "idle" ~> pc[c] = "idle"
=============================================================================
