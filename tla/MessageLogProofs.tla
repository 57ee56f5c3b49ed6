--------------------------- MODULE MessageLogProofs ---------------------------
(***************************************************************************)
(* Proofs about MessageLog, for any number of processes, callers, calls,   *)
(* weeks and crashes.                                                      *)
(***************************************************************************)
EXTENDS MessageLog, FiniteSetTheorems, TLAPS

\* What writing a block does: it stands at the end of one file.
LEMMA WriteAppends ==
    ASSUME TypeOK, NEW w \in Weeks, NEW b \in Blocks, Write(w, b)
    PROVE  /\ file' \in [Weeks -> Seq(Blocks)]
           /\ Len(file'[w]) = Len(file[w]) + 1
           /\ file'[w][Len(file'[w])] = b
           /\ \A i \in 1 .. Len(file[w]) : file'[w][i] = file[w][i]
           /\ \A i \in 1 .. Len(file'[w]) :
                 i \in 1 .. Len(file[w]) \/ i = Len(file'[w])
           /\ \A v \in Weeks : v # w => file'[v] = file[v]
  BY DEF TypeOK, Write, Appended

\* What a caller with the lock appends is a block.
LEMMA BlockTypes ==
    ASSUME TypeOK, NEW c \in Callers
    PROVE  /\ at[c].week \in Weeks /\ at[c].time \in 0 .. MaxTime
           /\ ProcessOf[c] \in Processes
           /\ [kind |-> "header", by |-> ProcessOf[c], job |-> 0,
               time |-> at[c].time] \in Blocks
           /\ [kind |-> "entry", by |-> ProcessOf[c], job |-> job[c],
               time |-> at[c].time] \in Blocks
<1>1. at[c] \in Stamps /\ job[c] \in 0 .. MaxCalls /\ ProcessOf[c] \in Processes
  BY MessageLogAssumption DEF TypeOK
<1>2. at[c].week \in Weeks /\ at[c].time \in 0 .. MaxTime
  BY <1>1 DEF Stamps
<1>3. 0 \in 0 .. MaxCalls
  BY MessageLogAssumption
<1> QED
  BY <1>1, <1>2, <1>3 DEF Blocks

\* Every variable keeps its type; in particular every block is a header or an
\* entry with a time the clock has shown.
THEOREM LogTypes == Spec => []TypeOK
<1> USE MessageLogAssumption DEF clock
<1>0. MaxTime \in Nat /\ MaxCalls \in Nat /\ MaxCrashes \in Nat /\ MaxWeek \in Nat \ {0}
  OBVIOUS
<1>1. Init => TypeOK
  BY <1>0 DEF Init, TypeOK, Stamps, Weeks
<1>2. TypeOK /\ [Next]_vars => TypeOK'
  <2> SUFFICES ASSUME TypeOK, [Next]_vars
               PROVE  TypeOK'
    OBVIOUS
  <2>1. ASSUME NEW c \in Callers, NEW t \in Topics, Call(c, t)
        PROVE  TypeOK'
    <3>1. /\ calls + 1 \in 0 .. MaxCalls /\ calls' = calls + 1
          /\ UNCHANGED <<at, mu, file, clock, crashes, spoiled>>
      BY <1>0, <2>1 DEF Call, TypeOK
    <3>2. CASE Accepts(t)
      <4>1. /\ pc' = [pc EXCEPT ![c] = "lock"]
            /\ job' = [job EXCEPT ![c] = calls + 1]
            /\ skipped' = skipped
        BY <2>1, <3>2 DEF Call, Goto
      <4> QED
        BY <3>1, <4>1 DEF TypeOK
    <3>3. CASE ~Accepts(t)
      <4>1. skipped' = skipped \cup {calls + 1} /\ UNCHANGED <<pc, job>>
        BY <2>1, <3>3 DEF Call
      <4> QED
        BY <3>1, <4>1 DEF TypeOK
    <3> QED
      BY <3>2, <3>3
  <2>2. ASSUME NEW c \in Callers, Lock(c)
        PROVE  TypeOK'
    <3>1. Stamp \in Stamps
      BY DEF Stamp, Stamps, TypeOK
    <3>2. at' \in [Callers -> Stamps] /\ mu' \in [Processes -> BOOLEAN]
      BY <2>2, <3>1 DEF Lock, TypeOK
    <3> QED
      BY <2>2, <3>2 DEF Lock, Goto, TypeOK
  <2>3. ASSUME NEW c \in Callers, OpenFails(c)
        PROVE  TypeOK'
    BY <1>0, <2>3 DEF OpenFails, Goto, Unlock, TypeOK
  <2>4. ASSUME NEW c \in Callers, Open(c)
        PROVE  TypeOK'
    BY <2>4 DEF Open, Goto, TypeOK
  <2>5. ASSUME NEW c \in Callers, WriteHeader(c)
        PROVE  TypeOK'
    <3>1. file' \in [Weeks -> Seq(Blocks)] /\ spoiled' \subseteq Weeks
      BY <2>5, BlockTypes, WriteAppends DEF WriteHeader, TypeOK
    <3> QED
      BY <2>5, <3>1 DEF WriteHeader, Goto, TypeOK
  <2>6. ASSUME NEW c \in Callers, WriteEntry(c)
        PROVE  TypeOK'
    <3>1. file' \in [Weeks -> Seq(Blocks)]
      BY <2>6, BlockTypes, WriteAppends DEF WriteEntry, TypeOK
    <3> QED
      BY <1>0, <2>6, <3>1 DEF WriteEntry, Goto, Unlock, TypeOK
  <2>7. ASSUME NEW p \in Processes, Crash(p)
        PROVE  TypeOK'
    <3>1. skipped' \subseteq 0 .. MaxCalls
      BY <2>7 DEF Crash, Busy, TypeOK
    <3>2. crashes' \in 0 .. MaxCrashes
      BY <1>0, <2>7 DEF Crash, TypeOK
    <3>3. /\ pc' \in [Callers -> {"idle", "lock", "open", "header", "entry"}]
          /\ mu' \in [Processes -> BOOLEAN]
      BY <2>7 DEF Crash, TypeOK
    <3> QED
      BY <2>7, <3>1, <3>2, <3>3 DEF Crash, TypeOK
  <2>8. CASE Tick
    BY <1>0, <2>8 DEF Tick, TypeOK
  <2>9. CASE UNCHANGED vars
    BY <2>9 DEF vars, TypeOK
  <2> QED
    BY <2>1, <2>2, <2>3, <2>4, <2>5, <2>6, <2>7, <2>8, <2>9 DEF Next, LogStep
<1> QED
  BY <1>1, <1>2, PTL DEF Spec

-----------------------------------------------------------------------------
\* A step that leaves the lock, the places in Log and the times alone keeps
\* mutual exclusion.
LEMMA LockExcludes == Spec => []Exclusive
<1> USE MessageLogAssumption
<1>1. Init => Exclusive
  BY DEF Init, Exclusive, InLog
<1>2. TypeOK /\ Exclusive /\ [Next]_vars => Exclusive'
  <2> SUFFICES ASSUME TypeOK, Exclusive, [Next]_vars
               PROVE  Exclusive'
    OBVIOUS
  <2> USE DEF Exclusive, InLog, TypeOK
  <2>1. ASSUME NEW c \in Callers, NEW t \in Topics, Call(c, t)
        PROVE  Exclusive'
    BY <2>1 DEF Call, Goto
  <2>2. ASSUME NEW c \in Callers, Lock(c)
        PROVE  Exclusive'
    <3>1. \A d \in Callers : InLog(d) => ProcessOf[d] # ProcessOf[c]
      BY <2>2 DEF Lock, Free
    <3> QED
      BY <2>2, <3>1 DEF Lock, Goto
  <2>3. ASSUME NEW c \in Callers, OpenFails(c) \/ WriteEntry(c)
        PROVE  Exclusive'
    <3>1. /\ pc' = [pc EXCEPT ![c] = "idle"]
          /\ mu' = [mu EXCEPT ![ProcessOf[c]] = FALSE]
          /\ InLog(c)
      BY <2>3 DEF OpenFails, WriteEntry, Goto, Unlock
    <3> QED
      BY <3>1
  <2>4. ASSUME NEW c \in Callers, Open(c) \/ WriteHeader(c)
        PROVE  Exclusive'
    BY <2>4 DEF Open, WriteHeader, Goto
  <2>5. ASSUME NEW p \in Processes, Crash(p)
        PROVE  Exclusive'
    BY <2>5 DEF Crash, Busy
  <2>6. CASE UNCHANGED <<pc, mu>>
    BY <2>6
  <2> QED
    BY <2>1, <2>2, <2>3, <2>4, <2>5, <2>6 DEF Next, LogStep, Tick, vars
<1> QED
  BY <1>1, <1>2, LogTypes, PTL DEF Spec

\* Whichever processes share a file and wherever they are killed, it begins
\* with its header, and no process writes a second one.
HeaderInv == HeaderFirst /\ HeaderOnce /\ HeaderBeforeEntry

LEMMA HeadersStand == Spec => []HeaderInv
<1> USE MessageLogAssumption
<1>1. Init => HeaderInv
  BY DEF Init, HeaderInv, HeaderFirst, HeaderOnce, HeaderBeforeEntry
<1>2. TypeOK /\ Exclusive /\ HeaderInv /\ [Next]_vars => HeaderInv'
  <2> SUFFICES ASSUME TypeOK, Exclusive, HeaderInv, [Next]_vars
               PROVE  HeaderInv'
    OBVIOUS
  <2> USE DEF HeaderInv, HeaderFirst, HeaderOnce, HeaderBeforeEntry
  <2>1. ASSUME NEW c \in Callers, WriteHeader(c)
        PROVE  HeaderInv'
    <3> DEFINE w == at[c].week
               b == [kind |-> "header", by |-> ProcessOf[c], job |-> 0,
                     time |-> at[c].time]
    <3>1. /\ w \in Weeks /\ b \in Blocks /\ pc[c] = "header"
          /\ pc' = [pc EXCEPT ![c] = "entry"] /\ at' = at
      BY <2>1, BlockTypes DEF WriteHeader, Goto
    <3>2. ASSUME NEW d \in Callers, d # c, InLog(d)
          PROVE  ProcessOf[d] # ProcessOf[c]
      BY <3>1, <3>2 DEF Exclusive, InLog
    <3>3. CASE Write(w, b) /\ UNCHANGED spoiled
      <4>1. /\ Len(file'[w]) = Len(file[w]) + 1
            /\ file'[w][Len(file'[w])] = b
            /\ \A i \in 1 .. Len(file[w]) : file'[w][i] = file[w][i]
            /\ \A i \in 1 .. Len(file'[w]) :
                  i \in 1 .. Len(file[w]) \/ i = Len(file'[w])
            /\ \A v \in Weeks : v # w => file'[v] = file[v]
            /\ file' \in [Weeks -> Seq(Blocks)]
        BY SMTT(30), <3>1, <3>3, WriteAppends
      <4>2. file[w] \in Seq(Blocks) /\ file'[w] \in Seq(Blocks) /\ b.kind = "header"
            /\ b.by = ProcessOf[c]
        BY <3>1, <4>1 DEF TypeOK
      <4>3. \A i \in 1 .. Len(file[w]) : file[w][i].by # ProcessOf[c]
        BY <3>1
      <4> HIDE DEF w, b
      <4>4. ASSUME NEW v \in Weeks, file'[v] # <<>>, v \notin spoiled
            PROVE  file'[v][1].kind = "header"
        <5>1. CASE v = w /\ file[w] = <<>>
          BY <4>1, <4>2, <5>1
        <5>2. CASE v = w /\ file[w] # <<>>
          BY <4>1, <4>2, <4>4, <5>2
        <5>3. CASE v # w
          BY <4>1, <4>4, <5>3
        <5> QED
          BY <5>1, <5>2, <5>3
      <4>5. ASSUME NEW v \in Weeks,
                   NEW i \in 1 .. Len(file'[v]), NEW j \in 1 .. Len(file'[v]),
                   file'[v][i].kind = "header", file'[v][j].kind = "header",
                   file'[v][i].by = file'[v][j].by
            PROVE  i = j
        <5>1. CASE v = w
          <6>1. \A k \in 1 .. Len(file[w]) :
                   file'[w][k] = file[w][k] /\ file[w][k].by # ProcessOf[c]
            BY <4>1, <4>3
          <6>2. \A k \in 1 .. Len(file[w]), l \in 1 .. Len(file[w]) :
                   /\ file[w][k].kind = "header" /\ file[w][l].kind = "header"
                   /\ file[w][k].by = file[w][l].by
                   => k = l
            BY <3>1
          <6>3. /\ i \in 1 .. Len(file[w]) \/ i = Len(file'[w])
                /\ j \in 1 .. Len(file[w]) \/ j = Len(file'[w])
            BY <4>1, <5>1
          <6>4. /\ file'[w][i].kind = "header" /\ file'[w][j].kind = "header"
                /\ file'[w][i].by = file'[w][j].by
            BY <4>5, <5>1
          <6> HIDE DEF HeaderInv, HeaderFirst, HeaderOnce, HeaderBeforeEntry
          <6>5. CASE i \in 1 .. Len(file[w]) /\ j \in 1 .. Len(file[w])
            BY <6>1, <6>2, <6>4, <6>5
          <6>6. CASE i = Len(file'[w]) \/ j = Len(file'[w])
            BY <4>1, <4>2, <6>1, <6>3, <6>4, <6>6
          <6> QED
            BY <6>3, <6>5, <6>6
        <5>2. CASE v # w
          <6>1. file'[v] = file[v]
            BY <4>1, <5>2
          <6> QED
            BY <4>5, <6>1
        <5> QED
          BY <5>1, <5>2
      <4>6. ASSUME NEW d \in Callers, pc'[d] = "header"
            PROVE  \A i \in 1 .. Len(file'[at[d].week]) :
                      file'[at[d].week][i].by # ProcessOf[d]
        <5>1. d # c /\ pc[d] = "header" /\ ProcessOf[d] # ProcessOf[c]
          BY <3>1, <3>2, <4>6 DEF TypeOK, InLog
        <5>2. at[d].week \in Weeks
          BY BlockTypes
        <5>3. \A i \in 1 .. Len(file[at[d].week]) :
                 file[at[d].week][i].by # ProcessOf[d]
          BY <5>1
        <5>4. CASE at[d].week = w
          <6>1. ASSUME NEW i \in 1 .. Len(file'[w])
                PROVE  file'[w][i].by # ProcessOf[d]
            <7>1. i \in 1 .. Len(file[w]) \/ i = Len(file'[w])
              BY <4>1
            <7> QED
              BY <4>1, <4>2, <5>1, <5>3, <5>4, <7>1
          <6> QED
            BY <5>4, <6>1
        <5>5. CASE at[d].week # w
          BY <4>1, <5>2, <5>3, <5>5
        <5> QED
          BY <5>4, <5>5
      <4>7. ASSUME NEW d \in Callers, pc'[d] = "entry", at[d].week \notin spoiled
            PROVE  file'[at[d].week] # <<>>
        <5>1. at[d].week \in Weeks
          BY BlockTypes
        <5>2. CASE at[d].week = w
          BY <4>1, <4>2, <5>2
        <5>3. CASE at[d].week # w
          <6>1. d # c
            BY <5>3 DEF w
          <6>2. pc[d] = "entry"
            BY <3>1, <4>7, <6>1 DEF TypeOK
          <6> QED
            BY <4>1, <4>7, <5>1, <5>3, <6>2
        <5> QED
          BY <5>2, <5>3
      <4> QED
        BY <3>1, <3>3, <4>4, <4>5, <4>6, <4>7
    <3>4. CASE spoiled' = spoiled \cup {w} /\ UNCHANGED file
      BY <3>1, <3>4 DEF TypeOK
    <3> QED
      BY <2>1, <3>3, <3>4 DEF WriteHeader
  <2>2. ASSUME NEW c \in Callers, WriteEntry(c)
        PROVE  HeaderInv'
    <3> DEFINE w == at[c].week
               b == [kind |-> "entry", by |-> ProcessOf[c], job |-> job[c],
                     time |-> at[c].time]
    <3>1. /\ w \in Weeks /\ b \in Blocks /\ pc[c] = "entry"
          /\ pc' = [pc EXCEPT ![c] = "idle"] /\ at' = at /\ spoiled' = spoiled
      BY <2>2, BlockTypes DEF WriteEntry, Goto
    <3>2. ASSUME NEW d \in Callers, d # c, InLog(d)
          PROVE  ProcessOf[d] # ProcessOf[c]
      BY <3>1, <3>2 DEF Exclusive, InLog
    <3>3. CASE Write(w, b)
      <4>1. /\ Len(file'[w]) = Len(file[w]) + 1
            /\ file'[w][Len(file'[w])] = b
            /\ \A i \in 1 .. Len(file[w]) : file'[w][i] = file[w][i]
            /\ \A i \in 1 .. Len(file'[w]) :
                  i \in 1 .. Len(file[w]) \/ i = Len(file'[w])
            /\ \A v \in Weeks : v # w => file'[v] = file[v]
            /\ file' \in [Weeks -> Seq(Blocks)]
        BY SMTT(30), <3>1, <3>3, WriteAppends
      <4>2. file[w] \in Seq(Blocks) /\ file'[w] \in Seq(Blocks) /\ b.kind = "entry"
            /\ b.by = ProcessOf[c]
        BY <3>1, <4>1 DEF TypeOK
      <4>3. w \notin spoiled => file[w] # <<>>
        BY <3>1
      <4> HIDE DEF w, b
      <4>4. ASSUME NEW v \in Weeks, file'[v] # <<>>, v \notin spoiled
            PROVE  file'[v][1].kind = "header"
        <5>1. CASE v = w
          BY <4>1, <4>2, <4>3, <4>4, <5>1
        <5>2. CASE v # w
          BY <4>1, <4>4, <5>2
        <5> QED
          BY <5>1, <5>2
      <4>5. ASSUME NEW v \in Weeks,
                   NEW i \in 1 .. Len(file'[v]), NEW j \in 1 .. Len(file'[v]),
                   file'[v][i].kind = "header", file'[v][j].kind = "header",
                   file'[v][i].by = file'[v][j].by
            PROVE  i = j
        <5>1. CASE v = w
          <6>1. i \in 1 .. Len(file[w]) /\ j \in 1 .. Len(file[w])
            BY <4>1, <4>2, <4>5, <5>1
          <6>2. file'[w][i] = file[w][i] /\ file'[w][j] = file[w][j]
            BY <4>1, <6>1
          <6>3. w \in Weeks
            BY <3>1
          <6> QED
            BY <4>5, <5>1, <6>1, <6>2, <6>3
        <5>2. CASE v # w
          <6>1. file'[v] = file[v]
            BY <4>1, <5>2
          <6> QED
            BY <4>5, <6>1
        <5> QED
          BY <5>1, <5>2
      <4>6. ASSUME NEW d \in Callers, pc'[d] = "header"
            PROVE  \A i \in 1 .. Len(file'[at[d].week]) :
                      file'[at[d].week][i].by # ProcessOf[d]
        <5>1. d # c /\ pc[d] = "header" /\ ProcessOf[d] # ProcessOf[c]
          BY <3>1, <3>2, <4>6 DEF TypeOK, InLog
        <5>2. at[d].week \in Weeks
          BY BlockTypes
        <5>3. \A i \in 1 .. Len(file[at[d].week]) :
                 file[at[d].week][i].by # ProcessOf[d]
          BY <5>1
        <5>4. CASE at[d].week = w
          <6>1. ASSUME NEW i \in 1 .. Len(file'[w])
                PROVE  file'[w][i].by # ProcessOf[d]
            <7>1. i \in 1 .. Len(file[w]) \/ i = Len(file'[w])
              BY <4>1
            <7> QED
              BY <4>1, <4>2, <5>1, <5>3, <5>4, <7>1
          <6> QED
            BY <5>4, <6>1
        <5>5. CASE at[d].week # w
          BY <4>1, <5>2, <5>3, <5>5
        <5> QED
          BY <5>4, <5>5
      <4>7. ASSUME NEW d \in Callers, pc'[d] = "entry", at[d].week \notin spoiled
            PROVE  file'[at[d].week] # <<>>
        <5>1. at[d].week \in Weeks /\ pc[d] = "entry"
          BY <3>1, <4>7, BlockTypes DEF TypeOK
        <5> QED
          BY SMTT(30), <4>1, <4>2, <4>7, <5>1
      <4> QED
        BY <3>1, <4>4, <4>5, <4>6, <4>7
    <3>4. CASE UNCHANGED file
      BY <3>1, <3>4 DEF TypeOK
    <3> QED
      BY <2>2, <3>3, <3>4 DEF WriteEntry
  <2>3. ASSUME NEW c \in Callers, Open(c)
        PROVE  HeaderInv'
    <3>1. /\ pc' = [pc EXCEPT ![c] = IF file[at[c].week] = <<>> THEN "header" ELSE "entry"]
          /\ UNCHANGED <<file, at, spoiled>>
      BY <2>3 DEF Open, Goto, IsNew
    <3> QED
      BY SMTT(30), <3>1 DEF TypeOK
  <2>4. ASSUME NEW c \in Callers, Lock(c)
        PROVE  HeaderInv'
    BY <2>4 DEF Lock, Goto, TypeOK
  <2>5. ASSUME NEW c \in Callers, NEW t \in Topics, Call(c, t)
        PROVE  HeaderInv'
    BY ZenonT(30), <2>5 DEF Call, Goto, TypeOK
  <2>6. ASSUME NEW c \in Callers, OpenFails(c)
        PROVE  HeaderInv'
    BY ZenonT(30), <2>6 DEF OpenFails, Goto, TypeOK
  <2>7. ASSUME NEW p \in Processes, Crash(p)
        PROVE  HeaderInv'
    BY <2>7 DEF Crash, TypeOK
  <2>8. CASE UNCHANGED <<pc, at, file, spoiled>>
    BY <2>8
  <2> QED
    BY <2>1, <2>2, <2>3, <2>4, <2>5, <2>6, <2>7, <2>8 DEF Next, LogStep, Tick, vars
<1> QED
  BY <1>1, <1>2, LogTypes, LockExcludes, PTL DEF Spec

\* Wherever processes are killed and whoever shares a file, it begins with its
\* header, unless writing a header failed.
THEOREM FilesBeginWithHeader == Spec => []HeaderFirst
  BY HeadersStand, PTL DEF HeaderInv

\* No process writes two headers into one file.
THEOREM OneHeaderPerProcess == Spec => []HeaderOnce
  BY HeadersStand, PTL DEF HeaderInv

-----------------------------------------------------------------------------
\* What a process writes stands in the order of its times, because it takes
\* them under its lock.
TimeInv == NotFromTheFuture /\ Chronological

\* A block that bears the time its caller took under the lock keeps the order.
LEMMA WriteKeepsTime ==
    ASSUME TypeOK, Exclusive, TimeInv, NEW c \in Callers, InLog(c),
           NEW b \in Blocks, b.by = ProcessOf[c], b.time = at[c].time,
           Write(at[c].week, b), UNCHANGED <<at, time>>,
           \A d \in Callers : InLog(d)' => InLog(d)
    PROVE  TimeInv'
<1> DEFINE w == at[c].week
<1>1. w \in Weeks
  BY BlockTypes
<1>2. /\ Len(file'[w]) = Len(file[w]) + 1
      /\ file'[w][Len(file'[w])] = b
      /\ \A i \in 1 .. Len(file[w]) : file'[w][i] = file[w][i]
      /\ \A i \in 1 .. Len(file'[w]) :
            i \in 1 .. Len(file[w]) \/ i = Len(file'[w])
      /\ \A v \in Weeks : v # w => file'[v] = file[v]
  BY <1>1, WriteAppends
<1>3. Len(file[w]) \in Nat
  BY <1>1 DEF TypeOK
<1>4. b.time <= time /\ b.time \in Nat /\ time \in Nat
  <2>1. MaxTime \in Nat /\ time \in 0 .. MaxTime /\ b.time \in 0 .. MaxTime
    BY MessageLogAssumption DEF TypeOK, Blocks
  <2>2. at[c].time <= time
    BY DEF TimeInv, NotFromTheFuture
  <2> QED
    BY <2>1, <2>2
<1>5. \A i \in 1 .. Len(file[w]) : file[w][i].by = b.by => file[w][i].time <= b.time
  BY <1>1 DEF TimeInv, NotFromTheFuture
<1>6. ASSUME NEW d \in Callers, InLog(d), ProcessOf[d] = b.by
      PROVE  d = c
  BY <1>6 DEF Exclusive
<1> HIDE DEF w
<1>7. ASSUME NEW v \in Weeks, NEW i \in 1 .. Len(file'[v])
      PROVE  /\ file'[v][i].time <= time
             /\ \A d \in Callers : InLog(d) /\ file'[v][i].by = ProcessOf[d]
                   => file'[v][i].time <= at[d].time
  <2>1. CASE v = w /\ i = Len(file'[w])
    BY <1>2, <1>3, <1>4, <1>6, <2>1
  <2>2. CASE v = w /\ i \in 1 .. Len(file[w])
    <3>1. file'[v][i] = file[v][i] /\ i \in 1 .. Len(file[v])
      BY <1>2, <2>2
    <3> QED
      BY <3>1 DEF TimeInv, NotFromTheFuture
  <2>3. CASE v # w
    <3>1. file'[v] = file[v]
      BY <1>2, <2>3
    <3> QED
      BY <1>7, <3>1 DEF TimeInv, NotFromTheFuture
  <2> QED
    BY <1>2, <1>7, <2>1, <2>2, <2>3
<1>8. ASSUME NEW v \in Weeks, NEW i \in 1 .. Len(file'[v]), NEW j \in 1 .. Len(file'[v]),
             i < j, file'[v][i].by = file'[v][j].by
      PROVE  file'[v][i].time <= file'[v][j].time
  <2>1. CASE v = w /\ j = Len(file'[w])
    <3>1. i \in 1 .. Len(file[w])
      BY <1>2, <1>3, <1>8, <2>1
    <3> QED
      BY <1>2, <1>5, <1>8, <2>1, <3>1
  <2>2. CASE v = w /\ j \in 1 .. Len(file[w])
    <3>1. /\ i \in 1 .. Len(file[v]) /\ j \in 1 .. Len(file[v])
          /\ file'[v][i] = file[v][i] /\ file'[v][j] = file[v][j]
      BY <1>2, <1>8, <2>2
    <3> QED
      BY <1>8, <3>1 DEF TimeInv, Chronological
  <2>3. CASE v # w
    <3>1. file'[v] = file[v]
      BY <1>2, <2>3
    <3> QED
      BY <1>8, <3>1 DEF TimeInv, Chronological
  <2> QED
    BY <1>2, <1>8, <2>1, <2>2, <2>3
<1>9. \A d \in Callers : at'[d].time <= time'
  BY DEF TimeInv, NotFromTheFuture
<1> QED
  BY <1>7, <1>8, <1>9 DEF TimeInv, NotFromTheFuture, Chronological

THEOREM TimesAreOrdered == Spec => []Chronological
<1> USE MessageLogAssumption
<1>1. Init => TimeInv
  BY DEF Init, TimeInv, NotFromTheFuture, Chronological
<1>2. TypeOK /\ Exclusive /\ TimeInv /\ [Next]_vars => TimeInv'
  <2> SUFFICES ASSUME TypeOK, Exclusive, TimeInv, [Next]_vars
               PROVE  TimeInv'
    OBVIOUS
  <2>1. ASSUME NEW c \in Callers, WriteHeader(c)
        PROVE  TimeInv'
    <3>1. /\ InLog(c) /\ UNCHANGED <<at, time>>
          /\ \A d \in Callers : InLog(d)' => InLog(d)
      BY <2>1 DEF WriteHeader, Goto, InLog, TypeOK, clock
    <3>2. CASE UNCHANGED file
      BY <3>1, <3>2 DEF TimeInv, NotFromTheFuture, Chronological
    <3>3. CASE ~UNCHANGED file
      BY <2>1, <3>1, <3>3, BlockTypes, WriteKeepsTime DEF WriteHeader
    <3> QED
      BY <3>2, <3>3
  <2>2. ASSUME NEW c \in Callers, WriteEntry(c)
        PROVE  TimeInv'
    <3>1. /\ InLog(c) /\ UNCHANGED <<at, time>>
          /\ \A d \in Callers : InLog(d)' => InLog(d)
      BY <2>2 DEF WriteEntry, Goto, InLog, TypeOK, clock
    <3>2. CASE UNCHANGED file
      BY <3>1, <3>2 DEF TimeInv, NotFromTheFuture, Chronological
    <3>3. CASE ~UNCHANGED file
      BY <2>2, <3>1, <3>3, BlockTypes, WriteKeepsTime DEF WriteEntry
    <3> QED
      BY <3>2, <3>3
  <2>3. ASSUME NEW c \in Callers, Lock(c)
        PROVE  TimeInv'
    <3>1. /\ at' = [at EXCEPT ![c] = [week |-> week, time |-> time]]
          /\ pc' = [pc EXCEPT ![c] = "open"]
          /\ UNCHANGED <<file, time>> /\ time \in Nat
      BY <2>3 DEF Lock, Goto, Stamp, TypeOK, clock
    <3>2. \A d \in Callers : at'[d].time <= time
      BY <3>1 DEF TimeInv, NotFromTheFuture, TypeOK
    <3>3. \A d \in Callers : InLog(d)' => d = c \/ InLog(d)
      BY <3>1 DEF InLog, TypeOK
    <3>4. \A d \in Callers : at'[d] = IF d = c THEN [week |-> week, time |-> time] ELSE at[d]
      BY <3>1 DEF TypeOK
    <3> QED
      BY <3>1, <3>2, <3>3, <3>4 DEF TimeInv, NotFromTheFuture, Chronological
  <2>4. ASSUME NEW c \in Callers, NEW t \in Topics, Call(c, t)
        PROVE  TimeInv'
    <3>1. UNCHANGED <<at, file, time>>
      BY <2>4 DEF Call, clock
    <3>2. ASSUME NEW d \in Callers, InLog(d)'
          PROVE  InLog(d)
      BY <2>4, <3>2 DEF Call, Goto, InLog, TypeOK
    <3> QED
      BY <3>1, <3>2 DEF TimeInv, NotFromTheFuture, Chronological
  <2>5. ASSUME NEW c \in Callers, Open(c) \/ OpenFails(c)
        PROVE  TimeInv'
    <3>1. UNCHANGED <<at, file, time>>
      BY <2>5 DEF Open, OpenFails, clock
    <3>2. ASSUME NEW d \in Callers, InLog(d)'
          PROVE  InLog(d)
      BY <2>5, <3>2 DEF Open, OpenFails, Goto, InLog, TypeOK
    <3> QED
      BY <3>1, <3>2 DEF TimeInv, NotFromTheFuture, Chronological
  <2>6. ASSUME NEW p \in Processes, Crash(p)
        PROVE  TimeInv'
    BY <2>6 DEF Crash, Busy, TypeOK, InLog, clock, TimeInv, NotFromTheFuture, Chronological
  <2>7. CASE Tick
    <3>0. MaxTime \in Nat
      OBVIOUS
    <3>1. time' = time + 1 /\ time \in Nat /\ UNCHANGED <<pc, at, file>>
      BY <2>7, <3>0 DEF Tick, TypeOK
    <3>2. \A c \in Callers : at[c].time \in Nat
      <4>1. \A n \in 0 .. MaxTime : n \in Nat
        BY <3>0
      <4> QED
        BY <4>1, BlockTypes
    <3>3. \A w \in Weeks : \A i \in 1 .. Len(file[w]) : file[w][i].time \in Nat
      <4>1. \A b \in Blocks : b.time \in Nat
        BY <3>0 DEF Blocks
      <4>2. \A w \in Weeks : \A i \in 1 .. Len(file[w]) : file[w][i] \in Blocks
        BY DEF TypeOK
      <4> QED
        BY <4>1, <4>2
    <3>4. NotFromTheFuture'
      BY <3>1, <3>2, <3>3 DEF InLog, TimeInv, NotFromTheFuture
    <3>5. Chronological'
      BY <3>1 DEF TimeInv, Chronological
    <3> QED
      BY <3>4, <3>5 DEF TimeInv
  <2>8. CASE UNCHANGED vars
    BY <2>8 DEF vars, InLog, TimeInv, NotFromTheFuture, Chronological
  <2> QED
    BY <2>1, <2>2, <2>3, <2>4, <2>5, <2>6, <2>7, <2>8 DEF Next, LogStep
<1>3. TimeInv => Chronological
  BY DEF TimeInv
<1> QED
  BY <1>1, <1>2, <1>3, LogTypes, LockExcludes, PTL DEF Spec

-----------------------------------------------------------------------------
\* Where the entries of a call are.
LEMMA EntriesAre ==
    ASSUME NEW n, NEW e
    PROVE  e \in EntriesOf(n) <=>
              \E w \in Weeks : \E i \in 1 .. Len(file[w]) :
                  e = <<w, i>> /\ IsEntryOf(file[w][i], n)
  BY DEF EntriesOf

\* A written block adds one entry to the call it is for, if to any.
LEMMA WriteAddsEntry ==
    ASSUME TypeOK, NEW w \in Weeks, NEW b \in Blocks, Write(w, b), NEW n
    PROVE  /\ IsEntryOf(b, n) => \E e : EntriesOf(n)' = EntriesOf(n) \cup {e}
           /\ ~IsEntryOf(b, n) => EntriesOf(n)' = EntriesOf(n)
<1> DEFINE new == <<w, Len(file'[w])>>
<1>1. Len(file[w]) \in Nat /\ Len(file'[w]) = Len(file[w]) + 1
  BY WriteAppends DEF TypeOK
<1>2. ASSUME NEW e, e \in EntriesOf(n)
      PROVE  e \in EntriesOf(n)'
  <2>0. PICK v \in Weeks : \E i \in 1 .. Len(file[v]) :
             e = <<v, i>> /\ IsEntryOf(file[v][i], n)
    BY <1>2, EntriesAre
  <2>1. PICK i \in 1 .. Len(file[v]) : e = <<v, i>> /\ IsEntryOf(file[v][i], n)
    BY <2>0
  <2>2. i \in 1 .. Len(file'[v]) /\ file'[v][i] = file[v][i]
    BY SMTT(30), <1>1, <2>1, WriteAppends
  <2> QED
    BY <2>1, <2>2 DEF EntriesOf, IsEntryOf
<1>3. ASSUME NEW e, e \in EntriesOf(n)'
      PROVE  e \in EntriesOf(n) \/ (e = new /\ IsEntryOf(b, n))
  <2>0. PICK v \in Weeks : \E i \in 1 .. Len(file'[v]) :
             e = <<v, i>> /\ IsEntryOf(file'[v][i], n)
    BY <1>3 DEF EntriesOf, IsEntryOf
  <2>1. PICK i \in 1 .. Len(file'[v]) : e = <<v, i>> /\ IsEntryOf(file'[v][i], n)
    BY <2>0
  <2>2. CASE v = w /\ i = Len(file'[w])
    BY <2>1, <2>2, WriteAppends
  <2>3. CASE ~(v = w /\ i = Len(file'[w]))
    <3>1. i \in 1 .. Len(file[v]) /\ file'[v][i] = file[v][i]
      BY <2>1, <2>3, WriteAppends
    <3> QED
      BY <2>1, <3>1, EntriesAre
  <2> QED
    BY <2>2, <2>3
<1>4. IsEntryOf(b, n) => new \in EntriesOf(n)'
  <2>1. Len(file'[w]) \in 1 .. Len(file'[w]) /\ file'[w][Len(file'[w])] = b
    BY <1>1, WriteAppends
  <2> QED
    BY <2>1 DEF EntriesOf, IsEntryOf
<1>5. CASE IsEntryOf(b, n)
  <2>1. EntriesOf(n)' = EntriesOf(n) \cup {new}
    BY <1>2, <1>3, <1>4, <1>5
  <2> QED
    BY <1>5, <2>1
<1>6. CASE ~IsEntryOf(b, n)
  BY <1>2, <1>3, <1>6
<1> QED
  BY <1>5, <1>6
\* A step that begins no call, ends none and writes no entry keeps the count.
LEMMA QuietStepsKeepEntries ==
    ASSUME TypeOK, JobsAreOwn, OneEntryEach, UNCHANGED <<job, calls, skipped>>,
           \A c \in Callers : pc'[c] = "idle" <=> pc[c] = "idle",
           \A n \in 1 .. MaxCalls : EntriesOf(n)' = EntriesOf(n)
    PROVE  JobsAreOwn' /\ OneEntryEach'
<1>1. JobsAreOwn'
  BY DEF JobsAreOwn
<1>2. \A n : Pending(n)' <=> Pending(n)
  BY DEF Pending
<1> QED
  BY <1>1, <1>2 DEF OneEntryEach

\* Calls that end without an entry are skipped.
LEMMA EndedCallsAreSkipped ==
    ASSUME TypeOK, JobsAreOwn, OneEntryEach, UNCHANGED <<job, calls>>,
           NEW C \in SUBSET Callers, \A c \in C : pc[c] # "idle",
           \A c \in Callers : pc'[c] = IF c \in C THEN "idle" ELSE pc[c],
           skipped' = skipped \cup {job[c] : c \in C},
           \A n \in 1 .. MaxCalls : EntriesOf(n)' = EntriesOf(n)
    PROVE  JobsAreOwn' /\ OneEntryEach'
<1>1. \A c \in Callers : pc'[c] # "idle" => c \notin C /\ pc[c] # "idle"
  OBVIOUS
<1>2. \A c \in Callers, d \in C : pc'[c] # "idle" => job[c] # job[d]
  BY <1>1 DEF JobsAreOwn
<1>3. JobsAreOwn'
  BY <1>1, <1>2 DEF JobsAreOwn
<1>4. \A n : Pending(n) \/ n \in skipped <=> Pending(n)' \/ n \in skipped'
  BY <1>1 DEF Pending
<1>5. skipped' \subseteq 1 .. calls'
  BY DEF JobsAreOwn, OneEntryEach
<1> QED
  BY <1>3, <1>4, <1>5 DEF OneEntryEach

\* A number is given to one call, and only the end of that call decides whether
\* it has an entry or is skipped.
LEMMA EntriesAreCounted == Spec => [](JobsAreOwn /\ OneEntryEach)
<1> USE MessageLogAssumption
<1>0. MaxCalls \in Nat
  OBVIOUS
<1>1. Init => JobsAreOwn /\ OneEntryEach
  <2> SUFFICES ASSUME Init
               PROVE  JobsAreOwn /\ OneEntryEach
    OBVIOUS
  <2>1. \A n : EntriesOf(n) = {}
    BY EntriesAre DEF Init
  <2> QED
    BY <1>0, <2>1 DEF Init, JobsAreOwn, OneEntryEach
<1>2. TypeOK /\ JobsAreOwn /\ OneEntryEach /\ [Next]_vars => JobsAreOwn' /\ OneEntryEach'
  <2> SUFFICES ASSUME TypeOK, JobsAreOwn, OneEntryEach, [Next]_vars
               PROVE  JobsAreOwn' /\ OneEntryEach'
    OBVIOUS
  <2>0. calls \in 0 .. MaxCalls
    BY DEF TypeOK
  <2>1. UNCHANGED file => \A n : EntriesOf(n)' = EntriesOf(n)
    BY DEF EntriesOf, IsEntryOf
  <2>2. ASSUME NEW c \in Callers, NEW t \in Topics, Call(c, t)
        PROVE  JobsAreOwn' /\ OneEntryEach'
    <3>1. /\ pc[c] = "idle" /\ calls < MaxCalls /\ calls' = calls + 1
          /\ UNCHANGED file
      BY <2>2 DEF Call
    <3>2. CASE Accepts(t)
      <4>1. /\ pc' = [pc EXCEPT ![c] = "lock"]
            /\ job' = [job EXCEPT ![c] = calls + 1]
            /\ skipped' = skipped
        BY <2>2, <3>2 DEF Call, Goto
      <4>2. JobsAreOwn'
        BY <2>0, <3>1, <4>1 DEF JobsAreOwn, OneEntryEach, TypeOK
      <4>3. \A n : Pending(n)' <=> Pending(n) \/ n = calls + 1
        BY <3>1, <4>1 DEF Pending, TypeOK
      <4> QED
        BY <2>0, <2>1, <3>1, <4>1, <4>2, <4>3 DEF OneEntryEach
    <3>3. CASE ~Accepts(t)
      <4>1. skipped' = skipped \cup {calls + 1} /\ UNCHANGED <<pc, job>>
        BY <2>2, <3>3 DEF Call
      <4>2. JobsAreOwn'
        BY <2>0, <3>1, <4>1 DEF JobsAreOwn
      <4>3. \A n : Pending(n)' <=> Pending(n)
        BY <4>1 DEF Pending
      <4> QED
        BY <2>0, <2>1, <3>1, <4>1, <4>2, <4>3 DEF OneEntryEach
    <3> QED
      BY <3>2, <3>3
  <2>3. ASSUME NEW c \in Callers, Lock(c) \/ Open(c) \/ WriteHeader(c)
        PROVE  JobsAreOwn' /\ OneEntryEach'
    <3>1. /\ UNCHANGED <<job, calls, skipped>>
          /\ \E place \in {"open", "header", "entry"} : pc' = [pc EXCEPT ![c] = place]
          /\ pc[c] # "idle"
      BY <2>3 DEF Lock, Open, WriteHeader, Goto
    <3>2. \A d \in Callers : pc'[d] = "idle" <=> pc[d] = "idle"
      BY <3>1 DEF TypeOK
    <3>3. CASE UNCHANGED file
      BY <2>1, <3>1, <3>2, <3>3, QuietStepsKeepEntries
    <3>4. CASE file' # file
      <4> DEFINE b == [kind |-> "header", by |-> ProcessOf[c], job |-> 0,
                       time |-> at[c].time]
      <4>1. Write(at[c].week, b)
        BY <2>3, <3>4 DEF Lock, Open, WriteHeader
      <4>2. b \in Blocks /\ at[c].week \in Weeks
        BY BlockTypes
      <4>3. \A n : ~IsEntryOf(b, n)
        BY DEF IsEntryOf
      <4> HIDE DEF b
      <4>4. \A n : EntriesOf(n)' = EntriesOf(n)
        BY <4>1, <4>2, <4>3, WriteAddsEntry
      <4> QED
        BY <3>1, <3>2, <4>4, QuietStepsKeepEntries
    <3> QED
      BY <3>3, <3>4
  <2>4. ASSUME NEW c \in Callers, OpenFails(c) \/ WriteEntry(c),
               skipped' = skipped \cup {job[c]}
        PROVE  JobsAreOwn' /\ OneEntryEach'
    <3>1. pc[c] # "idle" /\ job[c] \notin skipped
      BY <2>4 DEF OpenFails, WriteEntry, JobsAreOwn
    <3>2. /\ UNCHANGED <<job, calls, file>>
          /\ pc' = [pc EXCEPT ![c] = "idle"]
      BY <2>4, <3>1 DEF OpenFails, WriteEntry, Goto
    <3>3. \A d \in Callers : pc'[d] = IF d \in {c} THEN "idle" ELSE pc[d]
      BY <3>2 DEF TypeOK
    <3>4. skipped' = skipped \cup {job[d] : d \in {c}}
      BY <2>4
    <3> QED
      BY <2>1, <3>1, <3>2, <3>3, <3>4, EndedCallsAreSkipped
  <2>5. ASSUME NEW c \in Callers, WriteEntry(c), skipped' # skipped \cup {job[c]}
        PROVE  JobsAreOwn' /\ OneEntryEach'
    <3> DEFINE b == [kind |-> "entry", by |-> ProcessOf[c], job |-> job[c],
                     time |-> at[c].time]
    <3>1. /\ UNCHANGED <<job, calls, skipped>>
          /\ pc' = [pc EXCEPT ![c] = "idle"]
          /\ pc[c] # "idle"
          /\ Write(at[c].week, b)
      BY <2>5 DEF WriteEntry, Goto
    <3>2. b \in Blocks /\ at[c].week \in Weeks
      BY BlockTypes
    <3>3. \A n : IsEntryOf(b, n) <=> n = job[c]
      BY DEF IsEntryOf
    <3> HIDE DEF b
    <3>4. /\ \A n : n # job[c] => EntriesOf(n)' = EntriesOf(n)
          /\ \E e : EntriesOf(job[c])' = EntriesOf(job[c]) \cup {e}
      BY <3>1, <3>2, <3>3, WriteAddsEntry
    <3>5. job[c] \in (1 .. calls) \ skipped /\ Pending(job[c])
      BY <3>1 DEF JobsAreOwn, Pending
    <3>6. \A d \in Callers : pc'[d] # "idle" => d # c /\ pc[d] # "idle" /\ job[d] # job[c]
      BY <3>1 DEF TypeOK, JobsAreOwn
    <3>7. JobsAreOwn'
      BY <3>1, <3>6 DEF JobsAreOwn
    <3>8. \A n : Pending(n)' <=> Pending(n) /\ n # job[c]
      BY <3>1, <3>6 DEF Pending, TypeOK
    <3>9. \E e \in EntriesOf(job[c])' : EntriesOf(job[c])' = {e}
      BY <2>0, <3>4, <3>5 DEF OneEntryEach
    <3> QED
      BY <2>0, <3>1, <3>4, <3>5, <3>7, <3>8, <3>9 DEF OneEntryEach
  <2>6. ASSUME NEW p \in Processes, Crash(p)
        PROVE  JobsAreOwn' /\ OneEntryEach'
    <3>1. /\ UNCHANGED <<job, calls, file>>
          /\ Busy(p) \subseteq Callers /\ \A c \in Busy(p) : pc[c] # "idle"
          /\ \A c \in Callers : pc'[c] = IF c \in Busy(p) THEN "idle" ELSE pc[c]
          /\ skipped' = skipped \cup {job[c] : c \in Busy(p)}
      BY <2>6 DEF Crash, Busy
    <3> QED
      BY <2>1, <3>1, EndedCallsAreSkipped
  <2>7. CASE Tick \/ UNCHANGED vars
    <3>1. UNCHANGED <<pc, job, calls, skipped, file>>
      BY <2>7 DEF Tick, vars
    <3> QED
      BY <2>1, <3>1, QuietStepsKeepEntries
  <2> QED
    BY <2>2, <2>3, <2>4, <2>5, <2>6, <2>7 DEF Next, LogStep, OpenFails
<1> QED
  BY <1>1, <1>2, LogTypes, PTL DEF Spec

\* No write undoes another and none is doubled: a call that is over and was not
\* skipped has left exactly one entry, in whatever file.
THEOREM EveryCallIsLogged == Spec => []EntryKept
<1> USE MessageLogAssumption
<1>1. TypeOK /\ OneEntryEach => EntryKept
  <2> SUFFICES ASSUME TypeOK, OneEntryEach, NEW n \in 1 .. calls
               PROVE  Cardinality(EntriesOf(n)) =
                         IF Pending(n) \/ n \in skipped THEN 0 ELSE 1
    BY DEF EntryKept
  <2>1. n \in 1 .. MaxCalls /\ ~(n > calls)
    BY DEF TypeOK
  <2>2. CASE Pending(n) \/ n \in skipped
    BY <2>1, <2>2, FS_EmptySet DEF OneEntryEach
  <2>3. CASE ~(Pending(n) \/ n \in skipped)
    <3>1. PICK e : EntriesOf(n) = {e}
      BY <2>1, <2>3 DEF OneEntryEach
    <3> QED
      BY <2>3, <3>1, FS_Singleton
  <2> QED
    BY <2>2, <2>3
<1> QED
  BY <1>1, LogTypes, EntriesAreCounted, PTL
=============================================================================
