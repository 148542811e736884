----------------------------- MODULE HostProofs -----------------------------
(***************************************************************************)
(* The lock, the schema and the watermark hold for every set of processes  *)
(* and whatever they are started with, for every window, number of         *)
(* publications, days and faults.                                          *)
(*                                                                         *)
(* The watermark is the one that needs an argument.  A run that is about   *)
(* to move it knows what the merged sweep observed, because the sweep      *)
(* listed the days that were over before it read the clock, and what the   *)
(* alarm has said, because nobody else can move the watermark meanwhile.   *)
(***************************************************************************)
EXTENDS HostProperties, TLAPS

Sweeping == {"watch", "ask", "merge", "alarm", "mark"}

WindowFirst(p) == First(mem[p].today, Width(mem[p].job))

\* What a process knows by itself: its day, and what it has heard of the days before it.
Private(p) ==
    /\ mem[p].today <= day
    /\ pc[p] = "look" => mem[p].job = "status"
    /\ pc[p] \in Sweeping => mem[p].job \in Runs
    /\ pc[p] = "ask" =>
           /\ WindowFirst(p) <= mem[p].next /\ mem[p].next <= mem[p].today
           /\ \A d \in Dates : mem[p].next < d /\ d < mem[p].today => mem[p].heard[d] = Volume
    /\ pc[p] = "merge" =>
           \A d \in Dates : WindowFirst(p) <= d /\ d < mem[p].today => mem[p].heard[d] = Volume

\* What it has put on record.
Merged(p) ==
    pc[p] \in {"alarm", "mark"} =>
        \A d \in Dates : WindowFirst(p) <= d /\ d < mem[p].today => seen[d] = Volume

Alarmed(p) ==
    pc[p] = "mark" /\ watermark # Never =>
        \A d \in Dates : watermark <= d /\ d < RetentionFirst(p) => d \in reported

\* How far it is with the schema.
Migrated(p) ==
    /\ pc[p] = "version" => schema # NoManifest /\ mem[p].from <= schema
    /\ pc[p] \in Working \ {"open", "version"} => schema # NoManifest /\ schema >= mem[p].build

IInv ==
    /\ TypeOK
    /\ OneAtATime
    /\ \A p \in Procs : Private(p)
    /\ \A p \in Procs : Merged(p) /\ Alarmed(p)
    /\ WatermarkIsTrue
    /\ \A p \in Procs : Migrated(p)

-----------------------------------------------------------------------------
(* The windows.                                                            *)

\* A window of either profile begins on a date, and within the retention window.
LEMMA WindowsNest ==
    ASSUME NEW t \in Retention .. LastDay, NEW job
    PROVE  /\ First(t, Width(job)) \in Dates /\ First(t, Width(job)) <= t
           /\ First(t, Retention) \in Dates /\ First(t, Retention) <= t
           /\ First(t, Retention) <= First(t, Width(job))
<1> USE HostAssumption DEF HostAssumption
<1>1. Width(job) \in Nat \ {0} /\ Width(job) <= Retention
  <2> HIDE DEF Monitor, Discovery
  <2> QED BY DEF Width
<1> HIDE DEF Width
<1>2. QED
  BY <1>1 DEF First, Dates

\* The windows of a process, in the terms the steps use.
LEMMA OwnWindows ==
    ASSUME TypeOK, NEW p \in Procs
    PROVE  /\ mem[p].today \in Dates /\ mem[p].today \in Retention .. LastDay
           /\ mem[p].job \in Commands /\ mem[p].build \in 1 .. Newest
           /\ mem[p].from \in 0 .. Newest /\ mem[p].next \in 0 .. LastDay
           /\ mem[p].heard \in [Dates -> 0 .. Volume]
           /\ WindowFirst(p) \in Dates /\ WindowFirst(p) <= mem[p].today
           /\ RetentionFirst(p) \in Dates /\ RetentionFirst(p) <= mem[p].today
           /\ RetentionFirst(p) <= WindowFirst(p)
<1>1. /\ mem[p].today \in Retention .. LastDay
      /\ mem[p].job \in Commands /\ mem[p].build \in 1 .. Newest
      /\ mem[p].from \in 0 .. Newest /\ mem[p].next \in 0 .. LastDay
      /\ mem[p].heard \in [Dates -> 0 .. Volume]
  BY DEF TypeOK, Memory
<1>2. mem[p].today \in Dates
  BY <1>1, HostAssumption DEF HostAssumption, Dates
<1> DEFINE t == mem[p].today
           job == mem[p].job
<1>3. t \in Retention .. LastDay
  BY <1>1
<1> HIDE DEF t, job
<1>4. /\ First(t, Width(job)) \in Dates /\ First(t, Width(job)) <= t
      /\ First(t, Retention) \in Dates /\ First(t, Retention) <= t
      /\ First(t, Retention) <= First(t, Width(job))
  BY <1>3, WindowsNest
<1>5. QED
  BY <1>1, <1>2, <1>4 DEF WindowFirst, RetentionFirst, t, job

-----------------------------------------------------------------------------
(* Types.                                                                  *)

LEMMA InitEstablishes == Init => IInv
<1> SUFFICES ASSUME Init PROVE IInv
  OBVIOUS
<1> USE HostAssumption DEF HostAssumption
<1>1. TypeOK
  BY DEF Init, TypeOK, Memory, Resting, Unheard, Dates, Never, NoManifest, Commands, Working
<1>2. QED
  BY <1>1 DEF Init, IInv, OneAtATime, Private, Merged, Alarmed, WatermarkIsTrue, Migrated, Working,
              Sweeping, Resting, Never

\* Leaving puts back what a process starts with.
LEMMA LeaveKeepsTypes ==
    ASSUME TypeOK, NEW p \in Procs, Leave(p)
    PROVE  /\ holder' \in Procs \union {Nobody}
           /\ pc' \in [Procs -> {"idle", "lock", "look"} \union Working]
           /\ mem' \in [Procs -> Memory]
BY HostAssumption DEF HostAssumption, TypeOK, Memory, Leave, Go, Resting, Unheard, Commands

LEMMA ProceedKeepsTypes ==
    ASSUME IInv, NEW p \in Procs, Started(p) \/ Proceed(p) \/ Broken(p)
    PROVE  TypeOK'
<1> USE HostAssumption DEF HostAssumption, TypeOK, IInv, Sound, Fault, world, archive, Go, Working
<1>0. /\ mem[p].today \in Retention .. LastDay /\ mem[p].next \in 0 .. LastDay
      /\ mem[p].from \in 0 .. Newest /\ mem[p].build \in 1 .. Newest
      /\ mem[p].heard \in [Dates -> 0 .. Volume]
      /\ WindowFirst(p) \in Dates /\ RetentionFirst(p) \in Dates /\ mem[p].today \in Dates
  <2> HIDE DEF TypeOK
  <2> QED BY OwnWindows DEF IInv
<1>1. ASSUME NEW job \in Commands, Begin(p, job)
      PROVE  TypeOK'
  <2>1. [Resting EXCEPT !.job = job, !.build = installed, !.today = day] \in Memory
    <3>1. Unheard \in [Dates -> 0 .. Volume]
      BY DEF Unheard
    <3>2. Resting \in Memory
      BY <3>1 DEF Memory, Resting, Commands
    <3> QED
      BY <3>2 DEF Memory
  <2>2. mem' \in [Procs -> Memory]
    BY <1>1, <2>1 DEF Begin
  <2> QED
    BY <1>1, <2>2 DEF Begin
<1>2. CASE Acquire(p) \/ Refused(p) \/ Look(p)
  BY <1>2, LeaveKeepsTypes DEF Acquire, Refused, Look
<1>3. CASE Open(p)
  <2>1. schema' \in 0 .. Newest
    BY <1>3 DEF Open, NoManifest
  <2>2. [mem[p] EXCEPT !.from = schema'] \in Memory
    BY <2>1 DEF Memory
  <2>3. mem' \in [Procs -> Memory]
    BY <1>3, <2>2 DEF Open
  <2> QED
    BY <1>3, <2>1, <2>3 DEF Open
<1>4. CASE UpToDate(p)
  <2>1. [mem[p] EXCEPT !.from = 0] \in Memory
    BY DEF Memory
  <2> QED
    BY <1>4, <2>1 DEF UpToDate, Ready
<1>5. CASE TooNew(p) \/ MigrateTwice(p) \/ Rest(p) \/ AskEnds(p) \/ Crash(p)
  BY <1>5, LeaveKeepsTypes DEF TooNew, MigrateTwice, Rest, AskEnds, Crash
<1>6. CASE Migrate(p)
  <2>1. [mem[p] EXCEPT !.from = @ + 1] \in Memory
    BY <1>0, <1>6 DEF Memory, Migrate
  <2> QED
    BY <1>0, <1>6, <2>1 DEF Migrate
<1>7. CASE Watch(p)
  <2>1. [mem[p] EXCEPT !.next = mem[p].today] \in Memory
    BY <1>0 DEF Memory
  <2> QED
    BY <1>7, <2>1 DEF Watch
<1>8. CASE Ask(p)
  <2>1. mem[p].next \in 1 .. LastDay
    <3>1. WindowFirst(p) <= mem[p].next
      <4> HIDE DEF TypeOK
      <4> QED BY <1>8 DEF Ask, Private
    <3> DEFINE n == mem[p].next
               w == WindowFirst(p)
    <3>2. n \in 0 .. LastDay /\ w \in 1 .. LastDay /\ w <= n
      BY <1>0, <3>1 DEF Dates
    <3> HIDE DEF n, w
    <3>3. n \in 1 .. LastDay
      BY <3>2
    <3> QED
      BY <3>3 DEF n
  <2>2. Published(mem[p].next) \in 0 .. Volume
    BY <2>1 DEF Published
  <2>3. [mem[p].heard EXCEPT ![mem[p].next] = Published(mem[p].next)] \in [Dates -> 0 .. Volume]
    BY <1>0, <2>2
  <2>4. [mem[p] EXCEPT !.heard = [mem[p].heard EXCEPT ![mem[p].next] = Published(mem[p].next)],
                       !.next = mem[p].next - 1] \in Memory
    <3>1. mem[p].next - 1 \in 0 .. LastDay
      BY <2>1
    <3> DEFINE h == [mem[p].heard EXCEPT ![mem[p].next] = Published(mem[p].next)]
               n == mem[p].next - 1
    <3>2. h \in [Dates -> 0 .. Volume] /\ n \in 0 .. LastDay
      BY <2>3, <3>1
    <3> HIDE DEF h, n
    <3>3. [mem[p] EXCEPT !.heard = h, !.next = n] \in Memory
      BY <3>2 DEF Memory
    <3> QED
      BY <3>3 DEF h, n
  <2>5. mem' = [mem EXCEPT ![p] =
                   [mem[p] EXCEPT !.heard = [mem[p].heard EXCEPT ![mem[p].next] = Published(mem[p].next)],
                                  !.next = mem[p].next - 1]]
    BY <1>8 DEF Ask, Memory
  <2> QED
    BY <1>8, <2>4, <2>5 DEF Ask
<1>9. CASE AskFails(p)
  BY <1>9 DEF AskFails
<1>10. CASE Merge(p)
  <2>1. [mem[p] EXCEPT !.heard = Unheard, !.next = 0] \in Memory
    <3>1. Unheard \in [Dates -> 0 .. Volume]
      BY DEF Unheard
    <3> DEFINE h == Unheard
               n == 0
    <3>2. h \in [Dates -> 0 .. Volume] /\ n \in 0 .. LastDay
      BY <3>1
    <3> HIDE DEF h, n
    <3>3. [mem[p] EXCEPT !.heard = h, !.next = n] \in Memory
      BY <3>2 DEF Memory
    <3> QED
      BY <3>3 DEF h, n
  <2>2. mem' = [mem EXCEPT ![p] = [mem[p] EXCEPT !.heard = Unheard, !.next = 0]]
    BY <1>10 DEF Merge, Memory
  <2>3. seen' \in [Dates -> 0 .. Volume]
    BY <1>0, <1>10 DEF Merge
  <2> QED
    BY <1>10, <2>1, <2>2, <2>3 DEF Merge
<1>11. CASE Alarm(p)
  BY <1>11 DEF Alarm
<1>12. CASE Mark(p)
  <2>1. RetentionFirst(p) \in Dates /\ mem[p].today \in Dates
    BY <1>0
  <2> QED
    BY <1>12, <2>1 DEF Mark
<1>13. QED
  BY <1>1, <1>2, <1>3, <1>4, <1>5, <1>6, <1>7, <1>8, <1>9, <1>10, <1>11, <1>12
  DEF Started, Proceed, Broken

LEMMA WorldKeepsTypes ==
    ASSUME TypeOK, World
    PROVE  TypeOK'
<1> USE HostAssumption DEF HostAssumption, TypeOK, Sound, Fault, archive
<1>1. CASE Time
  BY <1>1 DEF Time
<1>2. CASE Upgrade
  BY <1>2 DEF Upgrade
<1>3. CASE EmptyList \/ FillList
  <2>1. watching' \in BOOLEAN
    BY <1>3 DEF EmptyList, FillList
  <2>2. UNCHANGED <<day, hour, installed, schema, holder, pc, mem, archive>> /\ faults' \in 0 .. MaxFaults
    BY <1>3 DEF EmptyList, FillList
  <2> QED
    BY <2>1, <2>2
<1>4. QED
  BY <1>1, <1>2, <1>3 DEF World

-----------------------------------------------------------------------------
(* The lock, and what a process knows.                                     *)

\* Whoever leaves, everyone else is where they were.
LEMMA OthersStay ==
    ASSUME TypeOK, NEW p \in Procs, Started(p) \/ Proceed(p) \/ Broken(p),
           NEW q \in Procs \ {p}
    PROVE  pc'[q] = pc[q] /\ mem'[q] = mem[q]
BY DEF TypeOK, Started, Proceed, Broken, Begin, Acquire, Refused, Look, Open, UpToDate, Ready, TooNew, Migrate,
       MigrateTwice, Watch, Ask, Merge, Alarm, Mark, Rest, AskFails, AskEnds, Crash, Leave, Go

LEMMA LockIsKept ==
    ASSUME IInv, NEW p \in Procs, Started(p) \/ Proceed(p) \/ Broken(p)
    PROVE  OneAtATime'
<1>1. ASSUME NEW q \in Procs \ {p}, pc[q] \in Working, mem[q].job # "status"
      PROVE  holder' = q
  <2>1. holder = q /\ q # p /\ q # Nobody
    BY <1>1, HostAssumption DEF IInv, OneAtATime, HostAssumption
  <2> QED
    BY <2>1 DEF Started, Proceed, Broken, Begin, Acquire, Refused, Look, Open, UpToDate, TooNew, Migrate,
       MigrateTwice, Watch, Ask, Merge, Alarm, Mark, Rest, AskFails, AskEnds, Crash, Leave
<1>2. ASSUME pc'[p] \in Working, mem'[p].job # "status"
      PROVE  holder' = p
  <2> USE <1>2 DEF IInv, TypeOK, Memory, OneAtATime, Private, Working, Go
  <2>1. CASE Started(p)
    BY <2>1 DEF Started, Begin
  <2>2. CASE Acquire(p) \/ Refused(p) \/ Look(p)
    BY <2>2 DEF Acquire, Refused, Look, Leave
  <2>3. CASE Open(p) \/ UpToDate(p) \/ TooNew(p) \/ Migrate(p) \/ MigrateTwice(p)
    BY <2>3 DEF Open, UpToDate, Ready, TooNew, Migrate, MigrateTwice, Leave
  <2>4. CASE Watch(p) \/ Ask(p) \/ AskFails(p) \/ Merge(p) \/ Alarm(p) \/ Mark(p)
    BY <2>4 DEF Watch, Ask, AskFails, Merge, Alarm, Mark
  <2>5. CASE Rest(p) \/ AskEnds(p) \/ Crash(p)
    BY <2>5 DEF Rest, AskEnds, Crash, Leave
  <2> QED
    BY <2>1, <2>2, <2>3, <2>4, <2>5 DEF Proceed, Broken
<1>3. QED
  BY <1>1, <1>2, OthersStay DEF IInv, OneAtATime

LEMMA KnowledgeIsKept ==
    ASSUME IInv, NEW p \in Procs, Started(p) \/ Proceed(p) \/ Broken(p)
    PROVE  \A q \in Procs : Private(q)'
<1>1. UNCHANGED day
  BY DEF Started, Proceed, Broken, Begin, Acquire, Refused, Look, Open, UpToDate, TooNew, Migrate,
       MigrateTwice, Watch, Ask, Merge, Alarm, Mark, Rest, AskFails, AskEnds, Crash, world
<1>2. ASSUME NEW q \in Procs \ {p} PROVE Private(q)'
  BY <1>1, <1>2, OthersStay DEF IInv, Private, WindowFirst
<1>3. Private(p)'
  <2> DEFINE m == mem[p]
             n == mem[p].next
             t == mem[p].today
  <2>0. /\ n \in 0 .. LastDay /\ t \in Dates /\ day \in Nat /\ day' = day /\ t <= day
        /\ m.heard \in [Dates -> 0 .. Volume]
        /\ WindowFirst(p) \in Dates /\ WindowFirst(p) <= t
    BY <1>1, OwnWindows, HostAssumption DEF IInv, Private, TypeOK, HostAssumption
  <2>1. CASE Started(p) \/ Refused(p) \/ TooNew(p) \/ MigrateTwice(p) \/ Rest(p) \/ AskEnds(p) \/ Crash(p)
    <3>1. /\ pc'[p] \in {"idle", "lock", "look"} /\ mem'[p].today \in {day, Retention}
          /\ pc'[p] = "look" => mem'[p].job = "status"
      <4>1. ASSUME NEW job \in Commands, Begin(p, job)
            PROVE  /\ pc'[p] = IF job = "status" THEN "look" ELSE "lock"
                   /\ mem'[p].today = day /\ mem'[p].job = job
        BY <4>1 DEF Begin, Resting, Go, IInv, TypeOK
      <4>2. Leave(p) => pc'[p] = "idle" /\ mem'[p].today = Retention
        BY DEF Leave, Resting, Go, IInv, TypeOK
      <4> QED
        BY <2>1, <4>1, <4>2 DEF Started, Refused, TooNew, MigrateTwice, Rest, AskEnds, Crash
    <3>2. Retention <= day /\ Retention \in Nat
      BY HostAssumption DEF HostAssumption, IInv, TypeOK
    <3> QED
      BY <2>0, <3>1, <3>2 DEF Private, Sweeping
  <2>2. CASE Acquire(p) \/ Look(p)
    BY <1>1, <2>0, <2>2, HostAssumption
    DEF Acquire, Look, Leave, Private, Resting, Sweeping, Go, IInv, TypeOK, HostAssumption
  <2>3. CASE Open(p) \/ UpToDate(p) \/ Migrate(p)
    <3>1. mem'[p].today = t /\ mem'[p].job = m.job
      BY <2>3 DEF Open, UpToDate, Ready, Migrate, IInv, TypeOK, Memory
    <3>2. pc'[p] \in {"version", "watch", "rest"} /\ (pc'[p] = "watch" => m.job \in Runs)
      BY <2>3 DEF Open, UpToDate, Ready, Migrate, Go, IInv, TypeOK
    <3> QED
      BY <2>0, <3>1, <3>2 DEF Private, Sweeping
  <2>4. CASE Watch(p)
    <3>1. mem'[p].today = t /\ mem'[p].job = m.job
      BY <2>4 DEF Watch, IInv, TypeOK, Memory
    <3>2. (pc'[p] = "ask" /\ mem'[p].next = t) \/ pc'[p] = "rest"
      BY <2>4 DEF Watch, Go, IInv, TypeOK, Memory
    <3>3. m.job \in Runs /\ WindowFirst(p)' = WindowFirst(p)
      BY <2>4, <3>1 DEF Watch, IInv, Private, Sweeping, WindowFirst
    <3> QED
      BY <2>0, <3>1, <3>2, <3>3 DEF Private, Sweeping, Dates
  <2>5. CASE Ask(p)
    <3>1. n \in Dates /\ n <= t /\ WindowFirst(p) <= n /\ m.job \in Runs
      BY <2>0, <2>5 DEF Ask, IInv, Private, Sweeping, Dates
    <3>2. /\ mem'[p].today = t /\ mem'[p].job = m.job /\ mem'[p].next = n - 1
          /\ mem'[p].heard = [m.heard EXCEPT ![n] = Published(n)]
      BY <2>5 DEF Ask, IInv, TypeOK, Memory
    <3>3. pc'[p] = IF n = WindowFirst(p) THEN "merge" ELSE "ask"
      BY <2>5 DEF Ask, WindowFirst, Go, IInv, TypeOK
    <3>4. WindowFirst(p)' = WindowFirst(p)
      BY <3>2 DEF WindowFirst
    <3>5. ASSUME NEW d \in Dates, n - 1 < d, d < t
          PROVE  mem'[p].heard[d] = Volume
      <4>1. CASE d = n
        <5>1. mem'[p].heard[d] = Published(d)
          BY <2>0, <3>1, <3>2, <4>1
        <5>2. d < day
          BY <2>0, <3>5 DEF Dates
        <5> QED
          BY <5>1, <5>2 DEF Published
      <4>2. CASE n < d
        <5>1. m.heard[d] = Volume
          BY <2>5, <3>5, <4>2 DEF Ask, IInv, Private
        <5>2. d # n
          BY <3>1, <4>2 DEF Dates
        <5> QED
          BY <2>0, <3>1, <3>2, <5>1, <5>2
      <4> QED
        BY <3>1, <3>5, <4>1, <4>2 DEF Dates
    <3>6. pc'[p] = "ask" => WindowFirst(p) <= n - 1 /\ n - 1 <= t
      BY <2>0, <3>1, <3>3 DEF Dates
    <3>7. pc'[p] = "merge" => n = WindowFirst(p)
      BY <3>3
    <3>8. \A d \in Dates : WindowFirst(p) <= d /\ n = WindowFirst(p) => n - 1 < d
      BY <2>0 DEF Dates
    <3>9. pc'[p] \in {"ask", "merge"}
      BY <3>3
    <3>10. pc'[p] = "ask" => Private(p)'
      BY <2>0, <3>1, <3>2, <3>4, <3>5, <3>6 DEF Private
    <3>11. pc'[p] = "merge" => Private(p)'
      BY <2>0, <3>1, <3>2, <3>4, <3>5, <3>7, <3>8 DEF Private
    <3> QED
      BY <3>9, <3>10, <3>11
  <2>6. CASE AskFails(p) \/ Merge(p) \/ Alarm(p) \/ Mark(p)
    <3>1. mem'[p].today = t /\ mem'[p].job = m.job
      BY <2>6 DEF AskFails, Merge, Alarm, Mark, IInv, TypeOK, Memory
    <3>2. pc'[p] \in {"rest", "alarm", "mark"} /\ (pc'[p] # "rest" => m.job \in Runs)
      BY <2>6 DEF AskFails, Merge, Alarm, Mark, Go, IInv, TypeOK, Private, Sweeping
    <3> QED
      BY <2>0, <3>1, <3>2 DEF Private, Sweeping
  <2> QED
    BY <2>1, <2>2, <2>3, <2>4, <2>5, <2>6 DEF Proceed, Broken
<1>4. QED
  BY <1>2, <1>3

-----------------------------------------------------------------------------
(* What is on record, and the watermark.                                   *)

LEMMA RecordIsKept ==
    ASSUME IInv, NEW p \in Procs, Started(p) \/ Proceed(p) \/ Broken(p)
    PROVE  (\A q \in Procs : Merged(q)' /\ Alarmed(q)') /\ WatermarkIsTrue'
<1> USE DEF IInv
<1>1. CASE Merge(p)
  <2>0. /\ mem[p].heard \in [Dates -> 0 .. Volume] /\ seen \in [Dates -> 0 .. Volume]
        /\ Volume \in Nat
    BY OwnWindows, HostAssumption DEF TypeOK, HostAssumption
  <2>1. \A d \in Dates : seen[d] = Volume => seen'[d] = Volume
    BY <1>1, <2>0 DEF Merge
  <2>2. WatermarkIsTrue'
    BY <1>1, <2>1 DEF Merge, WatermarkIsTrue
  <2>3. ASSUME NEW q \in Procs \ {p} PROVE Merged(q)' /\ Alarmed(q)'
    BY <1>1, <2>1, OthersStay DEF Proceed, Merge, Merged, Alarmed, WindowFirst, RetentionFirst
  <2>4. Alarmed(p)'
    BY <1>1 DEF Merge, Alarmed, Go, TypeOK
  <2>5. Merged(p)'
    <3>1. WindowFirst(p)' = WindowFirst(p) /\ mem'[p].today = mem[p].today
      BY <1>1 DEF Merge, WindowFirst, TypeOK, Memory
    <3>2. \A d \in Dates : WindowFirst(p) <= d /\ d < mem[p].today => mem[p].heard[d] = Volume
      BY <1>1 DEF Merge, Private
    <3>3. \A d \in Dates : mem[p].heard[d] = Volume => seen'[d] = Volume
      BY <1>1, <2>0 DEF Merge
    <3> QED
      BY <3>1, <3>2, <3>3 DEF Merged
  <2> QED
    BY <2>2, <2>3, <2>4, <2>5
<1>2. CASE Alarm(p)
  <2>1. UNCHANGED <<mem, seen, watermark, begun>> /\ reported \subseteq reported'
    BY <1>2 DEF Alarm
  <2>2. WatermarkIsTrue'
    BY <2>1 DEF WatermarkIsTrue
  <2>3. ASSUME NEW q \in Procs \ {p} PROVE Merged(q)' /\ Alarmed(q)'
    BY <1>2, <2>1, OthersStay DEF Proceed, Merged, Alarmed, WindowFirst, RetentionFirst
  <2>4. Merged(p)'
    BY <1>2, <2>1 DEF Alarm, Merged, WindowFirst, Go, TypeOK
  <2>5. Alarmed(p)'
    <3>1. RetentionFirst(p)' = RetentionFirst(p) /\ RetentionFirst(p) \in Dates
      BY <2>1, OwnWindows DEF RetentionFirst
    <3>2. ASSUME NEW d \in Dates, watermark # Never, watermark <= d, d < RetentionFirst(p)
          PROVE  d \in reported'
      BY <1>2, <3>1, <3>2 DEF Alarm, TypeOK, Dates, Never
    <3> QED
      BY <2>1, <3>1, <3>2 DEF Alarmed
  <2> QED
    BY <2>2, <2>3, <2>4, <2>5
<1>3. CASE Mark(p)
  <2>1. ASSUME NEW q \in Procs \ {p} PROVE pc[q] \notin {"alarm", "mark"}
    BY <1>3, HostAssumption DEF Mark, HostAssumption, OneAtATime, Private, Working, Sweeping, Runs
  <2>2. ASSUME NEW q \in Procs PROVE Merged(q)' /\ Alarmed(q)'
    <3>1. pc'[q] \notin {"alarm", "mark"}
      BY <1>3, <2>1, OthersStay DEF Proceed, Mark, Go, TypeOK
    <3> QED
      BY <3>1 DEF Merged, Alarmed
  <2>3. WatermarkIsTrue'
    <3> DEFINE t == mem[p].today
    <3>1. /\ t \in Dates /\ RetentionFirst(p) \in Dates /\ WindowFirst(p) \in Dates
          /\ RetentionFirst(p) <= t
      BY OwnWindows
    <3>2. CASE WindowFirst(p) <= RetentionFirst(p)
      <4>1. /\ watermark' = t /\ UNCHANGED <<seen, reported>>
            /\ begun' = IF watermark = Never THEN RetentionFirst(p) ELSE begun
        BY <1>3, <3>2 DEF Mark, WindowFirst
      <4>2. ASSUME NEW d \in Dates, begun' # Never, begun' <= d, d < t
            PROVE  seen[d] = Volume \/ d \in reported
        <5>1. CASE RetentionFirst(p) <= d
          BY <1>3, <3>1, <3>2, <4>2, <5>1 DEF Mark, Merged, Dates
        <5>2. CASE d < RetentionFirst(p)
          <6>1. watermark # Never /\ begun' = begun
            BY <3>1, <4>1, <4>2, <5>2 DEF Dates
          <6>2. CASE watermark <= d
            BY <1>3, <5>2, <6>1, <6>2 DEF Mark, Alarmed
          <6>3. CASE d < watermark
            BY <4>2, <6>1, <6>3 DEF WatermarkIsTrue
          <6> QED
            BY <6>2, <6>3 DEF TypeOK, Dates, Never
        <5> QED
          BY <3>1, <5>1, <5>2 DEF Dates
      <4> QED
        BY <4>1, <4>2 DEF WatermarkIsTrue
    <3>3. CASE ~(WindowFirst(p) <= RetentionFirst(p))
      BY <1>3, <3>3 DEF Mark, WindowFirst, WatermarkIsTrue
    <3> QED
      BY <3>2, <3>3
  <2> QED
    BY <2>2, <2>3
<1>4. CASE ~Merge(p) /\ ~Alarm(p) /\ ~Mark(p)
  <2>1. UNCHANGED archive
    BY <1>4 DEF Started, Proceed, Broken, Begin, Acquire, Refused, Look, Open, UpToDate, TooNew, Migrate,
       MigrateTwice, Watch, Ask, Rest, AskFails, AskEnds, Crash
  <2>2. pc'[p] \notin {"alarm", "mark"}
    BY <1>4 DEF Started, Proceed, Broken, Begin, Acquire, Refused, Look, Open, UpToDate, Ready, TooNew, Migrate,
       MigrateTwice, Watch, Ask, Rest, AskFails, AskEnds, Crash, Leave, Go, TypeOK
  <2>3. ASSUME NEW q \in Procs \ {p} PROVE Merged(q)' /\ Alarmed(q)'
    BY <2>1, OthersStay DEF archive, Merged, Alarmed, WindowFirst, RetentionFirst
  <2>4. Merged(p)' /\ Alarmed(p)'
    BY <2>2 DEF Merged, Alarmed
  <2>5. WatermarkIsTrue'
    BY <2>1 DEF archive, WatermarkIsTrue
  <2> QED
    BY <2>3, <2>4, <2>5
<1>5. QED
  BY <1>1, <1>2, <1>3, <1>4

-----------------------------------------------------------------------------
(* The schema.                                                             *)

LEMMA SchemaIsKept ==
    ASSUME IInv, NEW p \in Procs, Started(p) \/ Proceed(p) \/ Broken(p)
    PROVE  \A q \in Procs : Migrated(q)'
<1> USE HostAssumption DEF HostAssumption, IInv, TypeOK, Memory, NoManifest, Working, Go
<1>1. CASE Open(p)
  <2>1. schema # NoManifest => schema' = schema
    BY <1>1 DEF Open
  <2>2. ASSUME NEW q \in Procs \ {p} PROVE Migrated(q)'
    BY <2>1, OthersStay, <1>1 DEF Proceed, Migrated
  <2>3. Migrated(p)'
    BY <1>1 DEF Open, Migrated
  <2> QED
    BY <2>2, <2>3
<1>2. CASE Migrate(p)
  <2>0. mem[p].from \in 0 .. Newest /\ mem[p].build \in 1 .. Newest
    BY DEF Memory
  <2>1. schema' = schema + 1 /\ schema < Newest
    BY <1>2, <2>0 DEF Migrate
  <2>2. ASSUME NEW q \in Procs \ {p} PROVE Migrated(q)'
    <3>1. mem[q].from \in 0 .. Newest /\ mem[q].build \in 1 .. Newest
      BY DEF Memory
    <3>2. pc'[q] = pc[q] /\ mem'[q] = mem[q]
      <4> HIDE DEF TypeOK
      <4> QED BY OthersStay, <1>2 DEF Proceed
    <3>3. Migrated(q)
      OBVIOUS
    <3> QED
      BY <2>1, <3>1, <3>2, <3>3 DEF Migrated
  <2>3. Migrated(p)'
    BY <1>2, <2>1 DEF Migrate, Migrated
  <2> QED
    BY <2>2, <2>3
<1>3. CASE ~Open(p) /\ ~Migrate(p)
  <2>1. UNCHANGED schema
    BY <1>3 DEF Started, Proceed, Broken, Begin, Acquire, Refused, Look, UpToDate, TooNew,
       MigrateTwice, Watch, Ask, Merge, Alarm, Mark, Rest, AskFails, AskEnds, Crash
  <2>2. ASSUME NEW q \in Procs \ {p} PROVE Migrated(q)'
    BY <2>1, OthersStay DEF Migrated
  <2>3. Migrated(p)'
    <3>1. CASE Started(p)
      BY <3>1 DEF Started, Begin, Migrated
    <3>2. CASE Refused(p) \/ TooNew(p) \/ MigrateTwice(p) \/ Rest(p) \/ AskEnds(p) \/ Crash(p)
      BY <3>2 DEF Refused, TooNew, MigrateTwice, Rest, AskEnds, Crash, Leave, Migrated
    <3>3. CASE Acquire(p) \/ Look(p)
      BY <3>3 DEF Acquire, Look, Leave, Migrated
    <3>4. CASE UpToDate(p)
      BY <2>1, <3>4 DEF UpToDate, Ready, Migrated
    <3>5. CASE Watch(p) \/ Ask(p) \/ AskFails(p) \/ Merge(p) \/ Alarm(p) \/ Mark(p)
      <4>1. mem'[p].build = mem[p].build
        BY <3>5 DEF Watch, Ask, AskFails, Merge, Alarm, Mark
      <4>2. pc[p] \in Working \ {"open", "version"} /\ pc'[p] \in Working \ {"open", "version"}
        BY <3>5 DEF Watch, Ask, AskFails, Merge, Alarm, Mark
      <4>3. schema # NoManifest /\ schema >= mem[p].build
        BY <4>2 DEF Migrated
      <4> QED
        BY <2>1, <4>1, <4>2, <4>3 DEF Migrated
    <3> QED
      BY <1>3, <3>1, <3>2, <3>3, <3>4, <3>5 DEF Proceed, Broken
  <2> QED
    BY <2>2, <2>3
<1>4. QED
  BY <1>1, <1>2, <1>3

\* Time passes, builds are upgraded and lists are edited: what is known stays true.
LEMMA WorldKeeps ==
    ASSUME IInv, World
    PROVE  IInv'
<1>1. UNCHANGED <<schema, holder, pc, mem, archive>> /\ day <= day'
  BY DEF World, Time, Upgrade, EmptyList, FillList, IInv, TypeOK
<1>2. TypeOK'
  BY WorldKeepsTypes DEF IInv
<1>3. ASSUME NEW p \in Procs PROVE Private(p)'
  <2>1. mem[p].today \in Dates /\ day \in Nat /\ day' \in Nat /\ mem[p].today <= day
    BY <1>2, OwnWindows, HostAssumption DEF IInv, TypeOK, Private, HostAssumption
  <2>2. pc'[p] = pc[p] /\ mem'[p] = mem[p] /\ mem[p].today <= day'
    BY <1>1, <2>1 DEF Dates
  <2> QED
    BY <2>2 DEF IInv, Private, WindowFirst
<1>4. QED
  BY <1>1, <1>2, <1>3
  DEF IInv, OneAtATime, Merged, Alarmed, WatermarkIsTrue, Migrated, WindowFirst, RetentionFirst, archive

-----------------------------------------------------------------------------
(* The theorems.                                                           *)

\* What the lock, the schema and the records amount to, at every moment.
THEOREM InductiveInvariance == Spec => []IInv
<1>1. IInv /\ [Next]_vars => IInv'
  <2> SUFFICES ASSUME IInv, [Next]_vars
               PROVE  IInv'
    OBVIOUS
  <2>1. CASE World
    BY <2>1, WorldKeeps
  <2>2. ASSUME NEW p \in Procs, Started(p) \/ Proceed(p) \/ Broken(p)
        PROVE  IInv'
    BY <2>2, ProceedKeepsTypes, LockIsKept, KnowledgeIsKept, RecordIsKept, SchemaIsKept DEF IInv
  <2>3. CASE UNCHANGED vars
    BY <2>3 DEF vars, world, archive, IInv, TypeOK, OneAtATime, Private, Merged, Alarmed,
                WatermarkIsTrue, Migrated, WindowFirst, RetentionFirst
  <2>4. QED
    BY <2>1, <2>2, <2>3 DEF Next
<1>2. QED
  BY InitEstablishes, <1>1, PTL DEF Spec

\* Every variable keeps its type; no sweep asks for a day out of its window.
THEOREM TypeCorrectness == Spec => []TypeOK
<1>1. IInv => TypeOK
  BY DEF IInv
<1>2. QED
  BY InductiveInvariance, <1>1, PTL

\* However many commands are started over one data_root, and wherever they die, at most one that
\* writes is past the lock.
THEOREM OneCommandAtATime == Spec => []OneAtATime
<1>1. IInv => OneAtATime
  BY DEF IInv
<1>2. QED
  BY InductiveInvariance, <1>1, PTL

\* Whatever the windows of the two profiles, and whichever sweeps fail, die or come late, the
\* watermark only passes days that were observed whole or called unobserved.
THEOREM WatermarkTellsTheTruth == Spec => []WatermarkIsTrue
<1>1. IInv => WatermarkIsTrue
  BY DEF IInv
<1>2. QED
  BY InductiveInvariance, <1>1, PTL

\* However many processes open one manifest at once, and whichever builds they are of, none works
\* on a schema older than its own.
THEOREM SchemaIsNeverOlder == Spec => []SchemaIsApplied
<1>1. IInv => SchemaIsApplied
  BY DEF IInv, Migrated, SchemaIsApplied
<1>2. QED
  BY InductiveInvariance, <1>1, PTL

-----------------------------------------------------------------------------
(* A command and the archive.                                              *)

\* What a command past the lock has read of the archive is still so when it comes to its own next
\* step: nobody else records a sweep, moves the watermark or raises the alarm meanwhile.
ArchiveIsTheHolders ==
    [][\A p \in Procs :
          pc[p] \in Working /\ mem[p].job # "status" /\ pc'[p] = pc[p]
              => UNCHANGED archive]_vars

\* The lock is worth taking: between two of its steps a command's archive is its own (run.py
\* takes the lock once, for all its phases, and reads the watermark long after).
THEOREM ArchiveIsKeptByTheLock == Spec => ArchiveIsTheHolders
<1> DEFINE Mine ==
      \A p \in Procs :
          pc[p] \in Working /\ mem[p].job # "status" /\ pc'[p] = pc[p]
              => UNCHANGED archive
<1>1. ASSUME IInv, Next, NEW p \in Procs,
             pc[p] \in Working, mem[p].job # "status", pc'[p] = pc[p], ~UNCHANGED archive
      PROVE  FALSE
  <2>1. ~World
    BY <1>1 DEF World, Time, Upgrade, EmptyList, FillList
  <2>2. PICK q \in Procs : Started(q) \/ Proceed(q) \/ Broken(q)
    BY <1>1, <2>1 DEF Next
  <2>3. Merge(q) \/ Alarm(q) \/ Mark(q)
    BY <1>1, <2>2 DEF Started, Proceed, Broken, Begin, Acquire, Refused, Look, Open, UpToDate, TooNew,
       Migrate, MigrateTwice, Watch, Ask, Rest, AskFails, AskEnds, Crash
  <2>4. pc[q] \in Working /\ mem[q].job # "status"
    BY <1>1, <2>3 DEF Merge, Alarm, Mark, IInv, Private, Sweeping, Working, Runs
  <2>5. p = q
    BY <1>1, <2>4, HostAssumption DEF IInv, OneAtATime, HostAssumption
  <2>6. pc'[q] # pc[q]
    BY <1>1, <2>3 DEF Merge, Alarm, Mark, Go, IInv, TypeOK
  <2> QED
    BY <1>1, <2>5, <2>6
<1>2. IInv /\ [Next]_vars => [Mine]_vars
  BY <1>1
<1>3. [][Mine]_vars => ArchiveIsTheHolders
  BY DEF ArchiveIsTheHolders
<1> QED
  BY InductiveInvariance, <1>2, <1>3, PTL DEF Spec

-----------------------------------------------------------------------------
(* A command comes to its end.                                             *)

\* The most steps a process may still take before its command is over: one for each day it has
\* still to ask for, one for each version the schema may still be brought up to.
InSweep == LastDay + 5

Ahead ==
    [idle |-> 0, rest |-> 1, mark |-> 2, alarm |-> 3, merge |-> 4, ask |-> 4, watch |-> InSweep,
     version |-> InSweep + 1, open |-> InSweep + 2 + Newest,
     lock |-> InSweep + 3 + Newest, look |-> InSweep + 3 + Newest]

StepsLeft(p) ==
    Ahead[pc[p]] + IF pc[p] = "ask" THEN mem[p].next
                   ELSE IF pc[p] = "version" THEN Newest - mem[p].from
                   ELSE 0

\* No step of anyone gives a command back what it has behind it.
CommandsEnd ==
    [][\A p \in Procs : pc[p] # "idle" =>
          \/ pc'[p] = pc[p] /\ mem'[p] = mem[p]
          \/ StepsLeft(p)' < StepsLeft(p)]_vars

LEMMA StepsAreFew ==
    ASSUME IInv, NEW p \in Procs
    PROVE  /\ StepsLeft(p) \in 0 .. InSweep + 3 + Newest
           /\ pc[p] # "idle" => StepsLeft(p) > 0
<1>1. /\ mem[p].next \in 0 .. LastDay /\ mem[p].from \in 0 .. Newest
      /\ LastDay \in Nat /\ Newest \in Nat
  BY OwnWindows, HostAssumption DEF IInv, HostAssumption
<1> QED
  BY <1>1 DEF StepsLeft, Ahead, InSweep, IInv, TypeOK, Working

LEMMA OwnStepsCount ==
    ASSUME IInv, IInv', NEW p \in Procs, Proceed(p) \/ Broken(p)
    PROVE  StepsLeft(p)' < StepsLeft(p)
<1>1. /\ mem[p].next \in 0 .. LastDay /\ mem[p].from \in 0 .. Newest /\ mem[p].build \in 1 .. Newest
      /\ mem[p].today \in 1 .. LastDay /\ LastDay \in Nat /\ Newest \in Nat \ {0}
  BY OwnWindows, HostAssumption DEF IInv, HostAssumption, Dates
<1> USE <1>1 DEF StepsLeft, Ahead, InSweep
<1>2. pc \in [Procs -> {"idle", "lock", "look"} \union Working] /\ mem \in [Procs -> Memory]
  BY DEF IInv, TypeOK
<1>3. pc[p] # "idle" => StepsLeft(p) > 0
  BY StepsAreFew
<1>4. ASSUME pc[p] # "idle", Leave(p) PROVE StepsLeft(p)' < StepsLeft(p)
  <2>1. pc'[p] = "idle"
    BY <1>2, <1>4 DEF Leave, Go
  <2> QED
    BY <1>3, <1>4, <2>1, StepsAreFew DEF InSweep
<1>5. CASE Refused(p) \/ TooNew(p) \/ MigrateTwice(p) \/ Rest(p) \/ AskEnds(p) \/ Crash(p)
  BY <1>4, <1>5 DEF Refused, TooNew, MigrateTwice, Rest, AskEnds, Crash
<1>6. CASE Acquire(p) \/ Look(p)
  <2>1. CASE pc'[p] = "open" /\ pc[p] \in {"lock", "look"}
    BY <2>1
  <2>2. CASE Leave(p)
    BY <1>4, <1>6, <2>2 DEF Acquire, Look
  <2> QED
    BY <1>2, <1>6, <2>1, <2>2 DEF Acquire, Look, Go
<1>7. CASE Open(p)
  <2>1. pc[p] = "open" /\ pc'[p] = "version" /\ mem'[p].from \in 0 .. Newest
    BY <1>2, <1>7 DEF Open, Go, IInv, TypeOK, Memory
  <2> QED
    BY <2>1
<1>8. CASE UpToDate(p)
  <2>1. pc[p] = "version" /\ pc'[p] \in {"watch", "rest"}
    BY <1>2, <1>8 DEF UpToDate, Ready, Go
  <2> QED
    BY <2>1
<1>9. CASE Migrate(p)
  <2>1. pc[p] = "version" /\ pc'[p] = "version" /\ mem'[p].from = mem[p].from + 1
    BY <1>2, <1>9 DEF Migrate, Memory
  <2>2. mem[p].from < Newest
    BY <1>9 DEF Migrate
  <2> QED
    BY <2>1, <2>2
<1>10. CASE Watch(p)
  <2>1. /\ pc[p] = "watch"
        /\ \/ pc'[p] = "ask" /\ mem'[p].next = mem[p].today
           \/ pc'[p] = "rest"
    BY <1>2, <1>10 DEF Watch, Go, Memory
  <2> QED
    BY <2>1
<1>11. CASE Ask(p)
  <2>1. /\ pc[p] = "ask" /\ pc'[p] \in {"ask", "merge"}
        /\ mem'[p].next = mem[p].next - 1
    BY <1>2, <1>11 DEF Ask, Go, Memory
  <2>2. mem[p].next >= 1
    <3>1. WindowFirst(p) \in Dates /\ WindowFirst(p) <= mem[p].next
      BY <2>1, OwnWindows DEF IInv, Private
    <3> QED
      BY <3>1 DEF Dates
  <2> QED
    BY <2>1, <2>2
<1>12. CASE AskFails(p)
  <2>1. pc[p] = "ask" /\ pc'[p] = "rest"
    BY <1>2, <1>12 DEF AskFails, Go
  <2> QED
    BY <2>1
<1>13. CASE Merge(p) \/ Alarm(p) \/ Mark(p)
  <2>1. <<pc[p], pc'[p]>> \in {<<"merge", "alarm">>, <<"alarm", "mark">>, <<"mark", "rest">>}
    BY <1>2, <1>13 DEF Merge, Alarm, Mark, Go
  <2> QED
    BY <2>1
<1> QED
  BY <1>5, <1>6, <1>7, <1>8, <1>9, <1>10, <1>11, <1>12, <1>13 DEF Proceed, Broken

\* Whatever the others do and wherever the schema stands, a command is over after at most
\* LastDay + Newest + 8 steps of its own, refused, failed, dead or done: nothing in it waits, and
\* neither a migration nor a sweep begins again (run.py, locking.py, connection.py).
THEOREM NoCommandRunsForEver ==
    Spec => [](\A p \in Procs : StepsLeft(p) \in 0 .. LastDay + Newest + 8) /\ CommandsEnd
<1> DEFINE Ends ==
      \A p \in Procs : pc[p] # "idle" =>
          \/ pc'[p] = pc[p] /\ mem'[p] = mem[p]
          \/ StepsLeft(p)' < StepsLeft(p)
<1>1. ASSUME IInv, IInv', Next, NEW p \in Procs, pc[p] # "idle"
      PROVE  \/ pc'[p] = pc[p] /\ mem'[p] = mem[p]
             \/ StepsLeft(p)' < StepsLeft(p)
  <2>1. CASE World
    BY <2>1 DEF World, Time, Upgrade, EmptyList, FillList
  <2>2. CASE Proceed(p) \/ Broken(p)
    BY <1>1, <2>2, OwnStepsCount
  <2>3. ASSUME NEW q \in Procs \ {p}, Started(q) \/ Proceed(q) \/ Broken(q)
        PROVE  pc'[p] = pc[p] /\ mem'[p] = mem[p]
    BY <1>1, <2>3, OthersStay DEF IInv
  <2>4. ~Started(p)
    BY <1>1 DEF Started, Begin
  <2> QED
    BY <1>1, <2>1, <2>2, <2>3, <2>4 DEF Next
<1>2. IInv /\ IInv' /\ [Next]_vars => [Ends]_vars
  BY <1>1
<1>3. [][Ends]_vars => CommandsEnd
  BY DEF CommandsEnd
<1> DEFINE Few == \A p \in Procs : StepsLeft(p) \in 0 .. LastDay + Newest + 8
<1>4. IInv => Few
  <2>1. InSweep + 3 + Newest = LastDay + Newest + 8
    BY HostAssumption DEF HostAssumption, InSweep
  <2> QED
    BY <2>1, StepsAreFew
<1> HIDE DEF Few
<1>5. Spec => []Few
  BY InductiveInvariance, <1>4, PTL
<1>6. Spec => CommandsEnd
  BY InductiveInvariance, <1>2, <1>3, PTL DEF Spec
<1> QED
  BY <1>5, <1>6 DEF Few
=============================================================================
