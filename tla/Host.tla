-------------------------------- MODULE Host --------------------------------
(***************************************************************************)
(* One data_root and everything that is started over it: the two scheduled *)
(* profiles (the full sweep and the narrower monitor), reconcile and purge *)
(* by hand, and `status`.  A command takes the run lock or leaves at once, *)
(* opens the manifest and brings its schema up to its build's, and a run   *)
(* asks the source for the days of its window, newest first, and records   *)
(* in the watermark how far the archive has been observed.  `status` takes *)
(* no lock, and opens and migrates all the same.                           *)
(*                                                                         *)
(* Simplifications.  A day is so many publications, one after the other;   *)
(* of a document nothing more is said here than whether a sweep has        *)
(* observed it (Watcher says the rest).  The steps of a run before and     *)
(* after the sweep are its beginning and its end.                          *)
(***************************************************************************)
EXTENDS Naturals

CONSTANTS
    Procs, Nobody,      \* the processes, and who holds a lock that is free
    Jobs,               \* [process -> the commands it is started with]
    Retention,          \* [retention] days
    Days, MonitorDays,  \* [discovery] days and monitor_days, each perhaps Unset
    Unset,
    Newest,             \* the schema of the newest build; that of the oldest is 1
    Volume,             \* publications of one day
    LastDay,            \* bound: the last day of the model
    MaxFaults           \* bound: crashes, failed requests and emptied watch lists

Commands == {"sweep", "monitor", "tidy", "status"}
Runs == {"sweep", "monitor"}

\* _discovery_windows: the defaults, each within the wider one.
DefaultMonitor == 2
Discovery == IF Days = Unset THEN Retention ELSE Days
Monitor ==
    IF MonitorDays # Unset THEN MonitorDays
    ELSE IF DefaultMonitor <= Discovery THEN DefaultMonitor ELSE Discovery

ASSUME HostAssumption ==
    /\ Nobody \notin Procs
    /\ Jobs \in [Procs -> SUBSET Commands]
    /\ Retention \in Nat \ {0} /\ Discovery \in Nat \ {0} /\ Monitor \in Nat \ {0}
    /\ Monitor <= Discovery /\ Discovery <= Retention
    /\ Newest \in Nat \ {0} /\ Volume \in Nat /\ MaxFaults \in Nat
    /\ LastDay \in Nat /\ Retention <= LastDay

VARIABLES
    day, hour,     \* today, and how many of its publications are out
    installed,     \* the build a command is started with
    watching,      \* somebody is on the watch list
    schema,        \* user_version of the manifest; NoManifest before there is one
    holder,        \* who holds the run lock
    pc, mem,       \* what each process does next, and what it has in memory
    seen,          \* [day -> how many of its publications a merged sweep observed]
    watermark,     \* last_completed_sweep, or Never
    faults,
    begun,         \* the first day the watermark ever stood for, or Never (read by the properties)
    reported       \* the days the gap alarm has called never observed (likewise)

world == <<day, hour, installed, watching>>
archive == <<seen, watermark, begun, reported>>
vars == <<world, schema, holder, pc, mem, archive, faults>>

Dates == 1 .. LastDay
Never == 0
NoManifest == Newest + 1

\* The first day of a window of so many days; the model begins late enough for it to be a date.
First(last, days) == last - (days - 1)

\* Config.sweep_days: the profile selects the width and nothing else.
Width(job) == IF job = "monitor" THEN Monitor ELSE Discovery

Unheard == [d \in Dates |-> 0]

Resting == [job |-> "status", build |-> 1, today |-> Retention, from |-> 0,
            next |-> 0, heard |-> Unheard]

\* What the source shows of a day that has begun.
Published(d) == IF d < day THEN Volume ELSE hour

Go(p, to) == pc' = [pc EXCEPT ![p] = to]

Fault == faults < MaxFaults /\ faults' = faults + 1
Sound == UNCHANGED faults

\* The process is over: the kernel closes its files, and the lock with them.
Leave(p) ==
    /\ Go(p, "idle") /\ mem' = [mem EXCEPT ![p] = Resting]
    /\ holder' = IF holder = p THEN Nobody ELSE holder

-----------------------------------------------------------------------------
(* Starting: the clock is read first, then the lock is asked for.          *)

Begin(p, job) ==
    /\ pc[p] = "idle" /\ job \in Jobs[p]
    /\ mem' = [mem EXCEPT ![p] = [Resting EXCEPT !.job = job, !.build = installed, !.today = day]]
    /\ Go(p, IF job = "status" THEN "look" ELSE "lock")
    /\ Sound /\ UNCHANGED <<world, schema, holder, archive>>

\* Bug variant of Acquire: whoever comes takes the lock over.
AcquireStolen(p) ==
    /\ pc[p] = "lock"
    /\ holder' = p
    /\ Go(p, "open")
    /\ Sound /\ UNCHANGED <<world, schema, mem, archive>>

Acquire(p) ==
    /\ pc[p] = "lock" /\ holder = Nobody
    /\ holder' = p
    /\ Go(p, "open")
    /\ Sound /\ UNCHANGED <<world, schema, mem, archive>>

\* LockHeldError: exit code 3, which run-profile.sh turns into 0.
Refused(p) ==
    /\ pc[p] = "lock" /\ holder # Nobody
    /\ Leave(p)
    /\ Sound /\ UNCHANGED <<world, schema, archive>>

\* status: nothing to show before the first manifest.
Look(p) ==
    /\ pc[p] = "look"
    /\ IF schema = NoManifest THEN Leave(p) ELSE Go(p, "open") /\ UNCHANGED <<mem, holder>>
    /\ Sound /\ UNCHANGED <<world, schema, archive>>

-----------------------------------------------------------------------------
(* open_manifest.                                                          *)

Ready(p) ==
    /\ Go(p, IF mem[p].job \in Runs THEN "watch" ELSE "rest")
    /\ mem' = [mem EXCEPT ![p].from = 0]

\* Opening creates the file; the version is read outside any transaction.
Open(p) ==
    /\ pc[p] = "open"
    /\ schema' = IF schema = NoManifest THEN 0 ELSE schema
    /\ mem' = [mem EXCEPT ![p].from = schema']
    /\ Go(p, "version")
    /\ Sound /\ UNCHANGED <<world, holder, archive>>

UpToDate(p) ==
    /\ pc[p] = "version" /\ mem[p].from = mem[p].build
    /\ Ready(p)
    /\ Sound /\ UNCHANGED <<world, schema, holder, archive>>

\* SchemaTooNewError.
TooNew(p) ==
    /\ pc[p] = "version" /\ mem[p].from > mem[p].build
    /\ Leave(p)
    /\ Sound /\ UNCHANGED <<world, schema, archive>>

\* Bug variant of Migrate: the statements do not mind having been run.
MigrateAgain(p) ==
    /\ pc[p] = "version" /\ mem[p].from < mem[p].build
    /\ schema' = mem[p].from + 1
    /\ mem' = [mem EXCEPT ![p].from = @ + 1]
    /\ Sound /\ UNCHANGED <<world, holder, pc, archive>>

\* The next version, its statements and its number in one transaction.
Migrate(p) ==
    /\ pc[p] = "version" /\ mem[p].from < mem[p].build
    /\ schema = mem[p].from
    /\ schema' = schema + 1
    /\ mem' = [mem EXCEPT ![p].from = @ + 1]
    /\ Sound /\ UNCHANGED <<world, holder, pc, archive>>

\* Somebody has migrated meanwhile: the tables are there already, and nothing catches it.
MigrateTwice(p) ==
    /\ pc[p] = "version" /\ mem[p].from < mem[p].build
    /\ schema # mem[p].from
    /\ Leave(p)
    /\ Sound /\ UNCHANGED <<world, schema, archive>>

-----------------------------------------------------------------------------
(* The sweep of a run.                                                     *)

\* The watch list is read; where it is empty discover returns before everything else.
Watch(p) ==
    /\ pc[p] = "watch"
    /\ IF watching
       THEN Go(p, "ask") /\ mem' = [mem EXCEPT ![p].next = mem[p].today]
       ELSE Go(p, "rest") /\ UNCHANGED mem
    /\ Sound /\ UNCHANGED <<world, schema, holder, archive>>

\* Bug variant of Ask: one day too far back.
AskBeyond(p) ==
    /\ pc[p] = "ask"
    /\ mem' = [mem EXCEPT ![p].heard[mem[p].next] = Published(mem[p].next), ![p].next = @ - 1]
    /\ Go(p, IF mem[p].next + 1 = First(mem[p].today, Width(mem[p].job)) THEN "merge" ELSE "ask")
    /\ Sound /\ UNCHANGED <<world, schema, holder, archive>>

\* One request per day of the window, from today backwards; nothing is merged before the last.
Ask(p) ==
    /\ pc[p] = "ask"
    /\ mem' = [mem EXCEPT ![p].heard[mem[p].next] = Published(mem[p].next), ![p].next = @ - 1]
    /\ Go(p, IF mem[p].next = First(mem[p].today, Width(mem[p].job)) THEN "merge" ELSE "ask")
    /\ Sound /\ UNCHANGED <<world, schema, holder, archive>>

\* The budget, or a source that is down for longer than the retries: the run goes on without.
AskFails(p) ==
    /\ pc[p] = "ask"
    /\ Go(p, "rest")
    /\ Fault /\ UNCHANGED <<world, schema, holder, mem, archive>>

\* A captcha, or a listing nobody can read: the run ends on it.
AskEnds(p) ==
    /\ pc[p] = "ask"
    /\ Leave(p)
    /\ Fault /\ UNCHANGED <<world, schema, archive>>

Merge(p) ==
    /\ pc[p] = "merge"
    /\ seen' = [d \in Dates |-> IF mem[p].heard[d] > seen[d] THEN mem[p].heard[d] ELSE seen[d]]
    /\ mem' = [mem EXCEPT ![p].heard = Unheard, ![p].next = 0]
    /\ Go(p, "alarm")
    /\ Sound /\ UNCHANGED <<world, schema, holder, watermark, begun, reported>>

RetentionFirst(p) == First(mem[p].today, Retention)

\* _record_sweep: days that left the window since the last full sweep are called unobserved.
Alarm(p) ==
    /\ pc[p] = "alarm"
    /\ reported' = IF watermark # Never /\ watermark < RetentionFirst(p)
                   THEN reported \union {d \in Dates : watermark <= d /\ d < RetentionFirst(p)}
                   ELSE reported
    /\ Go(p, "mark")
    /\ Sound /\ UNCHANGED <<world, schema, holder, mem, seen, watermark, begun>>

\* Bug variant of Mark: every sweep advances the watermark.
MarkAlways(p) ==
    /\ pc[p] = "mark"
    /\ watermark' = mem[p].today
    /\ begun' = IF watermark = Never THEN RetentionFirst(p) ELSE begun
    /\ Go(p, "rest")
    /\ Sound /\ UNCHANGED <<world, schema, holder, mem, seen, reported>>

\* Only a sweep as wide as retention advances the watermark.
Mark(p) ==
    /\ pc[p] = "mark"
    /\ IF First(mem[p].today, Width(mem[p].job)) <= RetentionFirst(p)
       THEN /\ watermark' = mem[p].today
            /\ begun' = IF watermark = Never THEN RetentionFirst(p) ELSE begun
       ELSE UNCHANGED <<watermark, begun>>
    /\ Go(p, "rest")
    /\ Sound /\ UNCHANGED <<world, schema, holder, mem, seen, reported>>

\* The rest of the command, and its end.
Rest(p) ==
    /\ pc[p] = "rest"
    /\ Leave(p)
    /\ Sound /\ UNCHANGED <<world, schema, archive>>

\* Bug variant of Crash: the lock outlives its owner.
CrashLocked(p) ==
    /\ pc[p] # "idle"
    /\ Go(p, "idle") /\ mem' = [mem EXCEPT ![p] = Resting]
    /\ Fault /\ UNCHANGED <<world, schema, holder, archive>>

Crash(p) ==
    /\ pc[p] # "idle"
    /\ Leave(p)
    /\ Fault /\ UNCHANGED <<world, schema, archive>>

-----------------------------------------------------------------------------
(* Everyone else.                                                          *)

Time ==
    /\ IF hour < Volume THEN hour' = hour + 1 /\ UNCHANGED day
       ELSE day < LastDay /\ day' = day + 1 /\ hour' = 0
    /\ Sound /\ UNCHANGED <<installed, watching, schema, holder, pc, mem, archive>>

Upgrade ==
    /\ installed < Newest /\ installed' = installed + 1
    /\ Sound /\ UNCHANGED <<day, hour, watching, schema, holder, pc, mem, archive>>

EmptyList ==
    /\ watching /\ watching' = FALSE
    /\ Fault /\ UNCHANGED <<day, hour, installed, schema, holder, pc, mem, archive>>

FillList ==
    /\ ~watching /\ watching' = TRUE
    /\ Sound /\ UNCHANGED <<day, hour, installed, schema, holder, pc, mem, archive>>

-----------------------------------------------------------------------------
(* The specification.                                                      *)

Init ==
    /\ day = Retention /\ hour = 0
    /\ installed = 1 /\ watching = TRUE
    /\ schema = NoManifest
    /\ holder = Nobody
    /\ pc = [p \in Procs |-> "idle"]
    /\ mem = [p \in Procs |-> Resting]
    /\ seen = [d \in Dates |-> 0]
    /\ watermark = Never /\ begun = Never /\ reported = {}
    /\ faults = 0

\* What a process does of its own accord once it has been started.
Proceed(p) ==
    \/ Acquire(p) \/ Refused(p) \/ Look(p)
    \/ Open(p) \/ UpToDate(p) \/ TooNew(p) \/ Migrate(p) \/ MigrateTwice(p)
    \/ Watch(p) \/ Ask(p) \/ Merge(p) \/ Alarm(p) \/ Mark(p) \/ Rest(p)

Broken(p) == AskFails(p) \/ AskEnds(p) \/ Crash(p)

Started(p) == \E job \in Commands : Begin(p, job)

World == Time \/ Upgrade \/ EmptyList \/ FillList

Next == (\E p \in Procs : Started(p) \/ Proceed(p) \/ Broken(p)) \/ World

Spec == Init /\ [][Next]_vars

\* A full sweep that fires while nothing holds the lock, and one that then gets it.
Fire(p) == holder = Nobody /\ Begin(p, "sweep")
GetLock(p) == Acquire(p) /\ mem[p].job = "sweep"

\* Commands come to an end, the list is filled again, and among the sweeps the scheduler fires
\* there is always another that finds the lock free.
Fairness ==
    /\ WF_vars(FillList)
    /\ \A p \in Procs : WF_vars(Proceed(p))
    /\ \A p \in {q \in Procs : "sweep" \in Jobs[q]} : SF_vars(Fire(p)) /\ SF_vars(GetLock(p))

FairSpec == Spec /\ Fairness
=============================================================================
