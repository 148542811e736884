--------------------------- MODULE HostProperties ---------------------------
(***************************************************************************)
(* What the commands started over one data_root may rely on (Host).        *)
(***************************************************************************)
EXTENDS Host

Working == {"open", "version", "watch", "ask", "merge", "alarm", "mark", "rest"}

Memory == [job : Commands, build : 1 .. Newest, today : Retention .. LastDay,
           from : 0 .. Newest, next : 0 .. LastDay, heard : [Dates -> 0 .. Volume]]

\* Every variable keeps its type; in particular no request asks for a day that has not begun or
\* that is out of the window.
TypeOK ==
    /\ day \in Retention .. LastDay /\ hour \in 0 .. Volume
    /\ installed \in 1 .. Newest /\ watching \in BOOLEAN
    /\ schema \in 0 .. Newest + 1
    /\ holder \in Procs \union {Nobody}
    /\ pc \in [Procs -> {"idle", "lock", "look"} \union Working]
    /\ mem \in [Procs -> Memory]
    /\ seen \in [Dates -> 0 .. Volume]
    /\ watermark \in {Never} \union Dates /\ begun \in {Never} \union Dates
    /\ reported \subseteq Dates
    /\ faults \in 0 .. MaxFaults

\* At most one command that writes is past the lock, whoever crashed before it, and a command
\* that lost leaves without having touched anything (lock.py 28-35, run.py 176).
OneAtATime ==
    \A p \in Procs :
        pc[p] \in Working /\ mem[p].job # "status" => holder = p

\* "Everything through this date has been observed" (discover.py 279-285, repo.py 461-468): of
\* every day the watermark has passed, each publication was observed by a sweep, or the gap
\* alarm has called the day unobserved.  Neither a monitor, nor a sweep that died, nor one that
\* read the clock long before it got the lock may break it; a day is whole only when it is over.
WatermarkIsTrue ==
    \A d \in Dates : begun # Never /\ begun <= d /\ d < watermark =>
        seen[d] = Volume \/ d \in reported

\* Nobody works on a schema older than its build's, whoever else was migrating (db.py 189-209).
SchemaIsApplied ==
    \A p \in Procs : pc[p] \in Working \ {"open", "version"} =>
        schema # NoManifest /\ schema >= mem[p].build

\* Nothing is missed in silence (repo.py 463-467): again and again there comes a time when every
\* day since the first full sweep is observed whole or reported by the alarm, however long the
\* sweeps have failed, the monitor has run alone, or the watch list was empty.
GapsAreNoticed ==
    []<>(\A d \in Dates : begun # Never /\ begun <= d /\ d < day =>
            seen[d] = Volume \/ d \in reported)
=============================================================================
