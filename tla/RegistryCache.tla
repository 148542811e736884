--------------------------- MODULE RegistryCache ---------------------------
(***************************************************************************)
(* The cache of the FCA packages: one file per year, the previous year as  *)
(* the base and the current one on top, which `add` and every run refresh  *)
(* when it is stale and `doctor` only reads.  Nothing locks it: `add` and  *)
(* `doctor` take no lock, so several commands may be inside it at once.    *)
(*                                                                         *)
(* Simplifications.  A package is its edition: the CVM republishes it, and *)
(* a later edition holds at least the companies of the one before.  Time   *)
(* is counted in days and only as ages, so that it never runs out.  A load *)
(* lasts less than a day, and the year does not turn.                      *)
(***************************************************************************)
EXTENDS PartFile, Naturals, Sequences

CONSTANTS
    Companies,
    MaxAge,         \* days a cached package is used untouched
    Filed           \* [year -> the companies in each of its editions]

Years == {1, 2}     \* the previous one and the current one
Editions == UNION {DOMAIN Filed[y] : y \in Years}
None == 0           \* no package: not published, not cached, not usable

ASSUME CacheAssumption ==
    /\ MaxAge \in Nat
    /\ Filed \in [Years -> Seq(SUBSET Companies)]
    /\ \A y \in Years : \A d, e \in DOMAIN Filed[y] : d <= e => Filed[y][d] \subseteq Filed[y][e]
    /\ Missing # Blank /\ {Missing, Blank, Torn} \intersect Editions = {}

VARIABLES
    cache,        \* each year's package, its .part, and who has what of it open
    age,          \* [year -> the days since its package was written]
    served,       \* [year -> the edition the CVM publishes now]
    pc, mem,      \* what each command does next, and what it has in memory
    mornings,     \* [year -> what was published at the start of today, of yesterday, ...]
    floor,        \* [command -> the best answer for each company in the cache when it began]
    overlapped    \* two commands have refreshed one year at once

historyVars == <<mornings, floor, overlapped>>    \* read by the properties only
vars == <<cache, age, served, pc, mem, historyVars>>

Old == MaxAge + 1    \* this old, and older
Ages == 0 .. Old

\* refresh: not the offline path.  year: the one at hand.  got: what each year answered.
\* payload: the package downloaded.  missed: a download failed, for another reason than 404.
\* blind: a cached package could not be read.
NoLoad == [refresh |-> FALSE, year |-> 1, got |-> [y \in Years |-> None], payload |-> None,
           missed |-> FALSE, blind |-> FALSE]

Whole(content) == content \notin {Missing, Blank, Torn}

Go(p, to) == pc' = [pc EXCEPT ![p] = to]

\* Both years read: the registries are merged.  The record `m` is what the command knows by now.
Answered(p, m, edition) ==
    /\ mem' = [mem EXCEPT ![p] = [m EXCEPT !.got[m.year] = edition,
                                           !.year = IF @ = 1 THEN 2 ELSE @, !.payload = None]]
    /\ Go(p, IF m.year = 1 THEN "check" ELSE "merged")

-----------------------------------------------------------------------------
(* What a registry answers.                                                *)

\* For one company: the year and the edition its record comes from.
Nobody == <<0, 0>>
AtLeast(a, b) == a[1] > b[1] \/ (a[1] = b[1] /\ a[2] >= b[2])

\* merge_registries, and Registry.by_cvm_code: the later year wins, company by company.
Answer(got, c) ==
    IF got[2] # None /\ c \in Filed[2][got[2]] THEN <<2, got[2]>>
    ELSE IF got[1] # None /\ c \in Filed[1][got[1]] THEN <<1, got[1]>> ELSE Nobody

\* Where no package holds anybody, load raises: there is no registry.
Refused(got) == \A y \in Years : got[y] = None \/ Filed[y][got[y]] = {}

Registry(got) == [c \in Companies |-> IF Refused(got) THEN Nobody ELSE Answer(got, c)]

-----------------------------------------------------------------------------
(* RegistryCache.load: one year, then the other.                           *)

\* A run and `add` refresh; `doctor` does not.
Begin(p) ==
    /\ pc[p] = "idle"
    /\ \E refresh \in BOOLEAN : mem' = [mem EXCEPT ![p] = [NoLoad EXCEPT !.refresh = refresh]]
    /\ Go(p, "check")
    /\ UNCHANGED <<cache, age>>

\* Bug variant of IsFresh: off by one.
IsFreshTooLong(y) == cache[y].file # Missing /\ age[y] <= MaxAge + 1

IsFresh(y) == cache[y].file # Missing /\ age[y] <= MaxAge

Check(p) ==
    /\ pc[p] = "check"
    /\ Go(p, IF mem[p].refresh /\ ~IsFresh(mem[p].year) THEN "download" ELSE "cached")
    /\ UNCHANGED <<cache, age, mem>>

\* Bug variant of ReadCached: what is cached is taken for a package.
ReadAnything(p) ==
    /\ pc[p] = "cached"
    /\ LET content == cache[mem[p].year].file
       IN  Answered(p, mem[p], IF content = Missing THEN None ELSE content)
    /\ UNCHANGED <<cache, age>>

\* What does not parse is as good as absent: it is one year of two.
ReadCached(p) ==
    /\ pc[p] = "cached"
    /\ LET content == cache[mem[p].year].file
       IN  Answered(p, mem[p], IF Whole(content) THEN content ELSE None)
    /\ UNCHANGED <<cache, age>>

\* The file cannot be read: again as good as absent.
ReadFails(p) ==
    /\ pc[p] = "cached" /\ cache[mem[p].year].file # Missing
    /\ Answered(p, [mem[p] EXCEPT !.blind = TRUE], None)
    /\ UNCHANGED <<cache, age>>

\* Not published.
Download404(p) ==
    /\ pc[p] = "download" /\ served[mem[p].year] = None
    /\ Go(p, "cached")
    /\ UNCHANGED <<cache, age, mem>>

\* Bug variant of DownloadFails: a corrupt payload is written before it is parsed.
DownloadFailsStored(p) ==
    /\ pc[p] = "download"
    /\ Go(p, "cached")
    /\ mem' = [mem EXCEPT ![p].missed = TRUE]
    /\ cache' = [cache EXCEPT ![mem[p].year].file = Torn]
    /\ age' = [age EXCEPT ![mem[p].year] = 0]

\* Bug variant of DownloadFails: a year that cannot be refreshed answers nothing.
DownloadFailsEmpty(p) ==
    /\ pc[p] = "download"
    /\ Answered(p, [mem[p] EXCEPT !.missed = TRUE], None)
    /\ UNCHANGED <<cache, age>>

\* Refused, cut off, over the cap, or not a package: whatever is cached is used.
DownloadFails(p) ==
    /\ pc[p] = "download"
    /\ Go(p, "cached")
    /\ mem' = [mem EXCEPT ![p].missed = TRUE]
    /\ UNCHANGED <<cache, age>>

Download(p) ==
    /\ pc[p] = "download" /\ served[mem[p].year] # None
    /\ Go(p, "open")
    /\ mem' = [mem EXCEPT ![p].payload = served[mem[p].year]]
    /\ UNCHANGED <<cache, age>>

\* parse_package lets zlib.error through, and a damaged package of either origin may raise it.
ParserDies(p) ==
    /\ \/ pc[p] = "download" /\ served[mem[p].year] # None
       \/ pc[p] = "cached" /\ cache[mem[p].year].file = Torn
    /\ Go(p, "dead")
    /\ UNCHANGED <<cache, age, mem>>

-----------------------------------------------------------------------------
(* RegistryCache._store, of a package already parsed.                      *)

OpenPart(p) ==
    /\ pc[p] = "open"
    /\ cache' = [cache EXCEPT ![mem[p].year] = Truncated(@, p)]
    /\ Go(p, "write")
    /\ UNCHANGED <<age, mem>>

WritePart(p) ==
    /\ pc[p] = "write"
    /\ LET y == mem[p].year
       IN  /\ \E at \in Written(cache[y], p, mem[p].payload) : cache' = [cache EXCEPT ![y] = at]
           /\ age' = IF cache[y].hand[p] = "file" THEN [age EXCEPT ![y] = 0] ELSE age
    /\ Go(p, "rename")
    /\ UNCHANGED mem

\* The time of the file is the time of the last write to the .part: today, since whoever renames
\* it has opened it today.
Replace(p) ==
    /\ pc[p] = "rename"
    /\ LET y == mem[p].year
       IN  /\ cache[y].part # Missing
           /\ cache' = [cache EXCEPT ![y] = Renamed(@)]
           /\ age' = [age EXCEPT ![y] = 0]
    /\ Answered(p, mem[p], mem[p].payload)

Storing == {"open", "write", "rename"}

\* Any of the three may fail, and the rename also because the .part is somebody else's by now
\* and gone: the package is used all the same.
StoreFails(p) ==
    /\ pc[p] \in Storing
    /\ cache' = [cache EXCEPT ![mem[p].year] = Discarded(@, p)]
    /\ Answered(p, mem[p], mem[p].payload)
    /\ UNCHANGED age

-----------------------------------------------------------------------------
(* The end of a command, and everyone else.                                *)

End(p) ==
    /\ pc[p] \in {"merged", "dead"}
    /\ Go(p, "idle") /\ mem' = [mem EXCEPT ![p] = NoLoad]
    /\ UNCHANGED <<cache, age>>

Crash(p) ==
    /\ pc[p] \notin {"idle", "merged", "dead"}
    /\ Go(p, "idle") /\ mem' = [mem EXCEPT ![p] = NoLoad]
    /\ cache' = [y \in Years |-> Closed(cache[y], p)]
    /\ UNCHANGED age

\* The CVM publishes a year for the first time, or again.
Publish ==
    /\ \E y \in Years :
        /\ served[y] < Len(Filed[y])
        /\ served' = [served EXCEPT ![y] = @ + 1]
    /\ UNCHANGED <<cache, age, pc, mem, historyVars>>

\* A day passes, between two loads.
NextDay ==
    /\ \A p \in Procs : pc[p] = "idle"
    /\ age' = [y \in Years |-> IF age[y] = Old THEN Old ELSE age[y] + 1]
    /\ mornings' = IF overlapped THEN mornings
                   ELSE [y \in Years |-> [d \in 0 .. MaxAge |->
                            IF d = 0 THEN served[y] ELSE mornings[y][d - 1]]]
    /\ UNCHANGED <<cache, served, pc, mem, floor, overlapped>>

-----------------------------------------------------------------------------
(* The specification.                                                      *)

\* What is in the cache, year by year, as far as it is whole.
Held == [y \in Years |-> IF Whole(cache[y].file) THEN cache[y].file ELSE None]

Ignorance == [c \in Companies |-> Nobody]
NoMornings == [y \in Years |-> [d \in 0 .. MaxAge |-> None]]

\* At work on a refresh of the year, from the request to the rename.
Refreshing(p, y) == mem[p].year = y /\ pc[p] \in Storing \union {"download"}

\* What the properties compare with, for as long as they do.
Remember ==
    /\ overlapped' = (overlapped \/ \E y \in Years, p, q \in Procs :
                                        p # q /\ Refreshing(p, y)' /\ Refreshing(q, y)')
    /\ floor' = [p \in Procs |->
           CASE overlapped' \/ pc'[p] = "idle"    -> Ignorance
             [] pc[p] = "idle" /\ pc'[p] # "idle" -> Registry(Held)
             [] OTHER                             -> floor[p]]
    /\ mornings' = IF overlapped' THEN NoMornings ELSE mornings
    /\ UNCHANGED served

Init ==
    /\ cache = [y \in Years |-> EmptyPlace]
    /\ age = [y \in Years |-> Old]
    /\ served = [y \in Years |-> None]
    /\ pc = [p \in Procs |-> "idle"]
    /\ mem = [p \in Procs |-> NoLoad]
    /\ mornings = NoMornings
    /\ floor = [p \in Procs |-> Ignorance]
    /\ overlapped = FALSE

Load(p) ==
    \/ Begin(p) \/ Check(p) \/ ReadCached(p) \/ ReadFails(p)
    \/ Download404(p) \/ DownloadFails(p) \/ Download(p) \/ ParserDies(p)
    \/ OpenPart(p) \/ WritePart(p) \/ Replace(p) \/ StoreFails(p)
    \/ End(p) \/ Crash(p)

Command == (\E p \in Procs : Load(p)) /\ Remember

Next == Command \/ Publish \/ NextDay

Spec == Init /\ [][Next]_vars
=============================================================================
