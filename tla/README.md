# co-docs-watcher in TLA+

A formal model of co-docs-watcher: a scheduled program that watches the documents a market
regulator publishes, downloads those of a list of companies into a dated directory tree, keeps a
manifest of them in SQLite, and writes one index per day. This directory holds the modules, the
TLC configurations that check them on small instances, and proofs TLAPS checks for every value of
the constants. Paths below are relative to `src/` of this repository's package
(`src/src/co_docs_watcher/`), unless they say otherwise.

## 1. Inventory

### What the system is

The manifest (SQLite) and the archive (a directory tree) share no transaction. A *command* is one
process that starts from cron or from a shell, takes an exclusive `flock`, works through a fixed
pipeline and exits. It can die between any two durable writes, and the next command starts from
whatever the two stores say. The source may refuse the run, publish, supersede or cancel documents
at any time; the operator edits the watch list while commands run; the calendar moves.

| component | state it keeps | operations | talks to |
|---|---|---|---|
| Run pipeline (`run.py`, `cli.py`) | where the command is; the day and windows it read; its watch list | `run`, `run --monitor`, `reconcile`, `purge` | all below, by calls |
| Manifest (`manifest/repo.py`, `db.py`) | `documents.local_state`, `document_files`, `attempts`, `sync_state` | `insert`, `transition` (guarded by `TRANSITIONS`), `replace`/`forget` files, `record` attempt, queries | SQLite, one transaction each |
| Discovery (`pipeline/discover.py`) | the collected listing; the watermark | sweep one request per day, filter, merge row by row | source, manifest |
| Reconciliation (`pipeline/reconcile.py`) | - | resolve interrupted downloads, enact flags, empty staging | manifest, disk |
| Fetch (`pipeline/fetch.py`) | staging directory, the name picked for the delivery | download, place by one rename, record, mark | source, disk, manifest |
| Purge (`pipeline/purge.py`) | dates that refused to go | directories, then indexes, then rows | disk, manifest |
| Inbox (`pipeline/inbox.py`) | one index file per day | rewrite the window's indexes | manifest, disk |
| Clock and windows (`clock.py`) | - | `window_ending`, `is_expired` | read once per command |
| Run lock (`lock.py`) | `flock` | acquire without waiting, release; the kernel releases on death | every command but `add`, `rm`, `status`, `doctor` |
| Watch list (`scope/`) | one YAML file, its digest at load, one `.part` | load, add, rm, settle prefixes | a human editor, `add`, a run |
| FCA registry (`cvm/`) | the cached registry, one `.part` | refresh if stale, load, look up | `add`, `doctor`, a run; no lock |
| Container (`docker/`) | - | fires both profiles for ever; a refused lock is a success | starts the commands |
| RAD client (`rad/client.py`) | requests made, time of the last one | GET with interval, retries, budget, captcha detection | every request of a run |
| RAD download (`rad/download.py`, `reading_pdf.py`) | the walk of the generator's pages | download, unwrap, ask for a reading copy | client |
| Configuration, errors, text, modes, logging | - | pure or output only | - |

### Which behaviours are hard

* **Crashes** between two writes that share no transaction: rename / file rows / state in fetch;
  unlink / forget / charge / settle in reconcile; directory / index / row / file rows in purge.
* **Partial failure**: one file of several refuses to be unlinked; `rmtree` takes part of a
  directory; hashing fails after the rename; the source refuses the run halfway.
* **Ordering**: flags before fetch, purge before inbox, files before rows.
* **Staleness**: the index of a day against the manifest and the disk; rows recorded by an earlier
  download of the same document; a prefix that changed between two downloads.
* **Retries** against a lifetime budget, and refusals that must not be charged to it.
* **Interleaving**: a second command while one runs; two writers of one `.part`; a human editor;
  a `status` of a newer build that migrates under a run; documents that compete for one name.
* **Debris**: what an attempt left in its staging tree, and what it left under a name in the
  archive, are met by the next attempt of the same document and by other documents.
* **Boundaries**: retention counts today; a container name that is taken; the request budget.

`PROJECT.json` lists each at its line, with the properties that cover it, or why none does.

### What makes each component correct

* Manifest and archive together: what is called available is there, whole, and leaves only with
  its expired day; what is withdrawn or expired leaves, eventually and in the same run.
* Reconciliation: no download stays in flight; recovery never mistakes a part for the whole.
* Discovery: no document of a window is lost; a flag is applied or refused by one table.
* Fetch: one at a time; charged exactly for the document's own failures.
* Inbox: after a command that went the whole way, every index of the window tells the truth.
* Placement: what is placed is the delivery and nothing else, and nobody removes another's files.
* Lock: commands do not overlap. Watermark: every day behind it was observed, or called
  unobserved. Schema: nobody works on one older than the build's.
* Watch list: a save writes its own change only. Client: at most the budget, never sooner than the
  interval. Registry cache: what is cached is whole, and no answer from it ages.

## 2. Modules

| module | models | lines |
|---|---|---|
| `LocalStates` | the two state enumerations, `TRANSITIONS`, the merge rule of one listing row, what an index says of a state | `models.py`, `repo.py`, `discover.py`, `inbox.py` |
| `WatcherState` | constants and their assumption, variables, windows, queues, the program counter, types | `clock.py`, `config.py`, `repo.py`, `fetch.py` |
| `Watcher` | every step of the four commands, the source, the calendar, crashes and failures | `run.py`, `cli.py`, `pipeline/*` |
| `WatcherProperties` | invariants, action and liveness properties, the refinement mapping | - |
| `WatcherHistory` | `Watcher` with a history: which recorded files refused to go; the property that reads it | - |
| `Shelf` | the abstract archive: what is promised about each document | - |
| `MCWatcher`, `MCHistory` | instances for TLC of `Watcher` and of `WatcherHistory` | - |
| `WatcherInvariant` | the inductive invariant | - |
| `WatcherProofs`, `PromiseProofs` | the proofs: the control of the commands; what they promise on top of it, and the refinement | - |
| `RadClient` | the transport: interval, budget, retries, backoff, verdicts | `rad/client.py` |
| `RadSource` | a run's use of it: listing, downloads, the walk for a reading copy; extends `RadClient` | `rad/listing.py`, `rad/download.py`, `rad/reading_pdf.py`, `run.py` |
| `RadProperties`, `RadProofs`, `MCRad` | properties, proofs, instance | - |
| `PartFile` | replacing a file through a fixed `.part`, with several processes at it | `scope/store.py`, `cvm/cache.py` |
| `WatchListStore` | `add`, `rm`, a run and an editor at `companies.yaml`; extends `PartFile` | `scope/`, `run.py`, `cli.py` |
| `PartFileProofs` | lemmas about a `.part` whose process is alone with it, shared by the next two | - |
| `WatchListProperties`, `WatchListProofs`, `MCWatchList` | properties, proofs, instance | - |
| `RegistryCache` | refresh and load of the two yearly packages by several commands at once, without a lock; extends `PartFile` | `cvm/cache.py`, `cvm/registry.py` |
| `RegistryProperties`, `RegistryProofs`, `MCRegistry` | properties, proofs, instance | - |
| `Host` | the scheduler and an operator at one lock and one manifest: windows, sweep by days, gap alarm, watermark, migrations | `lock.py`, `manifest/db.py`, `discover.py`, `config.py`, `clock.py`, `docker/` |
| `HostProperties`, `HostProofs`, `MCHost` | properties, proofs, instance | - |
| `Placement` | staging trees, the names a delivery may take, who owns them, the rename and the rows, reconcile's side of it | `pipeline/fetch.py`, `pipeline/reconcile.py`, `rad/download.py` |
| `PlacementProperties`, `PlacementProofs`, `MCPlacement` | properties, proofs, instance | - |

### State and actions against the code

* `local[d]` is `documents.local_state`, or `Unknown` when there is no row; `rows[d]` the recorded
  `document_files`; `failures[d]` the number of FAILURE attempts, which is all any step reads of
  the attempts table. `disk[d]` is the set of files of `d` on disk and `altered[d]` those of the
  recorded ones whose hash no longer matches; `shown[d]` is what the index of its day says of it.
* `step` is the pipeline step and `at` the point inside the handling of the document at the head
  of the current loop; `todo` and `dates` are what the loop has left. `todo` is a set walked in
  the order the query returns (`Head` for `in_state`, most recent first; `Oldest` for
  `delivered_before`), because the order is fixed by the documents themselves.
* Each action is one durable write, with every check the code makes before it: a SQLite
  transaction, a rename, an unlink. `rmtree` is one action per file (`RemoveFile`, `ClearTarget`)
  and a last one for the directory, so that a crash or an error may fall inside it.
* `Crash` is a process death, or an exception no one catches, at any point of a command. The
  kernel releases the lock; `Finish` forgets everything that was only in memory.
* `ClearTarget` is optional before `Place` only where the code's is: a container's target is
  removed if it exists, and `Place` of a container requires it gone. A single file's rename
  replaces its target.
* `Place(d, p, same)`: whether a second download gives the same bytes is a choice, because the
  reading copies of a structured package carry the instant they were generated.
* `IndexRefused` is inbox's isolated failure of one day; `UnlinkFails`, `RemoveDirectoryFails`,
  `ArchiveFails`, `DownloadFails`, `ContractBroken`, `FetchBudget`, `FetchCaptcha`,
  `SweepInterrupted` and `SweepCaptcha` are the code's other exception arms, one each.

**RadClient and RadSource.** `line` is where the operation in flight is, or the verdict it ended
with: the exceptions of `errors.py`, by what the callers do with them. `Send` is `_request` from
the gate to the exchange, `Answer`, `BackOff` and `GiveUp` its outcomes under `_with_retries`.
`now` counts the sleeps the code asks for and the time the source takes. `asked` says which
operation it is; `fate[d]` what became of each document. What an answer holds is a choice of the
action (`Deliver`, `StartWalk`, `DownloadFails` and `DownloadDiverges` all follow a good answer);
what the code does about it is not. The walk's pages follow each other by `Following`; `_read_out`
is `Examined`, `ReadOut`, `Continue` and `WalkExhausted`. `since` and `before` are read by the
properties only. A document that the budget, the captcha or an uncaught exception takes out of the
run's hands stays `pending`.

**PartFile and WatchListStore.** `file` and `part` are what lies under the two names; `hand[p]` is
where the file process `p` has open is by now, because a rename moves the file and not the name: a
process can go on writing into a list another one has just put in place. `mem[p]` is what a command
has in memory. `Guard`, `Conflict` and `GuardFails` are the comparison of `save`: the file is what
was loaded, is something else, or cannot be read. In the last case `add` and `rm` end and a run goes
on with the list it has settled, whatever is on disk by then (`unread`). `OpenPart`, `WritePart` and
`Replace` the three system calls after it, `SaveFails` their `except OSError`, which unlinks
whatever `.part` is there. `Edit` is the operator's editor, at any moment. A run ends in `monitor`,
with the companies it settled on, or reloaded after a conflict. `recent`, who was on the list since
a process last read it, and `overlapped` are history, read by the properties only.

**RegistryCache.** The same three system calls as the watch list's, over one place per year. A
package is its *edition*, 1, 2, ... as the CVM republishes it; `Filed[y][e]` are the companies in
it, and a later edition holds at least those of an earlier one. `age[y]` is what `_is_fresh` reads
from the file's time: a write through the `.part` resets it and a rename carries the time of the
last write. `got` is what `load` has for each year, `Answer` the merge of `merge_registries`.
`ParserDies` is `zlib.error`, which neither caller catches. `mornings`, `floor` and `overlapped`
are history, read by the properties only.

**Host.** One process per possible command. `mem[p].today` is read before the lock is asked for,
as `cli.py` does; `Acquire` and `Refused` are the non-blocking `flock`, which `Leave` and `Crash`
give back. `Open`, `UpToDate`, `TooNew`, `Migrate` and `MigrateTwice` are `open_manifest`: the
version is read (`mem.from`) outside the transaction that applies the next one, and whoever comes
second finds the tables there. `Ask` is one request of the sweep, from today backwards; `Merge`,
`Alarm` and `Mark` are the rest of `discover`, each a write or a decision of its own. `status`
takes no lock. `Width`, `Discovery` and `Monitor` are the windows with the defaults of
`config.py`. What is recorded of a day is how many of its publications were observed.

**Placement.** A name is a candidate directory of a container or the file of a standalone filing.
`held[n]` are the files under it with the document each came from, which the code does not know
and `OthersUntouched` is about; the code's own test is `Usable`, by the imposed name inside.
`staging[d]` is `.tmp/<document>`. `Tidy`, `ClearStaging` and `Discard` are the three cleanups of
it, each with its `...Stuck` twin, since each is logged and passed over when it fails; a tree that
survives all three is *soiled*, a history the property about the content of a delivery reads.
`Receive` and `Extract` write the new content into the tree, `Leftover` is a generated copy whose
name carries another instant. `Unlink` removes recorded *paths*, whoever's file is there.

### What is abstracted

In the `Watcher`, a delivery is a set of `Members` that lands under one of the `Places` (company
directory and name); a prefix that changes, and a container name that is taken, are two places.
Which names those are, and the staging tree, are `Placement`'s. A document's delivery date never
changes. SUCCESS attempts are left out: nothing reads them. One listing is one look at the source
(`Sweep`), since no step of the pipeline reads the source between two requests of it; the requests
day by day, the lock, the watermark and the schema are `Host`'s, where a document is no more than
one of its day's publications. Only process death is modelled, not power loss: the code claims no
more.

In `Watcher` and `Placement` a directory is there while it holds a file. One that was emptied by a
removal that died before its `rmdir` still exists, and `candidate.exists()` (`fetch.py:390`) skips
its name, while `Usable` offers it. In `Watcher`, where the place is a choice among the usable ones,
that adds choices and takes none away. In `Placement`, where the first usable name is taken, a
document takes that name instead of the next one; that it stands under a later name with an earlier
one free is reached there too, when the document that had the earlier one is withdrawn.

In `Placement` the retry budget is a free choice and there is no purge, in `RegistryCache` a load
lasts less than a day and the year does not turn, in `Host` the steps of a run that follow the
sweep are one (`Rest`).

In `RadSource` the generator's position is not counted: an answer advances or stalls. Failures of
the archive are the Watcher's. In `WatchListStore` the registry holds still, an entry either
agrees with it or has drifted, and one company stands for all: no command looks at two of them
together.

`MCWatcher` constrains the world to move only between commands (`WorldMovesWhenIdle`): the source
is read by `Sweep` alone and the clock at the start of a command (and by `ReconcileDone`, for the
reconcile command's inbox), so a change at another moment leads to no other content of the
manifest or the archive than the same change made before the next command. The one-document
instances drop the constraint and let the world move at any moment, and the proofs are about
`Spec`, without it.

## 3. Runs

| run | instance | shows |
|---|---|---|
| `WatcherCrash` | one delivery of two files, two places, withdrawals final; crashes, failed and divergent downloads, disk errors before and after the rename, refused files and directories | what is available is on disk and whole; reconciling is complete; aged-out days leave; what is queued has budget left; a run that fetches has enacted every flag, its own sweep's and those of runs that died; only purge takes what is available |
| `WatcherRefusals` | two documents, a watch list and criteria that come and go, captcha, budget, listing errors, disk errors | refusals are not charged; a finished run has enacted every withdrawal; purged documents forget their files |
| `WatcherLiveness` | one delivery of two files, withdrawals taken back, fairness; crashes, failed and divergent downloads, hashes, unlinks, directories and indexes that fail, a burnt-out budget | publications are archived or given up, withdrawals enacted, expired days removed; the manifest refuses no move that is asked of it; the commands implement `Shelf` |
| `RadSource` | two days, two documents, two retries, a budget one document can nearly exhaust | the pace, the patience, the budget, the cost of one document; the network work ends |
| `WatchList` | two commands at once, an editor with two edits, crashes, failed writes | the list stays whole and a save minimal while saves do not overlap; a run works with a list that was there since it last could read it |
| `Registry` | two commands at once, two years of two companies, the current one empty at first; crashes, failed, refused and damaged downloads, failed writes | while no two stores of a year overlap: what is cached is whole, no company's answer ages, a refresh makes it current |
| `Host` | a scheduler that sweeps, an operator who monitors, tidies up and looks; three days to pass, one upgrade, one fault | one command writes at a time, a schema is applied once, the watermark tells the truth, gaps are noticed in the end |
| `Placement` | two documents of one category, day and version; three crashes, disk errors or staging trees that refuse to go | a document is recorded only under names it may choose; what is placed is the delivery, nobody takes another's files, the staging root empties |
| `ViolationOrphan` | one crash | finding 1 |
| `ViolationCorruptPackage` | one command, a package damaged inside a member | finding 2 |
| `ViolationForeignFile` | two documents, a refused unlink and a failed rename | finding 3 |
| `ViolationBudget` | one document, two failed downloads, a withdrawal taken back | finding 4 |

**Bounds.** `LastDay = 2` with `Retention = 2`: a document delivered on day 0 is in the window for
two days and ages out on day 2, while one of day 1 does not. Two documents on two dates
(`WatcherRefusals`) exercise queue order, one-date-at-a-time purging and interference between
documents. One document with two members and two places (`WatcherCrash`) exercises every split of
one delivery and its return under another name, with a fault of any kind at any point: documents
that compete for one name are `Placement`'s, and the theorems of section 5 are for any number of
them, crashes included. `MaxAttempts = 2` has a first failure that requeues and a second that gives
up. `MaxFaults` is 2 or 3: the deepest known scenarios need a fault in the middle of recovering from
another, or three charges against a budget of two. Withdrawals are final in `WatcherCrash`, because
`QueuedHasBudget` and `AvailableIsWhole` need it (findings); the other runs take them back.
`FailureBound` stops the source from taking withdrawals back for ever. `Discovery` equals
`Retention` and `Monitor` is one day, so that a day exists only the full sweep covers.

`RadSource` has two retries, so that the second backoff differs from the first; one continuation,
so that the fuse and what it lets through differ; and a budget of 28 requests against the 24 one
document can cost, so that a document may burn out the budget, the one behind it may, or none.
Answers take no time: a slower source only adds to the clock, and the proof of `Paced` is for any
duration. `CHECK_DEADLOCK FALSE` because a run ends. `WatchList` has two processes, which may each
run one command after another without end: one that overlaps another, and one that finds what a
crashed one left. The same holds of `Registry`, whose two processes are interchangeable (symmetry
is sound: no temporal property is checked there); `MaxAge = 1` has a day on which a package is
still used and one on which it is not, and an edition that answers nobody lets the previous year
answer alone.

`Host` has `Retention = 2`, `MonitorDays = 1` and `Volume = 1`: the monitor never sees yesterday,
the sweep does, and a day is published in its second half, so that a sweep of the same day may
come too early. `LastDay = 4` is far enough for the watermark to fall out of the window and the
alarm to speak; `Newest = 2` has an old build and a new one, and the first opening of a manifest
that is not there. Faults are one crash, failed request or emptied watch list: the proofs of its
safety properties are for any number.

`Placement` has two documents that share both of the shared names and `Tries = 3`, so that the
third name is the first that carries the identity (the code has 52). Three faults are what a tree
needs to survive all three cleanups. `RemoveRefused`, a recorded file that refuses to be unlinked,
is in `SpecRefusing` only, since it breaks `OthersUntouched` (finding 3); the proof says that
no other fault of the model does.

**Fairness.** The `FairSpec` of `Watcher` has `WF(Progress)`: a command that can take a step that
is not a failure eventually does, since nothing in a command waits for another process. It has
`SF(Begin("run"))`: the schedule (`docker/entrypoint.sh`, `README.md`: a frequent `run --monitor`
and one daily `run`) fires the full sweep for ever, and a firing that finds the lock taken leaves
(`lock.py`), so that only being free infinitely often can be assumed of the lock, not being free
continuously. Nothing obliges the source, the clock or an operator to act, and faults are bounded,
not fair. The `FairSpec` of `RadSource` has `WF(Next)`: a run has one thread, every sleep in it is
finite and every exchange has a timeout (`client.py:172`). The `FairSpec` of `Host` has
`WF(Proceed(p))` for each process (a command that was started goes on), `WF(FillList)` (an operator
who emptied the watch list fills it again) and, for a sweep that fires while the lock is free and
one that then gets it, `SF`: the same schedule, the same refusal. The `FairSpec` of `Placement` has
`WF(Progress)`: commands are started again and come to an end; what a sweep wants is a choice of
each. `RegistryCache` and `WatchListStore` promise nothing in time and have no fairness.

Each property of a passing run has, in `PROJECT.json`, a mutant: a plausible bug in one step, under
which TLC finds the property violated.

## 4. Findings

Disagreements between what the code says of itself and what it does, each the trace of a run:

1. **A crash between the rename and the file rows orphans a file** (`ViolationOrphan`,
   `fetch.py:154`): a withdrawal that follows removes only recorded files, and the orphan stays
   until its whole day ages out.
2. **A damaged package ends the command** (`ViolationCorruptPackage`, `cvm/registry.py:186`): a
   member whose compressed stream is damaged raises `zlib.error`, which `rad/download.py` catches
   and `parse_package` does not, although `cache.py:13-14` and `163-164` promise to go on with the
   previous snapshot. One that is read from the cache ends every command until it is old enough to
   be downloaded again.
3. **A withdrawal can remove another document's file** (`ViolationForeignFile`,
   `reconcile.py:220`): rows kept for files that refused to be unlinked outlive the directory,
   when a later placement of their document removed it and failed before its rename. Another
   document takes the freed name, and the next removal by path takes its file.
4. **A spent document rejoins the queue** (`ViolationBudget`, `discover.py:219`): one that failed
   for good, is demoted and is listed as active again is queued whatever it has spent, although
   `config.py:122-127` has it that it does not rejoin. `QueuedHasBudget` passes, and is proved,
   where no withdrawal is taken back.

More were met and have no run of their own.

* *Run.* A captcha in the sweep or in the fetch ends the run before purge and inbox, although
  `run.py:14-17` says that a refusing source lets both run (`SweepCaptcha`, `FetchCaptcha`).
* *Retries.* A start that dies between the charge for an interrupted download and its transition
  (`reconcile.py:164-167`) leaves the same download to be charged again by the next, although
  `reconcile.py:16-17` calls everything there idempotent; `fetch.py:184-186` has the same gap.
* *Recovery.* A withdrawn document of which one file refused to be unlinked keeps the row of that
  file. When the withdrawal is taken back and the new download is interrupted before its rows are
  written, that row passes for them (`reconcile.py:155`) and a part is called available.
  `AvailableIsWhole` is checked where withdrawals are final, and proved where no unlink is refused.
  The files of that download no row knows stay when the document is withdrawn again:
  `WithdrawalIsEnacted` is about the recorded ones.
* *Purge.* The `purge` command does not reconcile first although `purge.py:133-134` says it ran,
  which is why `AgedOutIsGone` lets that command leave a `downloading` row. A crash between
  `purged` and the forgetting of its files (`purge.py:131`, `137`) leaves rows no later purge
  visits, which is why `PurgedForgetsFiles` is checked without crashes.
* *Watch list.* An edit that is saved between the comparison of the digests and the rename
  (`store.py:182`) is overwritten, although the file's own header says "never". Two saves that
  overlap share one `.part`, and can leave the list empty, mixed, or the other's. A run that cannot
  read the file to compare it goes on with the list it loaded, an edit since then or not, and warns
  that the list could not be written (`store.py:221-222`, `run.py:345-351`): `RunFollowsTheList` is
  about the list since the last successful read.
* *Reading copy.* The budget, a captcha or an uncaught error on a page of the walk discards the
  container already extracted, which `download.py:214-228` excludes: `WalkCostsNoDelivery` is
  about walks that leave the run going. `_read_out` (`reading_pdf.py:181`) makes
  `_MAX_CONTINUATIONS + 1` continuation reads where the comment at 103 allows
  `_MAX_CONTINUATIONS`, and never looks at the last answer (`WalkExhausted`); `DocumentCost` counts
  it. A generator whose answer is no mapping, or a menu whose `children` are no list
  (`reading_pdf.py:307`), raises what nothing catches (`WalkDies`).
* *Listing.* A day that fails drops the days already listed (`AskFails`, `AskEnds`), although
  `listing.py:33-35` has it that a run that dies partway has seen the days a reader waits for:
  nothing is merged before the last answer.
* *Watermark.* With none on record the alarm never speaks, however long the full sweep has not
  run: `WatermarkIsTrue` begins with the first. Where `[discovery] days` is less than `retention`
  no sweep ever sets one. The alarm counts days since the last *full* sweep, so it may call
  unobserved a day every monitor observed.
* *Schema.* `status` migrates, and takes no lock: a newer build's `status` changes the schema
  under a run of the older build. Of two first openings the slower gets a `sqlite3` error nothing
  catches (`MigrateTwice`).
* *Registry.* A package that is damaged but young is not downloaded again for `max_age` days: its
  year answers nothing meanwhile.
* *Placement.* A container whose directory carries a later name takes an earlier one when that is
  free by its next download, and the old directory stays beside it until the day ages out. Three
  cleanups of one staging tree that fail in a row let its content into the delivery, which is what
  `soiled` excludes from `PlacedIsDelivery`.

## 5. Proofs

`WatcherProofs` proves, for every set of documents, delivery dates, window sizes, attempts budget,
places, members, kinds and numbers of faults, from `ConstantsAssumption` alone (documents are
numbered, windows nest as `config.py` enforces, a delivery is not empty):

| theorem | says |
|---|---|
| `TypeCorrectness` | `Spec => []TypeOK` |
| `OneDownloadAtATime` | `Spec => []OneInFlight` |
| `AvailabilityIsTrue` | `Spec => []AvailableIsOnDisk` |
| `ReconciliationIsComplete` | `Spec => []NothingLeftInFlight` |
| `ArchiveIsKept` | `Spec => OnlyPurgeTakesAvailable` |
| `NoCommandRunsForEver` | `Rank`, in a well-founded order, goes down with every step of a command |

None of these is inductive alone. That what is available is on disk needs to know that the loops
which remove files only meet documents that are not available: in `resolve` the downloads in
flight, in `enact` the flagged ones, in `fetch` the one being downloaded, in `purge_dirs` those of
expired days. That in turn needs the contents of `todo` at each step to match the manifest, which
needs each point `at` to occur only in its steps, at most one document in flight, and a placed
delivery to be on disk until it is recorded. `Inductive` (`WatcherInvariant`) is exactly this, in
three groups: `Control` (points, windows, listed rows), `Flight` (who is downloading and what
the loop holds) and `Files` (disk against rows). `TypeStep`, `ControlStep`, `FlightStep` and
`FilesStep` show each group preserved, with one step per action; TLC checked `Inductive` first.

`NoCommandRunsForEver` is what of the end of a command needs no fairness, and the one theorem that
asks for finite sets of documents, places and members. `Rank` says what a command has left: its
steps, then the documents of the loop at hand, then the dates of the purge, then the points of one
document, then the files it has still to unlink. `CommandsAdvance` is that no step of a command
leaves them as they are (the source and the calendar may move meanwhile), `RankOrder` their
lexicographic order, which the library's theorems about numbers, finite subsets and pairs show
well founded. So a failure, a refusal or a document put back never makes a loop begin again. That
a command which can take a step takes it remains for `WatcherLiveness` to check.

`PromiseProofs` adds the rest, for every value of the constants too. Some of it the code only
promises as long as a kind of fault does not happen, and the theorem assumes exactly that:

| theorem | says | where |
|---|---|---|
| `PurgeIsThorough` | `Spec => []AgedOutIsGone` | always |
| `IndexesAreTrue` | `Spec => []IndexTellsTruth` | always |
| `FlagsComeFirst` | `HistorySpec => []FlagsEnactedBeforeFetch` | always |
| `WatcherImplementsShelf` | `Spec => ImplementsShelf` | always |
| `MovesAreAccepted` | `Spec => MovesAreLegal` | always |
| `SweepsAreMerged` | `Spec => SweepIsMerged` | always |
| `QueuesAreWorkedOff` | `Spec => []QueueIsWorkedOff`, which is itself about runs that were refused nothing | always |
| `AvailabilityIsWhole` | `Spec => []AvailableIsWhole` | no unlink is refused |
| `PurgingForgets` | `Spec => []PurgedForgetsFiles` | nothing dies |
| `QueueHasBudget` | `Spec => []QueuedHasBudget` | no withdrawal is taken back |
| `WithdrawalIsThorough` | `Spec => []WithdrawnIsGone` | nothing dies, no unlink is refused, what lands can be hashed |
| `RefusalsCostNothing` | `Spec => []RefusalsAreFree`, which is itself about runs where nothing dies and no document fails | no unlink is refused, what lands can be hashed |

Each promise is about the end of a command, or about one step of it, so its invariant (`Promises`,
on top of `Inductive`) says how far the command has come at each step on the way. A purge has
emptied the expired directories it does not have in `dates` any more, those that refused excepted
(`Emptied`); it has marked the rows it does not have in `todo` (`Marked`); the two give `AgedOut`
when it goes on to the inbox, and nothing before the next command undoes it. `Indexed` does the same
for the indexes, and needs that no step between their writing and the end moves the manifest; that a
link leads to intact files is `AvailableStays`, by the day the command read. `Enacted` follows the
flagged documents from the first enacting to the end of the run, across the merge that flags more.
`FlagsComeFirst` excuses a recorded file only if it refused to go in the enacting just before the
fetch, which `Refused` follows document by document over the history `WatcherHistory` keeps (its
`Remember` reads the steps of `Watcher` and restricts none). `HasBudget` needs `StaysWithdrawn`:
only a withdrawal that is taken back brings a document with a spent budget to the queue.
`WithdrawnIsGone` and `RefusalsAreFree` are about files the manifest may not know: `Tidy` says that
only the download at hand has any, which is what a crash between the rename and the rows, a hash
that fails or an unlink that is refused would break (finding 1), and from it every download finds a
free name (`Free`). The frame lemmas at the head of the module (`LocalMoves`, `RowsMove`,
`PointsAreLeft`, ...) say once which actions can touch what, so that the proof of each conjunct only
looks at those. TLC checked `Promises` on six instances first.

The refinement maps every step to one step of `Shelf` or to none: a step that moves a row moves no
copy (`LocalMovesAlone`) and is one of `TakeIn`, `Demote`, `Cancel`, `Reinstate` and `Retire` or
nothing (`MoveOnShelf`); a step that makes or loses a copy does so for one document and moves no
row (`CopiesMoveAlone`). `Retire` wants the copy gone, which is `Emptied` and `Marked` again.

`MovesAreAccepted` is why no command dies of an `IllegalTransitionError`: a loop asks for a move
from the state its documents were read in, and `Inductive` and `Promises` say that they are in it
still (`MoveIsLegal`), while the merge asks only for what the table of `LocalStates` has
(`MergeIsLegal`). `SweepIsMerged` and `QueueIsWorkedOff` are stated in this module, no run has
them; TLC agreed on the instances of the `Watcher` runs before they were proved. The first comes
down to `MergeIsIdempotent`, which is about the merge alone, and to the `todo` of the merge, which
holds whoever of the listing is not merged yet (`Merged`; `OutOfSweep` is how it begins). The second
needs that everyone queued is in the `todo` of the fetch as long as it is untried (`Worked`), and
that only a refusal puts a document back uncharged (`IntoQueue`, `FailuresGrow`); a run that met one
of `Refusals` may well leave documents untried.

Model-checked only: the liveness properties, since fairness is out of the prover's reach.

`RadProofs` proves, from `ClientAssumption` and `SourceAssumption` alone (numbers are what
`config.py` enforces), for every interval, cap, number of retries, backoff, duration of an answer,
window, queue and continuation fuse:

| theorem | says |
|---|---|
| `RequestsWithinCap` | `Spec => []TypeOK`, of which `made \in 0..MaxRequests` is the point |
| `PaceIsKept` | `Spec => []Paced` |
| `DocumentCostIsBounded` | `Spec => []DocumentCost` |
| `WalksKeepDeliveries` | `Spec => WalkCostsNoDelivery` |
| `FailureIsPatient` | `Spec => []Patient` |
| `RunIsFinite` | `Spec => [](Remaining \in Nat) /\ [][Remaining' < Remaining]_vars` |

The invariant counts: `Spaced` says when the last answer was in, without which nothing bounds the
clock at the next request; `Costed` charges the current document with `Retries + 1` requests for
each operation behind it (`Behind`) and with its attempts so far, which needs `InFlight` to know
that `continued` starts at zero. That a walk keeps its delivery needs the run to be going while an
operation is in flight. `Patient` is about the transport's verdict only, not the
`TransientSourceError` of an answer that arrived (`download.py:149`, `188`). It compares the time
slept with a sum of powers, so its proof needs what the two recursive functions answer:
`NatRecursion` shows that such an equation has the value its clauses say, by `NatSetInduction`
(induction over a set of numbers, from the library's well-foundedness of `<`, since its induction
theorems take an operator), and `SleepIsGeometric` and `WaitedAddsUp` are the two clauses. `Waiting`
then follows the retries of one request.

`RunIsFinite` counts the most requests, retries and steps the run may still take (`Remaining`), with
a document worth all the operations it may cost and an operation all its retries, and shows each
action worth at least one. `RunEnds`, which adds that a step that can be taken is taken, is a
matter of fairness and stays with TLC.

`HostProofs` proves, from `HostAssumption` alone (the windows nest as `config.py` enforces), for
every set of processes and whatever each is started with, every window, calendar, number of
publications and schemas, and any number of faults:

| theorem | says |
|---|---|
| `TypeCorrectness` | `Spec => []TypeOK`: no request asks for a day that is out of its window |
| `OneCommandAtATime` | `Spec => []OneAtATime` |
| `WatermarkTellsTheTruth` | `Spec => []WatermarkIsTrue` |
| `SchemaIsNeverOlder` | `Spec => []SchemaIsApplied` |
| `ArchiveIsKeptByTheLock` | `Spec => ArchiveIsTheHolders` |
| `NoCommandRunsForEver` | `Spec => [](\A p : StepsLeft(p) \in 0..LastDay + Newest + 8) /\ CommandsEnd` |

The watermark needs what a run that is about to move it knows. `Private` is what it knows by
itself: it read the clock before it listed anything, so the days before that were over and what it
heard of them is all there is. `Merged` is what it has put on record, and `Alarmed` what the alarm
has said of the days between the old watermark and its window: both survive the steps of all
others because a second writer would have to hold the lock (`OneAtATime`). A sweep that gets the
lock late moves the watermark back, or not as far as it could; never too far.

`ArchiveIsTheHolders` says what the lock is for, and what `Watcher` rests on when it gives the
commands one program counter: of two steps of a command past the lock the second finds the archive
as the first left it. `CommandsEnd` bounds what a process does by itself: days it has still to ask
for, and versions it may still bring the schema up to. Both are stated in `HostProofs`; TLC agreed
on the instance of `Host` first.

`PlacementProofs` proves, from `PlacementAssumption` alone, for any number of documents of one day
and of their versions, names and faults of the kinds in `Spec`:

| theorem | says |
|---|---|
| `TypeCorrectness` | `Spec => []TypeOK`: nothing is placed under the name it was generated with, a document is recorded only under names it may choose, and a filing's name holds nothing but its filing (`OwnNames`) |
| `NobodyTakesAnothersFiles` | `Spec => OthersUntouched` |
| `DeliveriesArePlacedWhole` | `Spec => []PlacedIsDelivery` |
| `WhatIsAvailableStands` | `Spec => []AvailableStands` |

Files leave the archive by path in reconcile and by directory in fetch, so the invariant says whose
they are (`Owners`): all the files under one name are one document's, and the names a document's
rows point to hold nobody else's. A placement keeps that only if no name some row points to is
free while one is chosen, which is `Standing`. That in turn holds because the rows whose files are
gone are dealt with before anything is fetched (`Flight`, `Forgotten`, `Gone`), and it is what
fails when an unlink is refused: `Spec` leaves that out, and finding 3 is the trace.
`StepsMoveTheirOwn` reads the property off the invariant.

`DeliveriesArePlacedWhole` needs `Whole` besides: of every document that is not soiled, what is
recorded is what the rows point to (`Recorded`), and the attempt at hand emptied its tree before it
asked the source and has put nothing into it but what was delivered (`OnItsWay`), up to the rename
and the rows.

`WhatIsAvailableStands` is the same without the exception: every recorded file of an available
document is in its place, soiled or not. It is what `Watcher` supposes where it gives each document
a place to itself, and holds because the delivery arrives complete whatever is beside it
(`Arriving`), and because no step touches a name that holds an available document's files
(`AvailableStaysStanding`, from `StepsMoveTheirOwn`). `AvailableStands` is stated in
`PlacementProofs`; TLC agreed on the instance of `Placement`, in which a soiled delivery does become
available.

`WatchListProofs` proves, from `StoreAssumption` alone, for every set of processes, companies and
edits, with crashes and failed writes anywhere:

| theorem | says |
|---|---|
| `TypeCorrectness` | `Spec => []TypeOK`: a list, nothing, an empty file or two lists in one |
| `ListIsKeptWhole` | `Spec => []ListIsWhole` |
| `SavesAreMinimal` | `Spec => SaveIsMinimal` |
| `RunsFollowTheList` | `Spec => []RunFollowsTheList` |

The properties speak of saves that do not overlap, so the invariant is about the time before two do
(`Calm`): then whoever is between `open` and `rename` is alone with the `.part`, which is blank
until it is written and holds what the save means to write afterwards. What it means to write is its
own change of what it loaded (`Intent`), which the guard has just seen on disk; for a run, that is
also whom it goes on to monitor. `Consulted` says where that list was seen: on disk since the file
was last read, be it by the load, the comparison or the reload. A read that fails at the comparison
forgets nothing, so that the list of the load is still among them (`GuardFails`). What a process
alone with a `.part` does to it is `PartFileProofs`, from which `RegistryProofs` starts too. That
one proves, from `CacheAssumption` alone, for every set of processes, companies, ages and editions:

| theorem | says |
|---|---|
| `TypeCorrectness` | `Spec => []TypeOK` |
| `CacheIsKeptWhole` | `Spec => []CacheIsWhole` |
| `AnswersAreKept` | `Spec => []AnswersNeverAge` |
| `RegistryIsKeptCurrent` | `Spec => []RegistryIsCurrent` |
| `SnapshotsOnlyGrow` | `Spec => CacheOnlyGrows` |
| `NoCommandRunsForEver` | `Spec => [](\A p : StepsLeft(p) \in 0..12) /\ CommandsEnd` |

While no two refreshes of a year overlap (`Calm`), what is cached only gets better: the years are
ordered by what was published, was published on the mornings behind and is cached (`Chronicle`), and
a payload was published after everything that was cached when it was requested (`Bought`). So what
a load has read, or will, is no worse than what was cached when it began (`Kept`), and no older than
the mornings allow (`Current`). That better editions give better answers is `BetterAnswers`, about
the merge of the two years. `CacheOnlyGrows` states the same of two consecutive steps: what is
cached is replaced by something newer, by the rename of a command that has it in hand, or stays.
`CommandsEnd` is that a load asks for each year once and waits for nobody.

Model-checked only: `GapsAreNoticed` and `DebrisLeaves`, under fairness.

## 6. Plan

All of what was planned is done: the modules of section 2 in their order, from the commands
(`Watcher`) outwards to what surrounds them (`RadSource`, `WatchListStore`, `RegistryCache`, `Host`,
`Placement`), and every safety property of every passing run is also a theorem. What could come next:

1. `Watcher` and `Placement` over one archive: the first has sets of files under names that are the
   document's own, the second the names and their owners for documents of one day. `OthersUntouched`
   and `WhatIsAvailableStands` are what makes the first sound; a refinement between the two would
   say so formally.
2. `Host` around `Watcher`: the lock is an assumption of the second (one program counter) and a
   theorem of the first, as is that the archive is the lock holder's (`ArchiveIsKeptByTheLock`);
   one state for both would say it once.

**Not modelled.** Ticker and company search (`cvm/ticker.py`, the lookups): pure functions of
parsed data. The RAD vocabulary: a table. Parsing of HTML, CSV, YAML and ZIP, permission bits, text
normalisation, logging, reports and the numbers of the exit codes: data or output, which no
property here tells apart. `list`, `resolve` and `doctor` only read, apart from the registry load
`doctor` shares with the others. The supervision of the scheduler by its container is left out:
that the profiles fire for ever is an assumption (`Fairness`).
