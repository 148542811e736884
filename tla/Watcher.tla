------------------------------ MODULE Watcher ------------------------------
(***************************************************************************)
(* The watcher's commands over a manifest (SQLite) and an archive (a       *)
(* directory tree) that share no transaction.  `run` is reconcile ->       *)
(* sweep -> merge -> enact flags -> fetch -> purge -> inbox; `reconcile`   *)
(* and `purge` are the two steps on demand, each followed by the inbox.    *)
(*                                                                         *)
(* Every durable write - one SQLite transaction, one rename, one unlink -  *)
(* is a step of its own, and the process may die between any two of them   *)
(* (Crash).  The lock admits one command at a time, so there is one        *)
(* program counter: `step` is the pipeline step, `at` the point inside the *)
(* handling of the document at the head of `todo`.                         *)
(*                                                                         *)
(* Simplifications.  A delivery is a set of files under one place (the     *)
(* company directory and name it lands under); a document's delivery date  *)
(* never changes; the staging tree is left out, since only the download    *)
(* that fills it ever reads it; a directory emptied and not removed counts *)
(* as free (the code skips its name: fewer are usable there); SUCCESS      *)
(* attempts are left out, since nothing reads them.                        *)
(*                                                                         *)
(* A definition called a bug variant is the step beside it changed the way *)
(* a plausible bug would change it.  No specification uses it: a property  *)
(* that survived the substitution would say nothing about the code.        *)
(***************************************************************************)
EXTENDS WatcherState

-----------------------------------------------------------------------------
(* The calendar and the source.                                            *)

NextDay ==
    /\ day < LastDay
    /\ day' = day + 1
    /\ UNCHANGED <<source, manifest, archive, given, counter, scratch, last, faults>>

Publish(d) ==
    /\ source[d] = Unpublished /\ DeliveredOn[d] <= day
    /\ source' = [source EXCEPT ![d] = "active"]
    /\ UNCHANGED <<day, manifest, archive, given, counter, scratch, last, faults>>

Restate(d, s) ==
    /\ source[d] \in SourceStatus \ {s}
    /\ s = "active" => Reinstates /\ failures[d] < FailureBound
    /\ source' = [source EXCEPT ![d] = s]
    /\ UNCHANGED <<day, manifest, archive, given, counter, scratch, last, faults>>

-----------------------------------------------------------------------------
(* Starting a command: the lock is free, the clock is read once.           *)

Begin(c) ==
    /\ step = "idle"
    /\ cmd' = c /\ today' = day
    /\ wanted' \in Criteria
    /\ IF c = "purge" THEN EnterPurge(day)
                      ELSE Enter("resolve", InState({"downloading"}), {})
    /\ UNCHANGED <<world, manifest, archive, scratch, last, faults>>

(***************************************************************************)
(* The process dies, or an exception nothing catches ends it: the manifest *)
(* and the archive keep what was written, and the lock goes with it.       *)
(***************************************************************************)
Crash ==
    /\ step # "idle"
    /\ Fault("crash")
    /\ Finish("crashed")
    /\ UNCHANGED <<world, manifest, archive, given>>

-----------------------------------------------------------------------------
(* Removing the files a document left behind (reconcile, enact_flags).     *)

Unlink(d, f) ==
    /\ at = "unlink" /\ Head(d)
    /\ f \in (rows[d] \intersect disk[d]) \ survivors
    /\ disk' = [disk EXCEPT ![d] = @ \ {f}]
    /\ UNCHANGED <<world, manifest, altered, shown, given, counter, scratch, last, faults>>

UnlinkFails(d, f) ==
    /\ at = "unlink" /\ Head(d)
    /\ f \in (rows[d] \intersect disk[d]) \ survivors
    /\ Fault("unlink")
    /\ survivors' = survivors \union {f}
    /\ UNCHANGED <<world, manifest, archive, given, counter, listing, landed, kept, last>>

\* Bug variant of ForgetRemoved: every row is forgotten, whether or not its file left the disk.
ForgetEverything(d) ==
    /\ at = "unlink" /\ Head(d)
    /\ rows[d] \intersect disk[d] \subseteq survivors
    /\ rows' = [rows EXCEPT ![d] = {}]
    /\ altered' = [altered EXCEPT ![d] = {}]
    /\ survivors' = {}
    /\ IF step = "resolve" THEN At("charge") ELSE Done(d)
    /\ UNCHANGED <<world, local, failures, disk, shown, given, listing, landed, kept, last, faults>>

\* Only what left the disk is forgotten; then the flag is enacted, or the download charged.
ForgetRemoved(d) ==
    /\ at = "unlink" /\ Head(d)
    /\ rows[d] \intersect disk[d] \subseteq survivors
    /\ rows' = [rows EXCEPT ![d] = survivors]
    /\ altered' = [altered EXCEPT ![d] = @ \intersect survivors]
    /\ survivors' = {}
    /\ IF step = "resolve" THEN At("charge") ELSE Done(d)
    /\ UNCHANGED <<world, local, failures, disk, shown, given, listing, landed, kept, last, faults>>

-----------------------------------------------------------------------------
(* reconcile: what the last run left in flight.                            *)

\* Bug variant of ResolveRecovered: recovery trusts the recorded rows without looking at the disk.
RecoverUnchecked(d) ==
    /\ On("resolve", "loop") /\ Head(d)
    /\ rows[d] # {}
    /\ local' = [local EXCEPT ![d] = "available"]
    /\ Done(d)
    /\ UNCHANGED <<world, rows, failures, archive, given, scratch, last, faults>>

ResolveRecovered(d) ==
    /\ On("resolve", "loop") /\ Head(d)
    /\ rows[d] # {} /\ Intact(d)
    /\ local' = [local EXCEPT ![d] = "available"]
    /\ Done(d)
    /\ UNCHANGED <<world, rows, failures, archive, given, scratch, last, faults>>

\* Bug variant of ResolveInterrupted: an interrupted download with nothing recorded has nothing to resolve.
ResolveOnlyRecorded(d) ==
    /\ On("resolve", "loop") /\ Head(d)
    /\ ~(rows[d] # {} /\ Intact(d))
    /\ IF rows[d] = {} THEN Done(d) ELSE At("unlink")
    /\ UNCHANGED <<world, manifest, archive, given, scratch, last, faults>>

ResolveInterrupted(d) ==
    /\ On("resolve", "loop") /\ Head(d)
    /\ ~(rows[d] # {} /\ Intact(d))
    /\ At("unlink")
    /\ UNCHANGED <<world, manifest, archive, given, scratch, last, faults>>

ChargeInterrupted(d) ==
    /\ On("resolve", "charge") /\ Head(d)
    /\ failures' = [failures EXCEPT ![d] = @ + 1]
    /\ At("settle")
    /\ UNCHANGED <<world, local, rows, archive, given, scratch, last, faults>>

\* Bug variant of Settle: given up one failure too late.
SettleLate(d) ==
    /\ at = "settle" /\ Head(d)
    /\ local' = [local EXCEPT ![d] =
                   IF failures[d] > MaxAttempts THEN "failed" ELSE "discovered"]
    /\ Done(d)
    /\ UNCHANGED <<world, rows, failures, archive, given, scratch, last, faults>>

\* After a failure is on record: given up once the lifetime count reaches the budget.
Settle(d) ==
    /\ at = "settle" /\ Head(d)
    /\ local' = [local EXCEPT ![d] =
                   IF failures[d] >= MaxAttempts THEN "failed" ELSE "discovered"]
    /\ Done(d)
    /\ UNCHANGED <<world, rows, failures, archive, given, scratch, last, faults>>

ResolveDone ==
    /\ On("resolve", "loop") /\ todo = {}
    /\ Enter("enact", InState(Flagged), {})
    /\ UNCHANGED <<world, manifest, archive, given, scratch, last, faults>>

-----------------------------------------------------------------------------
(* enact_flags: at the start of a run, and again right after the sweep.    *)

EnactFlag(d) ==
    /\ step \in {"enact", "enact_again"} /\ at = "loop" /\ Head(d)
    /\ IF rows[d] = {} THEN Done(d) ELSE At("unlink")
    /\ UNCHANGED <<world, manifest, archive, given, scratch, last, faults>>

EnactDone ==
    /\ step \in {"enact", "enact_again"} /\ at = "loop" /\ todo = {}
    /\ cmd # "reconcile"
    /\ IF step = "enact" THEN Enter("sweep", {}, {})
                         ELSE Enter("fetch", InState({"discovered"}), {})
    /\ UNCHANGED <<world, manifest, archive, given, scratch, last, faults>>

\* The reconcile command reads the clock only now, for its inbox.
ReconcileDone ==
    /\ On("enact", "loop") /\ todo = {}
    /\ cmd = "reconcile"
    /\ today' = day
    /\ EnterInbox(day)
    /\ UNCHANGED <<world, manifest, archive, cmd, wanted, scratch, last, faults>>

-----------------------------------------------------------------------------
(* discover: collect the whole listing, then merge it row by row.          *)

Sweep ==
    /\ On("sweep", "loop")
    /\ \E watched \in WatchLists :
       LET seen == {d \in watched : /\ source[d] # Unpublished
                                    /\ InWindow(DeliveredOn[d], today, SweepDays)}
       IN  /\ listing' = [d \in Docs |-> IF d \in seen THEN source[d] ELSE "unlisted"]
           /\ Enter("merge", seen, {})
    /\ UNCHANGED <<world, manifest, archive, given, survivors, landed, kept, last, faults>>

\* The budget burnt out, or every attempt failed: no merge, no fetch, but purge and inbox.
SweepInterrupted ==
    /\ On("sweep", "loop")
    /\ Fault("budget") \/ Fault("transient")
    /\ EnterPurge(today)
    /\ UNCHANGED <<world, manifest, archive, given, scratch, last>>

\* Neither the captcha nor a listing this build cannot read is caught: the run ends here.
SweepCaptcha ==
    /\ On("sweep", "loop")
    /\ Fault("captcha")
    /\ Finish("captcha")
    /\ UNCHANGED <<world, manifest, archive, given>>

MergeRow(d) ==
    /\ On("merge", "loop") /\ Head(d)
    /\ local' = [local EXCEPT ![d] = Merge(@, listing[d], d \in wanted)]
    /\ Done(d)
    /\ UNCHANGED <<world, rows, failures, archive, given, scratch, last, faults>>

\* Bug variant of MergeDone: flags wait for the next run.
MergeDoneUnenacted ==
    /\ On("merge", "loop") /\ todo = {}
    /\ Enter("fetch", InState({"discovered"}), {})
    /\ listing' = Unlisted
    /\ UNCHANGED <<world, manifest, archive, given, survivors, landed, kept, last, faults>>

MergeDone ==
    /\ On("merge", "loop") /\ todo = {}
    /\ Enter("enact_again", InState(Flagged), {})
    /\ listing' = Unlisted
    /\ UNCHANGED <<world, manifest, archive, given, survivors, landed, kept, last, faults>>

-----------------------------------------------------------------------------
(* fetch_pending: one document at a time, in queue order.                  *)

StartDownload(d) ==
    /\ On("fetch", "loop") /\ Head(d)
    /\ local' = [local EXCEPT ![d] = "downloading"]
    /\ At("download")
    /\ UNCHANGED <<world, rows, failures, archive, given, scratch, last, faults>>

(***************************************************************************)
(* A container's own directory, left by an earlier delivery, is removed    *)
(* before the rename; rmtree takes its files one by one.                   *)
(***************************************************************************)
ClearTarget(d, f) ==
    /\ step = "fetch" /\ at \in {"download", "clearing"} /\ Head(d)
    /\ Members # {Imposed}
    /\ f \in disk[d]
    /\ IF at = "download" THEN Usable(d, f[1]) ELSE landed = f[1]
    /\ disk' = [disk EXCEPT ![d] = @ \ {f}]
    /\ landed' = f[1]
    /\ At("clearing")
    /\ UNCHANGED <<world, manifest, altered, shown, given, listing, survivors, kept, last, faults>>

\* Bug variant of Place: the rename lands and the rows are left for later.
PlaceUnrecorded(d, p, same) ==
    /\ On("fetch", "download") /\ Head(d)
    /\ disk' = [disk EXCEPT ![d] = @ \union FilesAt(p)]
    /\ landed' = p
    /\ At("recorded")
    /\ UNCHANGED <<world, manifest, altered, shown, given, listing, survivors, kept, last, faults>>

(***************************************************************************)
(* One rename publishes the delivery.  A second download of the same       *)
(* document may or may not produce the same bytes.                         *)
(***************************************************************************)
Place(d, p, same) ==
    /\ step = "fetch" /\ Head(d)
    /\ CASE at = "download" -> Usable(d, p)
         [] at = "clearing" -> p = landed
         [] OTHER           -> FALSE
    /\ Members = {Imposed} \/ FilesAt(p) \intersect disk[d] = {}
    /\ disk' = [disk EXCEPT ![d] = @ \union FilesAt(p)]
    /\ altered' = [altered EXCEPT ![d] =
                     IF same THEN @ \ FilesAt(p) ELSE @ \union (FilesAt(p) \intersect rows[d])]
    /\ landed' = p
    /\ At("placed")
    /\ UNCHANGED <<world, manifest, shown, given, listing, survivors, kept, last, faults>>

\* Bug variant of RecordFiles: the rows of a delivery are written one transaction each.
RecordOneByOne(d) ==
    /\ On("fetch", "placed") /\ Head(d)
    /\ \E f \in FilesAt(landed) :
           rows' = [rows EXCEPT ![d] = IF @ \subseteq FilesAt(landed) THEN @ \union {f} ELSE {f}]
    /\ altered' = [altered EXCEPT ![d] = {}]
    /\ IF rows'[d] = FilesAt(landed) THEN At("recorded") ELSE At("placed")
    /\ UNCHANGED <<world, local, failures, disk, shown, given, scratch, last, faults>>

RecordFiles(d) ==
    /\ On("fetch", "placed") /\ Head(d)
    /\ rows' = [rows EXCEPT ![d] = FilesAt(landed)]
    /\ altered' = [altered EXCEPT ![d] = {}]
    /\ At("recorded")
    /\ UNCHANGED <<world, local, failures, disk, shown, given, scratch, last, faults>>

MarkAvailable(d) ==
    /\ On("fetch", "recorded") /\ Head(d)
    /\ local' = [local EXCEPT ![d] = "available"]
    /\ landed' = NoPlace
    /\ Done(d)
    /\ UNCHANGED <<world, rows, failures, archive, given, listing, survivors, kept, last, faults>>

\* Bug variant of ArchiveFails: a full disk spends the document's budget.
ArchiveFailsCharged(d) ==
    /\ step = "fetch" /\ at \in {"download", "clearing"} /\ Head(d)
    /\ Fault("oserror")
    /\ failures' = [failures EXCEPT ![d] = @ + 1]
    /\ landed' = NoPlace
    /\ At("settle")
    /\ UNCHANGED <<world, local, rows, archive, given, listing, survivors, kept, last>>

\* The archive refused, before the rename or hashing what landed: requeued, not charged.
ArchiveFails(d) ==
    /\ step = "fetch" /\ Head(d)
    /\ \/ at \in {"download", "clearing"} /\ Fault("oserror")
       \/ at = "placed" /\ Fault("hash")
    /\ local' = [local EXCEPT ![d] = "discovered"]
    /\ landed' = NoPlace
    /\ Done(d)
    /\ UNCHANGED <<world, rows, failures, archive, given, listing, survivors, kept, last>>

\* The document could not be fetched or stored: charged, then settled against the budget.
DownloadFails(d) ==
    /\ On("fetch", "download") /\ Head(d)
    /\ Fault("document")
    /\ failures' = [failures EXCEPT ![d] = @ + 1]
    /\ At("settle")
    /\ UNCHANGED <<world, local, rows, archive, given, scratch, last>>

\* Every name is taken by something not recognizably this document's: refused and charged.
NowhereToLand(d) ==
    /\ On("fetch", "download") /\ Head(d)
    /\ \A p \in Places : ~Usable(d, p)
    /\ failures' = [failures EXCEPT ![d] = @ + 1]
    /\ At("settle")
    /\ UNCHANGED <<world, local, rows, archive, given, scratch, last, faults>>

\* A delivery this build cannot store: charged, and failed whatever the budget says.
ContractBroken(d) ==
    /\ On("fetch", "download") /\ Head(d)
    /\ Fault("contract")
    /\ failures' = [failures EXCEPT ![d] = @ + 1]
    /\ At("condemn")
    /\ UNCHANGED <<world, local, rows, archive, given, scratch, last>>

Condemn(d) ==
    /\ On("fetch", "condemn") /\ Head(d)
    /\ local' = [local EXCEPT ![d] = "failed"]
    /\ Done(d)
    /\ UNCHANGED <<world, rows, failures, archive, given, scratch, last, faults>>

\* The source refused the run: the document is put back, and the budget ends the fetch ...
FetchBudget(d) ==
    /\ On("fetch", "download") /\ Head(d)
    /\ Fault("budget")
    /\ local' = [local EXCEPT ![d] = "discovered"]
    /\ EnterPurge(today)
    /\ UNCHANGED <<world, rows, failures, archive, given, scratch, last>>

\* ... while the captcha ends the process, through purge and inbox.
FetchCaptcha(d) ==
    /\ On("fetch", "download") /\ Head(d)
    /\ Fault("captcha")
    /\ local' = [local EXCEPT ![d] = "discovered"]
    /\ Finish("captcha")
    /\ UNCHANGED <<world, rows, failures, archive, given>>

FetchDone ==
    /\ On("fetch", "loop") /\ todo = {}
    /\ EnterPurge(today)
    /\ UNCHANGED <<world, manifest, archive, given, scratch, last, faults>>

-----------------------------------------------------------------------------
(* purge: date directories, then indexes, then rows.                       *)

RemoveFile(x, d, f) ==
    /\ On("purge_dirs", "loop") /\ Earliest(x)
    /\ DeliveredOn[d] = x /\ f \in disk[d]
    /\ disk' = [disk EXCEPT ![d] = @ \ {f}]
    /\ UNCHANGED <<world, manifest, altered, shown, given, counter, scratch, last, faults>>

RemoveDirectory(x) ==
    /\ On("purge_dirs", "loop") /\ Earliest(x)
    /\ \A d \in Docs : DeliveredOn[d] = x => disk[d] = {}
    /\ dates' = dates \ {x}
    /\ UNCHANGED <<world, manifest, archive, given, step, at, todo, scratch, last, faults>>

RemoveDirectoryFails(x) ==
    /\ On("purge_dirs", "loop") /\ Earliest(x)
    /\ Fault("rmtree")
    /\ dates' = dates \ {x}
    /\ kept' = kept \union {x}
    /\ UNCHANGED <<world, manifest, archive, given, step, at, todo, listing, survivors, landed, last>>

\* Bug variant of PurgeDirsDone: purging takes the directories and leaves their indexes.
PurgeDirsDoneIndexesKept ==
    /\ On("purge_dirs", "loop") /\ dates = {}
    /\ Enter("purge_indexes", {}, {})
    /\ UNCHANGED <<world, manifest, archive, given, scratch, last, faults>>

PurgeDirsDone ==
    /\ On("purge_dirs", "loop") /\ dates = {}
    /\ Enter("purge_indexes", {}, DatesOf({d \in Docs :
                          shown[d] # "absent" /\ Expired(DeliveredOn[d], today)}))
    /\ UNCHANGED <<world, manifest, archive, given, scratch, last, faults>>

RemoveIndex(x) ==
    /\ On("purge_indexes", "loop") /\ Earliest(x)
    /\ shown' = [d \in Docs |-> IF DeliveredOn[d] = x THEN "absent" ELSE shown[d]]
    /\ dates' = dates \ {x}
    /\ UNCHANGED <<world, manifest, disk, altered, given, step, at, todo, scratch, last, faults>>

\* Bug variant of PurgeIndexesDone: only what was archived is marked purged.
PurgeOnlyAvailable ==
    /\ On("purge_indexes", "loop") /\ dates = {}
    /\ Enter("purge_rows", {d \in InState({"available"}) :
                              Expired(DeliveredOn[d], today) /\ DeliveredOn[d] \notin kept}, {})
    /\ UNCHANGED <<world, manifest, archive, given, scratch, last, faults>>

PurgeIndexesDone ==
    /\ On("purge_indexes", "loop") /\ dates = {}
    /\ Enter("purge_rows", {d \in InState(LocalState \ {"purged"}) :
                              Expired(DeliveredOn[d], today) /\ DeliveredOn[d] \notin kept}, {})
    /\ UNCHANGED <<world, manifest, archive, given, scratch, last, faults>>

\* Bug variant of PurgeRow: the row is marked purged and its files are not forgotten.
PurgeRowRemembered(d) ==
    /\ On("purge_rows", "loop") /\ Oldest(d)
    /\ local' = [local EXCEPT ![d] = IF Legal(@, "purged") THEN "purged" ELSE @]
    /\ Done(d)
    /\ UNCHANGED <<world, rows, failures, archive, given, scratch, last, faults>>

PurgeRow(d) ==
    /\ On("purge_rows", "loop") /\ Oldest(d)
    /\ IF Legal(local[d], "purged")
         THEN local' = [local EXCEPT ![d] = "purged"] /\ At("forget")
         ELSE UNCHANGED local /\ Done(d)
    /\ UNCHANGED <<world, rows, failures, archive, given, scratch, last, faults>>

ForgetPurged(d) ==
    /\ On("purge_rows", "forget") /\ Oldest(d)
    /\ rows' = [rows EXCEPT ![d] = {}]
    /\ altered' = [altered EXCEPT ![d] = {}]
    /\ Done(d)
    /\ UNCHANGED <<world, local, failures, disk, shown, given, scratch, last, faults>>

PurgeDone ==
    /\ On("purge_rows", "loop") /\ todo = {}
    /\ EnterInbox(today)
    /\ kept' = {}
    /\ UNCHANGED <<world, manifest, archive, given, listing, survivors, landed, last, faults>>

-----------------------------------------------------------------------------
(* inbox: every day of the retention window, rewritten from the manifest.  *)

WriteIndex(x) ==
    /\ On("inbox", "loop") /\ Earliest(x)
    /\ shown' = [d \in Docs |-> IF DeliveredOn[d] = x THEN IndexEntry[local[d]] ELSE shown[d]]
    /\ dates' = dates \ {x}
    /\ UNCHANGED <<world, manifest, disk, altered, given, step, at, todo, scratch, last, faults>>

IndexRefused(x) ==
    /\ On("inbox", "loop") /\ Earliest(x)
    /\ Fault("index")
    /\ dates' = dates \ {x}
    /\ UNCHANGED <<world, manifest, archive, given, step, at, todo, scratch, last>>

InboxDone ==
    /\ On("inbox", "loop") /\ dates = {}
    /\ Finish("completed")
    /\ UNCHANGED <<world, manifest, archive, given, faults>>

-----------------------------------------------------------------------------
(* The specification.                                                      *)

Init ==
    /\ day = 0 /\ source = [d \in Docs |-> Unpublished]
    /\ local = [d \in Docs |-> Unknown]
    /\ rows = [d \in Docs |-> {}]
    /\ failures = [d \in Docs |-> 0]
    /\ disk = [d \in Docs |-> {}]
    /\ altered = [d \in Docs |-> {}]
    /\ shown = [d \in Docs |-> "absent"]
    /\ cmd = "run" /\ today = 0 /\ wanted = {}
    /\ step = "idle" /\ at = "loop" /\ todo = {} /\ dates = {}
    /\ listing = Unlisted /\ survivors = {} /\ landed = NoPlace /\ kept = {}
    /\ last = "none" /\ faults = 0

Environment ==
    \/ NextDay
    \/ \E d \in Docs : Publish(d)
    \/ \E d \in Docs, s \in SourceStatus : Restate(d, s)

Reconcile(d) ==
    \/ ResolveRecovered(d) \/ ResolveInterrupted(d) \/ ChargeInterrupted(d)
    \/ EnactFlag(d) \/ ForgetRemoved(d) \/ Settle(d)
    \/ \E f \in AllFiles : Unlink(d, f)

Fetch(d) ==
    \/ StartDownload(d) \/ RecordFiles(d) \/ MarkAvailable(d)
    \/ NowhereToLand(d) \/ Condemn(d)
    \/ \E f \in AllFiles : ClearTarget(d, f)
    \/ \E p \in Places, same \in BOOLEAN : Place(d, p, same)

PurgeDate(x) ==
    \/ RemoveDirectory(x) \/ RemoveIndex(x) \/ WriteIndex(x)
    \/ \E d \in Docs : \E f \in disk[d] : RemoveFile(x, d, f)

Boundary ==
    \/ ResolveDone \/ EnactDone \/ ReconcileDone \/ Sweep \/ MergeDone \/ FetchDone
    \/ PurgeDirsDone \/ PurgeIndexesDone \/ PurgeDone \/ InboxDone

Progress ==
    \/ \E d \in Docs : \/ Reconcile(d) \/ MergeRow(d) \/ Fetch(d)
                       \/ PurgeRow(d) \/ ForgetPurged(d)
    \/ \E x \in dates : PurgeDate(x)
    \/ Boundary

Failure ==
    \/ Crash \/ SweepInterrupted \/ SweepCaptcha
    \/ \E d \in Docs : \/ ArchiveFails(d) \/ DownloadFails(d) \/ ContractBroken(d)
                       \/ FetchBudget(d) \/ FetchCaptcha(d)
                       \/ \E f \in AllFiles : UnlinkFails(d, f)
    \/ \E x \in dates : RemoveDirectoryFails(x) \/ IndexRefused(x)

Next ==
    \/ Environment
    \/ \E c \in Commands : Begin(c)
    \/ Progress
    \/ Failure

Spec == Init /\ [][Next]_vars

(***************************************************************************)
(* A started command keeps running, and the schedule keeps firing the full *)
(* sweep.  Nothing obliges the source, the clock or an operator to act.    *)
(***************************************************************************)
FairSpec == Spec /\ WF_vars(Progress) /\ SF_vars(Begin("run"))

=============================================================================
