------------------------- MODULE WatcherProperties -------------------------
(***************************************************************************)
(* What the watcher's commands promise of the manifest and the archive.    *)
(* Some properties name the kinds of fault they are promised under; a      *)
(* fault that is not among Faults does not happen in the instance.         *)
(***************************************************************************)
EXTENDS Watcher

(***************************************************************************)
(* A document the manifest calls available has recorded files, and every   *)
(* one of them is on disk with the recorded bytes - whatever crashed,      *)
(* failed or was retried - until its day ages out and purge takes the      *)
(* directory before it marks the row.                                      *)
(***************************************************************************)
AvailableIsOnDisk ==
    \A d \in Docs : local[d] = "available" =>
        \/ rows[d] # {} /\ Intact(d)
        \/ Expired(DeliveredOn[d], day)

(***************************************************************************)
(* Downloads are one at a time, across crashes and restarts: no command    *)
(* starts a download while an interrupted one is unresolved.               *)
(***************************************************************************)
OneInFlight ==
    \A d, e \in InState({"downloading"}) : d = e

(***************************************************************************)
(* Every move the commands ask of the manifest is one it accepts, and no   *)
(* document enters it but queued or skipped: DocumentStore.transition      *)
(* refuses any other with an error that reconcile and fetch leave uncaught *)
(* (repo.py 273-276), and a run that met one would die on it every time.   *)
(***************************************************************************)
MovesAreLegal ==
    [][\A d \in Docs : local'[d] # local[d] =>
        IF local[d] = Unknown THEN local'[d] \in {"discovered", "skipped"}
                              ELSE Legal(local[d], local'[d])]_vars

(***************************************************************************)
(* Files of an available document leave the disk only because its day left *)
(* the retention window: flags are written before they are enacted, and a  *)
(* download never touches what is already archived.                        *)
(***************************************************************************)
OnlyPurgeTakesAvailable ==
    [][\A d \in Docs : local[d] = "available" /\ ~(disk[d] \subseteq disk'[d])
           => Expired(DeliveredOn[d], day)]_vars

(***************************************************************************)
(* After a run that went the whole way, a document the archive calls       *)
(* cancelled or deactivated has no file in it.                             *)
(***************************************************************************)
Finished == step = "idle" /\ last = "completed"

WithdrawnIsGone ==
    Finished /\ cmd \in {"run", "monitor"} => \A d \in InState(Flagged) : disk[d] = {}

(***************************************************************************)
(* After a command that went the whole way, the indexes of the retention   *)
(* window say of every document what the manifest says, every link leads   *)
(* to intact files, and purging took the expired indexes with their days.  *)
(***************************************************************************)
IndexedTruly(d) ==
    /\ InWindow(DeliveredOn[d], today, Retention) =>
           /\ shown[d] = IndexEntry[local[d]]
           /\ shown[d] = "link" => rows[d] # {} /\ Intact(d)
    /\ cmd # "reconcile" /\ Expired(DeliveredOn[d], today) => shown[d] = "absent"

IndexTellsTruth ==
    Finished /\ "index" \notin Faults => \A d \in Docs : IndexedTruly(d)

(***************************************************************************)
(* After a purge that went the whole way, a day older than the retention   *)
(* window has no file and no live row, unless its directory refused to     *)
(* go.  Only the purge command, which does not reconcile first, may come   *)
(* across an interrupted download and leave its row.                       *)
(***************************************************************************)
AgedOutIsGone ==
    Finished /\ cmd # "reconcile" =>
        \A d \in Docs : Expired(DeliveredOn[d], today) =>
            \/ /\ disk[d] = {}
               /\ local[d] \in {Unknown, "purged"} \union
                              (IF cmd = "purge" THEN {"downloading"} ELSE {})
            \/ "rmtree" \in Faults /\ faults > 0

(***************************************************************************)
(* A purged document has forgotten the files it had, once a purge has run  *)
(* to its end.                                                             *)
(***************************************************************************)
PurgedForgetsFiles ==
    Finished /\ cmd # "reconcile" => \A d \in InState({"purged"}) : rows[d] = {}

(***************************************************************************)
(* A document in the queue has budget left: one that spent it does not     *)
(* rejoin the queue when the sweep sees it again (config.py 122-127).      *)
(* That much holds where the source takes no withdrawal back: one that     *)
(* failed, was demoted and is listed as active again is queued whatever it *)
(* has spent (discover.py 217-221), against what config.py says.           *)
(***************************************************************************)
QueuedHasBudget ==
    \A d \in InState({"discovered"}) : failures[d] < MaxAttempts

(***************************************************************************)
(* What refuses the run or the archive (captcha, request budget, a full    *)
(* disk, a listing that fails) is never charged to a document.             *)
(***************************************************************************)
RefusalsAreFree ==
    Faults \intersect {"crash", "document", "contract"} = {} =>
        \A d \in Docs : failures[d] = 0 /\ local[d] # "failed"

(***************************************************************************)
(* An available document holds a whole delivery, never part of one: what   *)
(* is interrupted is not taken for finished (reconcile.py 140-170).  That  *)
(* holds where no unlink is refused or no withdrawal taken back: both, and *)
(* the row of the refused file passes for the rows of the next download.   *)
(***************************************************************************)
AvailableIsWhole ==
    \A d \in InState({"available"}) : \E p \in Places : FilesAt(p) \subseteq rows[d]

(***************************************************************************)
(* Reconciling leaves nothing half-done: between it and the fetch no       *)
(* download is in flight, and when the command itself finishes none is.    *)
(***************************************************************************)
NothingLeftInFlight ==
    step \in {"enact", "sweep", "merge", "enact_again"} \/ (Finished /\ cmd # "purge")
        => InState({"downloading"}) = {}

(***************************************************************************)
(* A publication the schedule's window covers is eventually archived, or   *)
(* given up on its own budget, unless it is withdrawn or ages out first.   *)
(***************************************************************************)
PublicationIsArchived ==
    \A d \in Docs :
        source[d] = "active" /\ InWindow(DeliveredOn[d], day, Discovery)
            ~> \/ local[d] \in {"available", "failed", "cancelled", "purged"}
               \/ source[d] # "active"
               \/ ~InWindow(DeliveredOn[d], day, Discovery)

(***************************************************************************)
(* A withdrawal is eventually enacted: every file recorded of the document *)
(* leaves, unlinks that fail being retried by later runs, unless the       *)
(* source takes the withdrawal back or the day ages out.  Of a file no row *)
(* knows nothing is said (reconcile.py 220: removal goes by the rows).     *)
(***************************************************************************)
WithdrawalIsEnacted ==
    \A d \in Docs : \A f \in Places \X Members :
        local[d] = "available" /\ source[d] \in {"inactive", "cancelled"} /\ f \in rows[d]
            ~> \/ f \notin disk[d]
               \/ source[d] = "active"
               \/ ~InWindow(DeliveredOn[d], day, Discovery)

(***************************************************************************)
(* A day that aged out eventually leaves the disk and the manifest's live  *)
(* rows, directories that refuse to go being retried by later runs.        *)
(***************************************************************************)
AgedOutLeaves ==
    \A d \in Docs :
        Expired(DeliveredOn[d], day) ~> disk[d] = {} /\ local[d] \in {Unknown, "purged"}

(***************************************************************************)
(* The commands implement the shelf: a document is held when the manifest  *)
(* calls it available, and its copy is what the recorded files describe.   *)
(***************************************************************************)
OnShelf ==
    [s \in LocalState \union {Unknown} |->
        CASE s = "available" -> "held"
          [] s = "deactivated" -> "demoted"
          [] s = "cancelled" -> "cancelled"
          [] s = "purged" -> "retired"
          [] OTHER -> "absent"]

ShelfOf == INSTANCE Shelf WITH
    shelf  <- [d \in Docs |-> OnShelf[local[d]]],
    copies <- {d \in Docs : rows[d] # {} /\ Intact(d)}

ImplementsShelf == ShelfOf!ShelfSpec

=============================================================================
