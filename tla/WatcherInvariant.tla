-------------------------- MODULE WatcherInvariant --------------------------
(***************************************************************************)
(* The inductive invariant behind the safety theorems of WatcherProofs: at *)
(* every point of every command, which documents are in flight, what the   *)
(* loop has left to do, and what the document at its head looks like.      *)
(***************************************************************************)
EXTENDS WatcherProperties

\* Each point belongs to the steps that go through it.
AtItsPoint ==
    /\ at = "unlink" => step \in {"resolve", "enact", "enact_again"}
    /\ at = "charge" => step = "resolve"
    /\ at = "settle" => step \in {"resolve", "fetch"}
    /\ at \in {"condemn", "download", "clearing", "placed", "recorded"} => step = "fetch"
    /\ at = "forget" => step = "purge_rows"

\* Only the purge command goes to work without reconciling first.
PurgeSteps == {"purge_dirs", "purge_indexes", "purge_rows", "inbox"}
CommandSteps == cmd = "purge" => step \in {"idle"} \union PurgeSteps

\* Reconciling works through exactly the downloads in flight.
ResolvesInFlight == step = "resolve" => todo = InState({"downloading"})

\* A fetch has one download in flight, the head's, and everything behind it is queued.
FetchesInOrder ==
    step = "fetch" =>
        /\ \A d \in Docs : local[d] = "downloading" <=> at # "loop" /\ Head(d)
        /\ \A d \in todo : local[d] \in {"discovered", "downloading"}

\* Everywhere else a command that reconciled first has none.
NoneInFlight ==
    \/ step \in {"enact", "sweep", "merge", "enact_again"}
    \/ step \in PurgeSteps /\ cmd # "purge"
    \/ Finished /\ cmd # "purge"
    => InState({"downloading"}) = {}

\* The loops that unlink and forget do it to documents that are not available.
EnactsFlags == step \in {"enact", "enact_again"} => todo \subseteq InState(Flagged)
ForgetsPurged == at = "forget" => \A d \in todo : Oldest(d) => local[d] = "purged"

\* What is merged was listed.
MergesListed == step = "merge" => \A d \in todo : listing[d] \in SourceStatus

\* A placed delivery is on disk; a recorded one is on disk as recorded.
PlacedIsOnDisk ==
    /\ at \in {"placed", "recorded"} => landed \in Places
    /\ at \in {"placed", "recorded"} => \A d \in todo : Head(d) => FilesAt(landed) \subseteq disk[d]
    /\ at = "recorded" => \A d \in todo : Head(d) => rows[d] = FilesAt(landed) /\ altered[d] = {}

\* Purge takes the directories of expired days, by a clock that never runs ahead.
PurgesExpired ==
    /\ today <= day
    /\ step = "purge_dirs" => \A x \in dates : Expired(x, today)

Control == AtItsPoint /\ CommandSteps /\ MergesListed /\ PurgesExpired
Flight  == /\ OneInFlight /\ ResolvesInFlight /\ FetchesInOrder /\ NoneInFlight
           /\ EnactsFlags /\ ForgetsPurged
Files   == PlacedIsOnDisk /\ AvailableIsOnDisk

Inductive == TypeOK /\ Control /\ Flight /\ Files
=============================================================================
