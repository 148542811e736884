---------------------------- MODULE LocalStates ----------------------------
(***************************************************************************)
(* The states a document can be in, at the source and in this archive, and *)
(* the two pure rules over them: which local moves the manifest accepts    *)
(* and what one row of a sweep makes of the state it finds.                *)
(***************************************************************************)

\* A publication is not in any listing, or is listed with one of three statuses.
Unpublished == "unpublished"
SourceStatus == {"active", "inactive", "cancelled"}

\* Unknown stands for "the manifest has no row".
Unknown == "unknown"
LocalState == {"discovered", "downloading", "available", "skipped", "failed",
               "deactivated", "cancelled", "purged"}

Flagged == {"deactivated", "cancelled"}

\* Bug variant of Requeueable: a cancelled document can come back.
RequeueableCancelled == {"skipped", "deactivated", "cancelled"}
Requeueable == {"skipped", "deactivated"}

Transitions ==
    [discovered  |-> {"downloading", "skipped", "deactivated", "cancelled", "purged"},
     downloading |-> {"available", "failed", "discovered", "deactivated", "cancelled"},
     available   |-> {"deactivated", "cancelled", "purged"},
     skipped     |-> {"discovered", "deactivated", "cancelled", "purged"},
     failed      |-> {"discovered", "deactivated", "cancelled", "purged"},
     deactivated |-> {"discovered", "cancelled", "purged"},
     cancelled   |-> {"purged"},
     purged      |-> {}]

\* Manifest.documents.transition accepts the move (staying put is always legal).
Legal(from, to) == to = from \/ to \in Transitions[from]

FlagFor == [inactive |-> "deactivated", cancelled |-> "cancelled"]

(***************************************************************************)
(* What merging an active row leaves: a first sighting is queued or        *)
(* skipped, a requeueable document the criteria want goes back to the      *)
(* queue, a queued one they no longer want leaves it.                      *)
(***************************************************************************)
MergeActive(current, wanted) ==
    CASE current = Unknown -> IF wanted THEN "discovered" ELSE "skipped"
      [] wanted /\ current \in Requeueable -> "discovered"
      [] ~wanted /\ current = "discovered" -> "skipped"
      [] OTHER -> current

\* A flag on a document never held creates nothing; an illegal one is logged and dropped.
MergeFlagged(current, flag) ==
    IF current # Unknown /\ Legal(current, flag) THEN flag ELSE current

Merge(current, status, wanted) ==
    IF status = "active" THEN MergeActive(current, wanted)
                         ELSE MergeFlagged(current, FlagFor[status])

\* Bug variant of IndexEntry: a superseded document is reported too.
IndexEntryNoisy == [s \in LocalState \union {Unknown} |->
                      CASE s = "available" -> "link"
                        [] s \in Flagged \union {"failed"} -> s
                        [] OTHER -> "absent"]

\* What a day's index says of a document in each state.
IndexEntry == [s \in LocalState \union {Unknown} |->
                 CASE s = "available" -> "link"
                   [] s \in {"cancelled", "failed"} -> s
                   [] OTHER -> "absent"]
=============================================================================
