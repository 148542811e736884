--------------------------- MODULE WatcherHistory ---------------------------
(***************************************************************************)
(* Watcher with a history variable, for what its own state no longer       *)
(* tells: which recorded files refused to be unlinked when flags were last *)
(* enacted.  The code does not read it, and it restricts no step.          *)
(***************************************************************************)
EXTENDS WatcherProperties

VARIABLE refused   \* [document -> its recorded files that refused to go in the last enacting of flags]

allVars == <<vars, refused>>

\* Every step but the fetch forgets what refused to go before it.
Remember ==
    refused' = [d \in Docs |->
        IF step' \notin {step, "fetch"} THEN {}
        ELSE refused[d] \union (IF Head(d) THEN survivors' ELSE {})]

HistoryInit == Init /\ refused = [d \in Docs |-> {}]

HistorySpec == HistoryInit /\ [][Next /\ Remember]_allVars

(***************************************************************************)
(* By the time a run fetches, every flag it knows of has been enacted: of  *)
(* a withdrawn document nothing is recorded any more but files that the    *)
(* enacting of this very run tried to unlink and could not.  An earlier    *)
(* run that died between its merge and the enacting, or could not unlink   *)
(* part of a container, leaves it to this one (run.py 284-291,             *)
(* reconcile.py 112-133, 204-229).                                         *)
(***************************************************************************)
FlagsEnactedBeforeFetch ==
    step = "fetch" => \A d \in InState(Flagged) : rows[d] \subseteq refused[d]
=============================================================================
