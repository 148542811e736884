---------------------------- MODULE WatcherState ----------------------------
(***************************************************************************)
(* The state of the watcher's commands (module Watcher): the source, the   *)
(* manifest, the archive, the running command and its place in the         *)
(* pipeline, and the operators every step is written with.                 *)
(***************************************************************************)
EXTENDS Naturals, FiniteSets, LocalStates

CONSTANTS
    Docs,          \* documents: (document_id, version) pairs, in id order
    DeliveredOn,   \* DeliveredOn[d]: the delivery date, a day number
    Retention,     \* retention_days
    Discovery,     \* discovery.days: what the full sweep asks for
    Monitor,       \* discovery.monitor_days
    MaxAttempts,   \* max_document_attempts
    Places,        \* names a delivery can land under (a prefix may be renamed)
    Members,       \* the files of one delivery
    Imposed,       \* the name that carries the document's identity: a member, or no file
    Criteria,      \* the sets of wanted documents a run may be given
    WatchLists,    \* the sets of documents whose company a run may find watched
    Reinstates,    \* whether the source ever takes a withdrawal back
    Faults,        \* kinds of fault that may happen
    MaxFaults,     \* bound: faults and crashes in a behaviour
    LastDay        \* bound: the last day modelled

FaultKinds == {"crash", "captcha", "budget", "transient", "document", "contract",
               "oserror", "hash", "unlink", "rmtree", "index"}

ASSUME ConstantsAssumption ==
    /\ Docs \subseteq Nat
    /\ DeliveredOn \in [Docs -> Nat]
    /\ Retention \in Nat \ {0}
    /\ Monitor \in Nat \ {0} /\ Discovery \in Nat
    /\ Monitor <= Discovery /\ Discovery <= Retention
    /\ MaxAttempts \in Nat \ {0}
    /\ Members # {} /\ Places # {}
    /\ Criteria \subseteq SUBSET Docs /\ WatchLists \subseteq SUBSET Docs
    /\ Reinstates \in BOOLEAN
    /\ Faults \subseteq FaultKinds
    /\ MaxFaults \in Nat /\ LastDay \in Nat

VARIABLES
    day,        \* the calendar
    source,     \* source[d]: what the source's listing says of d
    local,      \* manifest: local_state, or Unknown
    rows,       \* manifest: the recorded files of d
    failures,   \* manifest: lifetime failures charged to d
    disk,       \* archive: files of d on disk
    altered,    \* archive: recorded files whose bytes are not the recorded ones
    shown,      \* archive: what the index of d's day says of d
    cmd, today, wanted,           \* this command, the day it read, its criteria
    step, at, todo, dates,        \* where it is, and what the current loop has left
    listing,                      \* the listing the sweep collected
    survivors,                    \* files the current removal could not unlink
    landed,                       \* the place the current delivery was renamed to
    kept,                         \* dates whose directory refused to go
    last,                         \* how the last command ended
    faults                        \* faults so far, for the bound

world    == <<day, source>>
manifest == <<local, rows, failures>>
archive  == <<disk, altered, shown>>
given    == <<cmd, today, wanted>>
counter  == <<step, at, todo, dates>>
scratch  == <<listing, survivors, landed, kept>>
vars == <<world, manifest, archive, given, counter, scratch, last, faults>>

-----------------------------------------------------------------------------
(* Windows, queues and files.                                              *)

\* window_ending(last, n): the n dates that end on `last`.
InWindow(x, end, n) == x <= end /\ end < x + n

\* RetentionWindow.is_expired, for the retention window ending on `end`.
Expired(x, end) == x + Retention <= end

\* in_state and delivered_before: most recent first, and oldest first.
Newer(d, e) == \/ DeliveredOn[d] > DeliveredOn[e]
               \/ DeliveredOn[d] = DeliveredOn[e] /\ d < e
Older(d, e) == \/ DeliveredOn[d] < DeliveredOn[e]
               \/ DeliveredOn[d] = DeliveredOn[e] /\ d < e

Head(d)   == d \in todo /\ \A e \in todo \ {d} : Newer(d, e)
Oldest(d) == d \in todo /\ \A e \in todo \ {d} : Older(d, e)

InState(S) == {d \in Docs : local[d] \in S}

FilesAt(p) == {p} \X Members
AllFiles   == Places \X Members

\* _intact: every recorded file is on disk and is the one that was recorded.
Intact(d) == rows[d] \subseteq disk[d] /\ altered[d] \intersect rows[d] = {}

\* _free_directory: a name is usable when free or recognizably this document's.
Usable(d, p) == FilesAt(p) \intersect disk[d] = {} \/ <<p, Imposed>> \in disk[d]

Unlisted == [d \in Docs |-> "unlisted"]
NoPlace  == "nowhere"

Fault(kind) == kind \in Faults /\ faults < MaxFaults /\ faults' = faults + 1

\* Bound: the failures after which the source no longer takes a withdrawal back.
FailureBound == MaxAttempts + MaxFaults

-----------------------------------------------------------------------------
(* Moving the program counter.                                             *)

Enter(s, T, D) == step' = s /\ at' = "loop" /\ todo' = T /\ dates' = D
At(a)   == at' = a /\ UNCHANGED <<step, todo, dates>>
Done(d) == at' = "loop" /\ todo' = todo \ {d} /\ UNCHANGED <<step, dates>>

\* The command is over: nothing it held in memory survives it.
Finish(how) ==
    /\ Enter("idle", {}, {})
    /\ listing' = Unlisted /\ survivors' = {} /\ landed' = NoPlace /\ kept' = {}
    /\ last' = how

On(s, a) == step = s /\ at = a

DatesOf(S) == {DeliveredOn[d] : d \in S}

\* Bug variant of EnterPurge: the frontier is one date too late.
EnterPurgeLate(t) ==
    Enter("purge_dirs", {}, DatesOf({d \in Docs : disk[d] # {} /\ DeliveredOn[d] + Retention <= t + 1}))

\* The purge of the retention window ending on t starts from the directories it finds.
EnterPurge(t) ==
    Enter("purge_dirs", {}, DatesOf({d \in Docs : disk[d] # {} /\ Expired(DeliveredOn[d], t)}))

\* Bug variant of EnterInbox: only the day the clock shows.
EnterInboxToday(t) ==
    Enter("inbox", {}, DatesOf({d \in Docs : DeliveredOn[d] = t}))

\* The inbox rewrites every day of the retention window ending on t.
EnterInbox(t) ==
    Enter("inbox", {}, DatesOf({d \in Docs : InWindow(DeliveredOn[d], t, Retention)}))

\* One date at a time, oldest first.
Earliest(x) == x \in dates /\ \A y \in dates : x <= y

\* Bug variant of SweepDays: every profile asks for the monitor's days.
SweepDaysMonitor == Monitor

\* discovery.monitor_days for the monitor profile, discovery.days otherwise.
SweepDays == IF cmd = "monitor" THEN Monitor ELSE Discovery

-----------------------------------------------------------------------------
(* Types.                                                                  *)

Commands == {"run", "monitor", "reconcile", "purge"}

Steps == {"idle", "resolve", "enact", "sweep", "merge", "enact_again", "fetch",
          "purge_dirs", "purge_indexes", "purge_rows", "inbox"}
Points == {"loop", "unlink", "charge", "settle", "condemn", "download", "clearing",
           "placed", "recorded", "forget"}

\* The type of every variable.
TypeOK ==
    /\ day \in Nat
    /\ source \in [Docs -> SourceStatus \union {Unpublished}]
    /\ local \in [Docs -> LocalState \union {Unknown}]
    /\ rows \in [Docs -> SUBSET AllFiles]
    /\ failures \in [Docs -> Nat]
    /\ disk \in [Docs -> SUBSET AllFiles]
    /\ altered \in [Docs -> SUBSET AllFiles]
    /\ shown \in [Docs -> {"absent", "link", "cancelled", "failed"}]
    /\ cmd \in Commands /\ today \in Nat /\ wanted \in SUBSET Docs
    /\ step \in Steps /\ at \in Points
    /\ todo \in SUBSET Docs /\ dates \in SUBSET Nat
    /\ listing \in [Docs -> SourceStatus \union {"unlisted"}]
    /\ survivors \in SUBSET AllFiles
    /\ landed \in Places \union {NoPlace}
    /\ kept \in SUBSET Nat
    /\ last \in {"none", "completed", "captcha", "crashed"}
    /\ faults \in Nat

=============================================================================
