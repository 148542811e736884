------------------------------ MODULE Placement ------------------------------
(***************************************************************************)
(* Where a delivery goes: documents of one company, category and day       *)
(* compete for the names their containers may take, each filled from a     *)
(* staging tree of its own that an earlier attempt may have left behind.   *)
(* One command at a time: reconcile resolves what was in flight, removes   *)
(* what was withdrawn and empties the staging root; a sweep changes what   *)
(* is wanted; the fetch downloads, names, clears the target, renames,      *)
(* records and discards.  The process may die between any two steps.       *)
(*                                                                         *)
(* Simplifications.  A file is its path's last part and the document it    *)
(* came from; a directory is there while it holds a file, so that one      *)
(* emptied by a removal that died before rmdir is free here and skipped by *)
(* candidate.exists() (fetch.py 390): more names are usable than in the    *)
(* code, never fewer.  The retry budget is a free choice between the queue *)
(* and giving up, and the purge is left out (Watcher has both).  Files are *)
(* compared by path: the hash of a recorded copy is taken to match.  At a  *)
(* sweep a document leaves or enters the queue at will.                    *)
(***************************************************************************)
EXTENDS Naturals, FiniteSets

CONSTANTS
    Docs,        \* the documents, numbered in the order of the queue
    Version,     \* [document -> its version]
    Tries,       \* how many names a container tries (50 more than two in the code)
    Faults,      \* the faults that happen
    MaxFaults    \* bound: how many of them

\* A process that dies, a write that fails, and a staging tree or a recorded file that refuses to go.
Kinds == {"crash", "archive", "staging", "unlink"}

ASSUME PlacementAssumption ==
    /\ Docs \subseteq Nat /\ IsFiniteSet(Docs)
    /\ Version \in [Docs -> Nat]
    /\ Tries \in Nat /\ Tries >= 3
    /\ Faults \subseteq Kinds /\ MaxFaults \in Nat

VARIABLES
    local,       \* [document -> its state]; "absent" is every state outside the queue and the archive
    rows,        \* [document -> the paths recorded for it]
    held,        \* [name -> the files in the archive under it]
    staging,     \* [document -> the files in its staging tree]
    step, at,    \* the step of the command, and the point within it
    todo,        \* the documents the step still has to deal with, the least of them first
    delivery,    \* the files of the delivery at hand, or {}
    target,      \* the name it takes
    faults,
    soiled       \* documents whose last attempt met a tree that refused to go (read by the properties)

tree == <<held, staging>>
manifest == <<local, rows>>
control == <<step, at, todo>>
hand == <<delivery, target>>
vars == <<manifest, tree, control, hand, faults, soiled>>

(***************************************************************************)
(* Names.  The first two a container tries are shared with other documents *)
(* of its day, the others carry its identity, as does the file name of a   *)
(* standalone filing.                                                      *)
(***************************************************************************)
Candidate(d, i) ==
    CASE i = 1 -> <<"category", 0, 0>>
      [] i = 2 -> <<"version", Version[d], 0>>
      [] OTHER -> <<"own", d, i>>

Filing(d) == <<"filing", d, 0>>

Names == {Candidate(d, i) : d \in Docs, i \in 1 .. Tries} \union {Filing(d) : d \in Docs}
NoName == <<"none", 0, 0>>

\* What a delivery may be, and what each file of it is called once it is placed.
Deliveries == {{"document"}, {"member"}, {"member", "generated"}}
Imposed(f) == IF f = "generated" THEN "imposed" ELSE f

\* A generated copy carries the instant it was made, so the next one does not overwrite it.
Leftover(f) == IF f = "generated" THEN "stale" ELSE f

Files == {"document", "member", "generated", "imposed", "stale"}

\* The queue is one day's: in_state orders it by identity.
Head(d) == d \in todo /\ \A e \in todo : d <= e

InState(s) == {d \in Docs : local[d] = s}

Sound == UNCHANGED <<faults, soiled>>
Fault(f) == f \in Faults /\ faults < MaxFaults /\ faults' = faults + 1

On(s, p) == step = s /\ at = p
At(p) == at' = p /\ UNCHANGED <<step, todo>>
Enter(s, queue) == step' = s /\ at' = "loop" /\ todo' = queue
Passed(d) == at' = "loop" /\ todo' = todo \ {d} /\ UNCHANGED step
Empty == delivery' = {} /\ target' = NoName

-----------------------------------------------------------------------------
(* The command: from one step to the next.                                 *)

Begin ==
    /\ step = "idle"
    /\ Enter("resolve", InState("downloading"))
    /\ Sound /\ UNCHANGED <<manifest, tree, hand>>

ResolveDone ==
    /\ On("resolve", "loop") /\ todo = {}
    /\ Enter("enact", InState("absent"))
    /\ Sound /\ UNCHANGED <<manifest, tree, hand>>

EnactDone ==
    /\ step \in {"enact", "enact_again"} /\ at = "loop" /\ todo = {}
    /\ IF step = "enact" THEN Enter("tidy", {}) ELSE Enter("fetch", InState("discovered"))
    /\ Sound /\ UNCHANGED <<manifest, tree, hand>>

\* Bug variant of Tidy: only what will be downloaded again is emptied.
TidyQueued ==
    /\ step = "tidy"
    /\ staging' = [d \in Docs |-> IF local[d] = "discovered" THEN {} ELSE staging[d]]
    /\ Enter("sweep", {})
    /\ Sound /\ UNCHANGED <<manifest, held, hand>>

\* _discard_staging.
Tidy ==
    /\ step = "tidy"
    /\ staging' = [d \in Docs |-> {}]
    /\ Enter("sweep", {})
    /\ Sound /\ UNCHANGED <<manifest, held, hand>>

TidyStuck(d) ==
    /\ step = "tidy" /\ staging[d] # {}
    /\ staging' = [e \in Docs |-> IF e = d THEN staging[d] ELSE {}]
    /\ Enter("sweep", {})
    /\ Fault("staging") /\ UNCHANGED <<manifest, held, hand, soiled>>

Sweep(gone, wanted) ==
    /\ step = "sweep"
    /\ local' = [d \in Docs |-> IF d \in gone THEN "absent"
                                ELSE IF d \in wanted /\ local[d] = "absent" THEN "discovered" ELSE local[d]]
    /\ Enter("enact_again", {d \in Docs : local'[d] = "absent"})
    /\ Sound /\ UNCHANGED <<rows, tree, hand>>

FetchDone ==
    /\ On("fetch", "loop") /\ todo = {}
    /\ Enter("idle", {})
    /\ Sound /\ UNCHANGED <<manifest, tree, hand>>

Crash ==
    /\ step # "idle"
    /\ Enter("idle", {}) /\ Empty
    /\ Fault("crash") /\ UNCHANGED <<manifest, tree, soiled>>

-----------------------------------------------------------------------------
(* Resolving what was in flight, and removing what is not wanted.          *)

OnDisk(d) == \A r \in rows[d] : <<d, r[2]>> \in held[r[1]]

Recovered(d) ==
    /\ On("resolve", "loop") /\ Head(d)
    /\ rows[d] # {} /\ OnDisk(d)
    /\ local' = [local EXCEPT ![d] = "available"]
    /\ Passed(d)
    /\ Sound /\ UNCHANGED <<rows, tree, hand>>

\* The recorded paths are unlinked, whoever's file is there by now.
Unlink(d, refused) ==
    /\ step \in {"resolve", "enact", "enact_again"} /\ at = "loop" /\ Head(d)
    /\ step = "resolve" => ~(rows[d] # {} /\ OnDisk(d))
    /\ held' = [n \in Names |-> {x \in held[n] : <<n, x[2]>> \notin rows[d] \ refused}]
    /\ At("forget")
    /\ UNCHANGED <<manifest, staging, hand>>

Remove(d) == Unlink(d, {}) /\ Sound
RemoveRefused(d, refused) == refused # {} /\ Unlink(d, refused) /\ Fault("unlink") /\ UNCHANGED soiled

\* Only what left the disk is forgotten; an interrupted download returns to the queue or is given up.
Forget(d) ==
    /\ at = "forget" /\ Head(d)
    /\ rows' = [rows EXCEPT ![d] = {r \in @ : \E x \in held[r[1]] : x[2] = r[2]}]
    /\ local' \in IF step = "resolve"
                  THEN {[local EXCEPT ![d] = s] : s \in {"discovered", "failed"}}
                  ELSE {local}
    /\ Passed(d)
    /\ Sound /\ UNCHANGED <<tree, hand>>

-----------------------------------------------------------------------------
(* fetch_pending: one document of the queue.                               *)

\* Bug variant of ClearStaging: the tree is left to the cleanups after the attempt.
ClearStagingNever(d) ==
    /\ On("fetch", "loop") /\ Head(d)
    /\ At("start")
    /\ Sound /\ UNCHANGED <<manifest, tree, hand>>

ClearStaging(d) ==
    /\ On("fetch", "loop") /\ Head(d)
    /\ staging' = [staging EXCEPT ![d] = {}]
    /\ soiled' = soiled \ {d}
    /\ At("start")
    /\ UNCHANGED <<manifest, held, hand, faults>>

ClearStagingStuck(d) ==
    /\ On("fetch", "loop") /\ Head(d) /\ staging[d] # {}
    /\ soiled' = soiled \union {d}
    /\ At("start")
    /\ Fault("staging") /\ UNCHANGED <<manifest, tree, hand>>

StartDownload(d) ==
    /\ On("fetch", "start") /\ Head(d)
    /\ local' = [local EXCEPT ![d] = "downloading"]
    /\ At("download")
    /\ Sound /\ UNCHANGED <<rows, tree, hand>>

\* The content arrives; what an earlier attempt left in the tree stays beside it.
Receive(d) ==
    /\ On("fetch", "download") /\ Head(d)
    /\ delivery' \in Deliveries
    /\ staging' = [staging EXCEPT ![d] = {Leftover(f) : f \in @}]
    /\ At("extract")
    /\ Sound /\ UNCHANGED <<manifest, held, target>>

Extract(d, f) ==
    /\ On("fetch", "extract") /\ Head(d)
    /\ f \in delivery \ staging[d]
    /\ staging' = [staging EXCEPT ![d] = @ \union {f}]
    /\ Sound /\ UNCHANGED <<manifest, held, control, hand>>

\* One file that is the filing itself: placed by its own rename under its own name.
PlaceFiling(d) ==
    /\ On("fetch", "extract") /\ Head(d)
    /\ delivery = {"document"} /\ "document" \in staging[d]
    /\ held' = [held EXCEPT ![Filing(d)] = {<<d, "document">>}]
    /\ staging' = [staging EXCEPT ![d] = @ \ {"document"}]
    /\ target' = Filing(d)
    /\ At("record")
    /\ Sound /\ UNCHANGED <<manifest, delivery>>

\* Bug variant of ImposeNames: the copy keeps the name it was generated under.
ImposeNoNames(d) ==
    /\ On("fetch", "extract") /\ Head(d)
    /\ delivery # {"document"} /\ delivery \subseteq staging[d]
    /\ At("name")
    /\ Sound /\ UNCHANGED <<manifest, tree, hand>>

\* _impose_generated_names, before the tree is moved.
ImposeNames(d) ==
    /\ On("fetch", "extract") /\ Head(d)
    /\ delivery # {"document"} /\ delivery \subseteq staging[d]
    /\ staging' = [staging EXCEPT ![d] = {Imposed(f) : f \in @}]
    /\ At("name")
    /\ Sound /\ UNCHANGED <<manifest, held, hand>>

\* Bug variant of Usable: whoever's generated copy is there.
UsableByAnyone(d, n) == held[n] = {} \/ \E e \in Docs : <<e, "imposed">> \in held[n]

\* A name is free, or recognized by the imposed name inside.
Usable(d, n) == held[n] = {} \/ <<d, "imposed">> \in held[n]

\* _free_directory: the first usable name.
ChooseName(d, i) ==
    /\ On("fetch", "name") /\ Head(d)
    /\ Usable(d, Candidate(d, i)) /\ \A j \in 1 .. i - 1 : ~Usable(d, Candidate(d, j))
    /\ target' = Candidate(d, i)
    /\ At("clear")
    /\ Sound /\ UNCHANGED <<manifest, tree, delivery>>

\* rmtree of the target, file by file.
ClearTarget(d, x) ==
    /\ On("fetch", "clear") /\ Head(d)
    /\ x \in held[target]
    /\ held' = [held EXCEPT ![target] = @ \ {x}]
    /\ Sound /\ UNCHANGED <<manifest, staging, control, hand>>

\* The whole staging tree becomes the directory, with whatever is in it.
PlaceContainer(d) ==
    /\ On("fetch", "clear") /\ Head(d)
    /\ held[target] = {}
    /\ held' = [held EXCEPT ![target] = {<<d, f>> : f \in staging[d]}]
    /\ staging' = [staging EXCEPT ![d] = {}]
    /\ At("record")
    /\ Sound /\ UNCHANGED <<manifest, hand>>

RecordFiles(d) ==
    /\ On("fetch", "record") /\ Head(d)
    /\ rows' = [rows EXCEPT ![d] = {<<target, Imposed(f)>> : f \in delivery}]
    /\ At("mark")
    /\ Sound /\ UNCHANGED <<local, tree, hand>>

MarkAvailable(d) ==
    /\ On("fetch", "mark") /\ Head(d)
    /\ local' = [local EXCEPT ![d] = "available"]
    /\ At("discard")
    /\ Sound /\ UNCHANGED <<rows, tree, hand>>

Abandon(d, states) ==
    /\ local' \in {[local EXCEPT ![d] = s] : s \in states}
    /\ At("discard")
    /\ UNCHANGED <<rows, tree, hand>>

\* DocumentError, TransientSourceError, SourceContractError, the refusal of every name included.
DownloadFails(d) ==
    /\ step = "fetch" /\ Head(d)
    /\ \/ at \in {"download", "extract"}
       \/ at = "name" /\ \A i \in 1 .. Tries : ~Usable(d, Candidate(d, i))
    /\ Abandon(d, {"discovered", "failed"})
    /\ Sound

\* OSError, from mkdir to the hash of what landed; the attempt is not charged.
ArchiveFails(d) ==
    /\ step = "fetch" /\ Head(d)
    /\ at \in {"extract", "name", "clear", "record"}
    /\ Abandon(d, {"discovered"})
    /\ Fault("archive") /\ UNCHANGED soiled

\* finally: the tree is discarded whatever happened.
Discard(d) ==
    /\ On("fetch", "discard") /\ Head(d)
    /\ staging' = [staging EXCEPT ![d] = {}]
    /\ Passed(d) /\ Empty
    /\ Sound /\ UNCHANGED <<manifest, held>>

DiscardStuck(d) ==
    /\ On("fetch", "discard") /\ Head(d) /\ staging[d] # {}
    /\ Passed(d) /\ Empty
    /\ Fault("staging") /\ UNCHANGED <<manifest, tree, soiled>>

-----------------------------------------------------------------------------
(* The specification.                                                      *)

Init ==
    /\ local = [d \in Docs |-> "absent"]
    /\ rows = [d \in Docs |-> {}]
    /\ held = [n \in Names |-> {}]
    /\ staging = [d \in Docs |-> {}]
    /\ step = "idle" /\ at = "loop" /\ todo = {}
    /\ delivery = {} /\ target = NoName
    /\ faults = 0 /\ soiled = {}

Fetch(d) ==
    \/ ClearStaging(d) \/ StartDownload(d) \/ Receive(d) \/ \E f \in Files : Extract(d, f)
    \/ PlaceFiling(d) \/ ImposeNames(d) \/ \E i \in 1 .. Tries : ChooseName(d, i)
    \/ (\E x \in Docs \X Files : ClearTarget(d, x)) \/ PlaceContainer(d)
    \/ RecordFiles(d) \/ MarkAvailable(d) \/ DownloadFails(d) \/ Discard(d)

Reconcile(d) == Recovered(d) \/ Remove(d) \/ Forget(d)

Command ==
    \/ Begin \/ ResolveDone \/ EnactDone \/ Tidy \/ FetchDone
    \/ \E gone, wanted \in SUBSET Docs : Sweep(gone, wanted)

Progress == Command \/ \E d \in Docs : Reconcile(d) \/ Fetch(d)

Failure ==
    \/ Crash
    \/ \E d \in Docs : ArchiveFails(d) \/ TidyStuck(d) \/ ClearStagingStuck(d) \/ DiscardStuck(d)

Next == Progress \/ Failure

Spec == Init /\ [][Next]_vars

\* The same, where a recorded file may also refuse to be unlinked.
NextRefusing == Next \/ \E d \in Docs : \E refused \in SUBSET rows[d] : RemoveRefused(d, refused)

SpecRefusing == Init /\ [][NextRefusing]_vars

\* Commands are started again and again, and come to an end.
FairSpec == Spec /\ WF_vars(Progress)
=============================================================================
