--------------------------- MODULE WatchListStore ---------------------------
(***************************************************************************)
(* companies.yaml: a file of the operator's, edited by hand at any moment, *)
(* which `add`, `rm` and every run also rewrite.  No lock covers it: `add` *)
(* and `rm` take none, and an editor could not.  What protects an edit is  *)
(* the digest of the bytes that were loaded, compared before the write.    *)
(*                                                                         *)
(* Simplifications.  A list is who is on it, which entries the registry    *)
(* would rewrite, and which edits of the operator's it carries: everything *)
(* else in it is layout.  Equal digests are equal bytes.  What the         *)
(* registry holds does not change; a run that has none settles nothing.    *)
(***************************************************************************)
EXTENDS PartFile

CONSTANTS
    Codes,      \* companies
    Edits,      \* the edits the operator makes, each once
    Nothing     \* what a run is about

Lists == [watched : SUBSET Codes, drifted : SUBSET Codes, notes : SUBSET Edits]

ASSUME StoreAssumption ==
    /\ Missing # Blank /\ Missing # Torn /\ Blank # Torn
    /\ {Missing, Blank, Torn} \intersect Lists = {}

VARIABLES
    list,         \* the list, its .part, and who has what of it open
    pc,           \* what each process does next
    mem,          \* what it has in memory
    edited,       \* the edits made so far
    recent,       \* who was on the list since the file was last read (read by the properties only)
    overlapped    \* two saves have been under way at once (likewise)

vars == <<list, pc, mem, edited, recent, overlapped>>

file == list.file

NoOne == [watched |-> {}, drifted |-> {}, notes |-> {}]

\* An absent file and an empty one are both read as an empty list.
Parsed(bytes) == IF bytes \in {Missing, Blank} THEN NoOne ELSE bytes

Commands == [cmd : {"add", "rm"}, code : Codes] \union {[cmd |-> "run", code |-> Nothing]}

\* The command; the bytes loaded, and the list made of them; whom a run goes on to monitor, and
\* whether its save could not even read the file (read by the properties only).
Fresh == [job |-> [cmd |-> "run", code |-> Nothing], loaded |-> Missing, doc |-> NoOne,
          monitored |-> {}, unread |-> FALSE]

Go(p, to) == pc' = [pc EXCEPT ![p] = to]

Leave(p) == Go(p, "idle") /\ mem' = [mem EXCEPT ![p] = Fresh]

\* add and rm are over; a run goes on with the companies given.
Proceed(p, companies) ==
    IF mem[p].job.cmd = "run"
    THEN Go(p, "monitor") /\ mem' = [mem EXCEPT ![p] = [Fresh EXCEPT !.monitored = companies]]
    ELSE Leave(p)

-----------------------------------------------------------------------------
(* Loading and changing.                                                   *)

\* A second run would find the lock taken.
Start(p) ==
    /\ pc[p] = "idle"
    /\ \E j \in Commands :
        /\ j.cmd = "run" => \A q \in Procs : pc[q] # "idle" => mem[q].job.cmd # "run"
        /\ mem' = [mem EXCEPT ![p].job = j]
    /\ Go(p, "load")
    /\ UNCHANGED list

\* Bug variant of Load: a file that is no list is not refused.
LoadAnything(p) ==
    /\ pc[p] = "load"
    /\ mem' = [mem EXCEPT ![p].doc = Parsed(file), ![p].loaded = file]
    /\ Go(p, "change")
    /\ UNCHANGED list

Load(p) ==
    /\ pc[p] = "load" /\ file # Torn
    /\ mem' = [mem EXCEPT ![p].doc = Parsed(file), ![p].loaded = file]
    /\ Go(p, "change")
    /\ UNCHANGED list

\* The file cannot be read, or is no list any more: the command ends on it.
LoadFails(p) ==
    /\ pc[p] \in {"load", "reload"}
    /\ Leave(p)
    /\ UNCHANGED list

\* A run rewrites what its registry carries: all that drifted, some of it, or nothing.
Settled(l) == {[l EXCEPT !.drifted = @ \ carried] : carried \in SUBSET l.drifted}

\* WatchList.add, WatchList.remove, settle: the lists each may leave in memory.
Changed(j, l) ==
    CASE j.cmd = "add" -> {[l EXCEPT !.watched = @ \union {j.code}]}
      [] j.cmd = "rm"  -> {[l EXCEPT !.watched = @ \ {j.code}, !.drifted = @ \ {j.code}]}
      [] j.cmd = "run" -> Settled(l)

Change(p) ==
    /\ pc[p] = "change"
    /\ \E new \in Changed(mem[p].job, mem[p].doc) :
        IF new = mem[p].doc
        THEN Proceed(p, new.watched)
        ELSE Go(p, "save") /\ mem' = [mem EXCEPT ![p].doc = new]
    /\ UNCHANGED list

-----------------------------------------------------------------------------
(* WatchList.save.                                                         *)

\* Bug variant of Guard: nothing is compared.
GuardNothing(p) ==
    /\ pc[p] = "save"
    /\ Go(p, "open")
    /\ mem' = [mem EXCEPT ![p].loaded = file]
    /\ UNCHANGED list

Guard(p) ==
    /\ pc[p] = "save" /\ file = mem[p].loaded
    /\ Go(p, "open")
    /\ UNCHANGED <<list, mem>>

\* The file cannot be read at the comparison: nothing is written, add and rm end on it, and a run
\* goes on with what it had settled, whatever has become of the list since it was loaded.
GuardFails(p) ==
    /\ pc[p] = "save"
    /\ IF mem[p].job.cmd = "run"
         THEN /\ Go(p, "monitor")
              /\ mem' = [mem EXCEPT ![p] = [Fresh EXCEPT !.monitored = mem[p].doc.watched, !.unread = TRUE]]
         ELSE Leave(p)
    /\ UNCHANGED list

\* Bug variant of Conflict: a refused run goes on with what it had settled.
ConflictForgotten(p) ==
    /\ pc[p] = "save" /\ file # mem[p].loaded
    /\ Proceed(p, mem[p].doc.watched)
    /\ UNCHANGED list

\* Somebody was faster: nothing is written, and a run reads the list again.
Conflict(p) ==
    /\ pc[p] = "save" /\ file # mem[p].loaded
    /\ IF mem[p].job.cmd = "run" THEN Go(p, "reload") /\ UNCHANGED mem ELSE Leave(p)
    /\ UNCHANGED list

Reload(p) ==
    /\ pc[p] = "reload" /\ file # Torn
    /\ Proceed(p, Parsed(file).watched)
    /\ UNCHANGED list

\* Bug variant of OpenPart: the list itself is opened for writing.
OpenPlace(p) ==
    /\ pc[p] = "open"
    /\ list' = [Truncated(list, p) EXCEPT !.file = Blank]
    /\ Go(p, "write")
    /\ UNCHANGED mem

OpenPart(p) ==
    /\ pc[p] = "open"
    /\ list' = Truncated(list, p)
    /\ Go(p, "write")
    /\ UNCHANGED mem

WritePart(p) ==
    /\ pc[p] = "write"
    /\ list' \in Written(list, p, mem[p].doc)
    /\ Go(p, "rename")
    /\ UNCHANGED mem

Replace(p) ==
    /\ pc[p] = "rename"
    /\ list.part # Missing
    /\ list' = Renamed(list)
    /\ Proceed(p, mem[p].doc.watched)

Saving == {"open", "write", "rename"}

\* Any of the three may fail, the rename also because somebody renamed the .part away.
SaveFails(p) ==
    /\ pc[p] \in Saving
    /\ list' = Discarded(list, p)
    /\ Proceed(p, mem[p].doc.watched)

-----------------------------------------------------------------------------
(* Everyone else.                                                          *)

Finish(p) == pc[p] = "monitor" /\ Leave(p) /\ UNCHANGED list

Crash(p) == pc[p] # "idle" /\ list' = Closed(list, p) /\ Leave(p)

\* The operator saves the list in an editor: a note, and perhaps other companies.
Edit ==
    /\ file # Torn
    /\ \E e \in Edits \ edited, new \in Lists :
        /\ new.drifted \subseteq new.watched
        /\ new.notes = Parsed(file).notes \union {e}
        /\ list' = Supplanted(list, new)
        /\ edited' = edited \union {e}
    /\ UNCHANGED <<pc, mem>>

-----------------------------------------------------------------------------
(* The specification.                                                      *)

Present == IF file = Torn THEN Torn ELSE Parsed(file).watched

\* The step reads the file: it loads it, or compares it with what was loaded.
Reads(p) == pc[p] \in {"load", "save", "reload"} /\ pc'[p] # pc[p] /\ ~mem'[p].unread

\* What the properties compare with.
Remember ==
    /\ recent' = [p \in Procs |->
           CASE pc'[p] = "idle"    -> {}
             [] Reads(p)           -> {Present'}
             [] pc[p] = "monitor"  -> recent[p]
             [] OTHER              -> recent[p] \union {Present'}]
    /\ overlapped' = (overlapped \/ \E p, q \in Procs : p # q /\ {pc'[p], pc'[q]} \subseteq Saving)

Init ==
    /\ list = EmptyPlace
    /\ pc = [p \in Procs |-> "idle"]
    /\ mem = [p \in Procs |-> Fresh]
    /\ edited = {}
    /\ recent = [p \in Procs |-> {}]
    /\ overlapped = FALSE

Step(p) ==
    \/ Start(p) \/ Load(p) \/ LoadFails(p) \/ Change(p)
    \/ Guard(p) \/ GuardFails(p) \/ Conflict(p) \/ Reload(p)
    \/ OpenPart(p) \/ WritePart(p) \/ Replace(p) \/ SaveFails(p)
    \/ Finish(p) \/ Crash(p)

Command == (\E p \in Procs : Step(p)) /\ UNCHANGED edited

Next == (Edit \/ Command) /\ Remember

Spec == Init /\ [][Next]_vars
=============================================================================
