------------------------------ MODULE PartFile ------------------------------
(***************************************************************************)
(* How this code replaces a file: the new content is written to a `.part`  *)
(* beside it, under a fixed name, and renamed over it.  The watch list and *)
(* the registry cache are both written this way, without a lock.           *)
(*                                                                         *)
(* A rename moves the file itself, not its name: a process that still has  *)
(* the `.part` of another open goes on writing to wherever that one was    *)
(* renamed to.  A place is the file, its .part and, for every process,     *)
(* where the file that process has open for writing is by now; an operator *)
(* gives the place one call leaves, or the set of those it may leave.      *)
(***************************************************************************)
CONSTANTS
    Procs,                   \* the processes that may be at work at once
    Missing, Blank, Torn     \* no file, an empty one, one that two processes wrote over each other

Whereabouts == {"closed", "part", "file", "gone"}

Places(contents) ==
    LET held == contents \union {Missing, Blank, Torn}
    IN  [file : held, part : held, hand : [Procs -> Whereabouts]]

EmptyPlace == [file |-> Missing, part |-> Missing, hand |-> [p \in Procs |-> "closed"]]

\* Whoever had `from` open has, from here on, `to` open.
Moved(hand, from, to) == [p \in Procs |-> IF hand[p] = from THEN to ELSE hand[p]]

\* open(staging, "wb"): a new file, or the one that is there, emptied.
Truncated(at, p) == [at EXCEPT !.part = Blank, !.hand[p] = "part"]

\* Two payloads written over each other from the start: the longer one shows behind the other.
Overwritten(old, new) == IF old \in {Blank, new} THEN {new} ELSE {new, Torn}

Closed(at, p) == [at EXCEPT !.hand[p] = "closed"]

\* One write, and the close.
Written(at, p, content) ==
    CASE at.hand[p] = "part" ->
           {[Closed(at, p) EXCEPT !.part = c] : c \in Overwritten(at.part, content)}
      [] at.hand[p] = "file" ->
           {[Closed(at, p) EXCEPT !.file = c] : c \in Overwritten(at.file, content)}
      [] OTHER -> {Closed(at, p)}

\* os.replace, for a .part that is there: it takes the place of the file, whoever wrote it.
Renamed(at) ==
    [file |-> at.part, part |-> Missing, hand |-> Moved(Moved(at.hand, "file", "gone"), "part", "file")]

\* staging.unlink(missing_ok=True), and the process's own file is closed.
Discarded(at, p) ==
    [Closed(at, p) EXCEPT !.part = Missing, !.hand = Moved(@, "part", "gone")]

\* Somebody else puts a file of their own in its place.
Supplanted(at, content) == [at EXCEPT !.file = content, !.hand = Moved(@, "file", "gone")]
=============================================================================
