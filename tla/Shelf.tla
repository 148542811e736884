------------------------------- MODULE Shelf -------------------------------
(***************************************************************************)
(* What the archive promises about each document, whatever happens in      *)
(* between: what is held has a copy, a copy that is promised goes only     *)
(* when its day ages out, and neither a cancellation nor ageing is ever    *)
(* taken back.  How the copies get there is module Watcher's business.     *)
(***************************************************************************)
EXTENDS Naturals

CONSTANTS Docs, DeliveredOn, Retention

VARIABLES
    day,      \* the calendar
    shelf,    \* shelf[d]: absent, held, demoted, cancelled or retired
    copies    \* the documents with a whole, recorded copy in the archive

shelfVars == <<day, shelf, copies>>

Aged(d) == DeliveredOn[d] + Retention <= day

Move(d, from, to) ==
    /\ shelf[d] \in from
    /\ shelf' = [shelf EXCEPT ![d] = to]
    /\ UNCHANGED <<day, copies>>

\* An unpromised copy is made or lost.
Make(d) == shelf[d] \notin {"held", "retired"} /\ copies' = copies \union {d} /\ UNCHANGED <<day, shelf>>
Lose(d) == (shelf[d] = "held" => Aged(d)) /\ copies' = copies \ {d} /\ UNCHANGED <<day, shelf>>

TakeIn(d)    == d \in copies /\ Move(d, {"absent"}, "held")
Demote(d)    == Move(d, {"absent", "held"}, "demoted")
Cancel(d)    == Move(d, {"absent", "held", "demoted"}, "cancelled")
Reinstate(d) == Move(d, {"demoted"}, "absent")

\* The disk goes first and the record follows it.
Retire(d) == Aged(d) /\ d \notin copies /\ Move(d, {"absent", "held", "demoted", "cancelled"}, "retired")

Tick == day' = day + 1 /\ UNCHANGED <<shelf, copies>>

ShelfInit == day = 0 /\ shelf = [d \in Docs |-> "absent"] /\ copies = {}

ShelfStep(d) ==
    \/ Make(d) \/ Lose(d)
    \/ TakeIn(d) \/ Demote(d) \/ Cancel(d) \/ Reinstate(d) \/ Retire(d)

ShelfNext == Tick \/ \E d \in Docs : ShelfStep(d)

ShelfSpec == ShelfInit /\ [][ShelfNext]_shelfVars
=============================================================================
