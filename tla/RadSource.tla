----------------------------- MODULE RadSource -----------------------------
(***************************************************************************)
(* A run's use of the client: one listing per day of the window, then one  *)
(* download per queued document, and, for a container that carries none    *)
(* and an operator who wants it, the walk through the pages that generate  *)
(* a reading copy.  What an answer holds is a choice; what the code makes  *)
(* of it is not.                                                           *)
(*                                                                         *)
(* Simplifications.  An answer of the generator advances or stalls, its    *)
(* position is not counted.  The archive's own failures (module Watcher)   *)
(* are left out.                                                           *)
(***************************************************************************)
EXTENDS RadClient

CONSTANTS
    Days,               \* days of the discovery window
    Queue,              \* documents to download
    WantReading,        \* fre_reading_pdf
    MaxContinuations    \* _MAX_CONTINUATIONS

ASSUME SourceAssumption ==
    /\ Days \in Nat /\ Queue \in Nat
    /\ WantReading \in BOOLEAN
    /\ MaxContinuations \in Nat

VARIABLES
    asked,       \* the operation in flight
    since,       \* when it was called (read by the properties only)
    listed,      \* days listed so far
    settled,     \* documents dealt with so far; the next one is in hand
    fate,        \* what became of each document
    continued,   \* continuation reads of the walk
    before,      \* requests made before this document (read by the properties only)
    ended        \* running, or how the network work ended

runVars == <<listed, settled, fate, continued, before, ended>>
vars == <<clientVars, asked, since, runVars>>

Walk == {"entry", "viewer", "generator", "menu", "generate", "continue"}
Following == [entry |-> "viewer", viewer |-> "generator", generator |-> "menu", menu |-> "generate"]

Running == ended = "running"

Ask(op) == Call /\ asked' = op /\ since' = now

\* Nothing is in flight any more.
Drop == Return /\ asked' = "none" /\ since' = now

-----------------------------------------------------------------------------
(* The transport answers.                                                  *)

\* Only the listing's envelope can demand a captcha, only a body has a cap that is the document's.
Possible(verdict) ==
    /\ verdict = "captcha"  => asked = "list"
    /\ verdict = "document" => asked \in {"download", "menu", "generate", "continue"}

Transport ==
    /\ Running
    /\ \/ Refuse \/ Send
       \/ \E t \in Durations :
            \/ \E verdict \in {"ok", "contract", "document", "captcha"} :
                   Possible(verdict) /\ Answer(verdict, t)
            \/ BackOff(t) \/ GiveUp(t)
    /\ UNCHANGED <<asked, since, runVars>>

-----------------------------------------------------------------------------
(* The sweep: every day of the window, and all or nothing.                 *)

ListNext ==
    /\ Running /\ line = "free" /\ listed < Days
    /\ Ask("list")
    /\ UNCHANGED runVars

DayListed ==
    /\ asked = "list" /\ line = "ok"
    /\ Drop
    /\ listed' = listed + 1
    /\ UNCHANGED <<settled, fate, continued, before, ended>>

\* Refused, given up on, or not what this build reads: no day of the listing is merged.
ListingFails ==
    /\ asked = "list"
    /\ \/ line \in {"budget", "transient", "captcha", "contract"} /\ ended' = line
       \/ line = "ok" /\ ended' = "contract"
    /\ Drop
    /\ UNCHANGED <<listed, settled, fate, continued, before>>

-----------------------------------------------------------------------------
(* The downloads.                                                          *)

FetchNext ==
    /\ Running /\ line = "free" /\ listed = Days /\ settled < Queue
    /\ Ask("download")
    /\ before' = made
    /\ UNCHANGED <<listed, settled, fate, continued, ended>>

\* The document in hand met its fate; the next one is due.
Settle(f) ==
    /\ Drop
    /\ fate' = [fate EXCEPT ![settled + 1] = f]
    /\ settled' = settled + 1
    /\ continued' = 0
    /\ UNCHANGED <<listed, before, ended>>

\* A single file, or a container that keeps what it carries.
Deliver == asked = "download" /\ line = "ok" /\ Settle("whole")

\* HTML, a truncated or unsafe container, a body over its cap, or no answer at all.
DownloadFails == asked = "download" /\ line \in {"ok", "transient", "document"} /\ Settle("charged")

\* A signature this build cannot store.
DownloadDiverges == asked = "download" /\ line \in {"ok", "contract"} /\ Settle("condemned")

\* Bug variant of FetchRefused: the document is put back and the batch goes on with it.
FetchRefusedRetried ==
    /\ asked \in {"download"} \union Walk /\ line = "budget"
    /\ Drop
    /\ UNCHANGED runVars

\* The budget burnt out: the document goes back to the queue and the run's network work ends.
FetchRefused ==
    /\ asked \in {"download"} \union Walk /\ line = "budget"
    /\ Drop
    /\ ended' = "budget"
    /\ UNCHANGED <<listed, settled, fate, continued, before>>

FetchDone ==
    /\ Running /\ line = "free" /\ listed = Days /\ settled = Queue
    /\ ended' = "completed"
    /\ UNCHANGED <<clientVars, asked, since, listed, settled, fate, continued, before>>

-----------------------------------------------------------------------------
(* The reading copy: a walk whose every page is the credential of the next. *)

StartWalk ==
    /\ asked = "download" /\ line = "ok" /\ WantReading
    /\ Ask("entry")
    /\ UNCHANGED runVars

WalkOn ==
    /\ asked \in DOMAIN Following /\ line = "ok"
    /\ Ask(Following[asked])
    /\ UNCHANGED runVars

\* The answers the code reads: the last continuation's is not among them.
Examined ==
    /\ line = "ok"
    /\ \/ asked \in {"viewer", "menu"}
       \/ asked \in {"generate", "continue"} /\ continued <= MaxContinuations

ReadOut == asked \in {"generate", "continue"} /\ Examined /\ Settle("read")

\* Bug variant of Continue: the loop has no fuse of its own.
ContinueUnfused ==
    /\ asked \in {"generate", "continue"} /\ line = "ok"
    /\ Ask("continue")
    /\ continued' = continued + 1
    /\ UNCHANGED <<listed, settled, fate, before, ended>>

Continue ==
    /\ asked \in {"generate", "continue"} /\ Examined
    /\ Ask("continue")
    /\ continued' = continued + 1
    /\ UNCHANGED <<listed, settled, fate, before, ended>>

\* Bug variant of WalkFails: a failed walk is the document's failure.
WalkFailsCharged ==
    /\ asked \in Walk
    /\ Examined \/ line \in {"transient", "document", "contract"}
    /\ Settle("charged")

\* A walk that fails costs the reading copy: an answer that is not the page expected, a
\* refusal of the generator, a stall, an invalid copy.
WalkFails ==
    /\ asked \in Walk
    /\ Examined \/ line \in {"transient", "document", "contract"}
    /\ Settle("whole")

\* Out of continuations, the last answer unread.
WalkExhausted ==
    /\ asked = "continue" /\ line = "ok" /\ continued > MaxContinuations
    /\ Settle("whole")

\* The viewer's switch or the generator's answer demands a captcha.
WalkCaptcha ==
    /\ asked \in {"viewer", "generate", "continue"} /\ Examined
    /\ Drop
    /\ ended' = "captcha"
    /\ UNCHANGED <<listed, settled, fate, continued, before>>

\* The generator answers something that is no mapping, or a section of the menu has children that
\* are no list: an exception nothing catches.
WalkDies ==
    /\ asked \in {"menu", "generate", "continue"} /\ Examined
    /\ Drop
    /\ ended' = "died"
    /\ UNCHANGED <<listed, settled, fate, continued, before>>

-----------------------------------------------------------------------------
(* The specification.                                                      *)

Init ==
    /\ ClientInit
    /\ asked = "none" /\ since = 0
    /\ listed = 0 /\ settled = 0
    /\ fate = [d \in 1..Queue |-> "pending"]
    /\ continued = 0 /\ before = 0
    /\ ended = "running"

Sweep  == ListNext \/ DayListed \/ ListingFails
Fetch  == FetchNext \/ Deliver \/ DownloadFails \/ DownloadDiverges \/ FetchRefused \/ FetchDone
Read   == \/ StartWalk \/ WalkOn \/ ReadOut \/ Continue
          \/ WalkFails \/ WalkExhausted \/ WalkCaptcha \/ WalkDies

Next == Transport \/ Sweep \/ Fetch \/ Read

Spec == Init /\ [][Next]_vars

\* A run that can go on goes on: it has one thread and every wait in it is bounded.
FairSpec == Spec /\ WF_vars(Next)
=============================================================================
