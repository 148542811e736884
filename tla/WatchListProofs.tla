--------------------------- MODULE WatchListProofs ---------------------------
(***************************************************************************)
(* The promises about companies.yaml hold for every set of processes,      *)
(* companies and edits, wherever a save dies or fails.                     *)
(*                                                                         *)
(* While no two saves overlap, whoever is writing is alone with the .part: *)
(* it holds what that save means to write from the write to the rename.    *)
(* What a save means to write is its own change of what it loaded, and the *)
(* guard saw that on disk: for a run, that is whom it goes on to monitor.  *)
(***************************************************************************)
EXTENDS WatchListProperties, PartFileProofs

\* The place, for as long as no two saves have overlapped.
Calm ==
    ~overlapped =>
        /\ file \in Lists \union {Missing}
        /\ \A p, q \in Procs : pc[p] \in Saving /\ pc[q] \in Saving => p = q
        /\ (\A p \in Procs : pc[p] # "write") => Quiet(list)
        /\ \A p \in Procs : pc[p] = "write" => Only(list, p) /\ list.part = Blank
        /\ \A p \in Procs : pc[p] = "rename" => list.part = mem[p].doc

\* What a command is about to write, against what it loaded.
Intent ==
    \A p \in Procs :
        /\ pc[p] = "change" => mem[p].doc = Parsed(mem[p].loaded)
        /\ pc[p] \in {"save"} \union Saving => mem[p].doc \in Changed(mem[p].job, Parsed(mem[p].loaded))

\* Whom a run monitors, or may come to monitor, against what was on disk; who has anything left to
\* read has read what it has so far.
Consulted ==
    \A p \in Procs :
        /\ pc[p] # "monitor" => ~mem[p].unread
        /\ pc[p] = "change" => mem[p].doc.watched \in recent[p]
        /\ pc[p] = "save" /\ mem[p].job.cmd = "run" => mem[p].doc.watched \in recent[p]
        /\ pc[p] \in Saving /\ mem[p].job.cmd = "run" => mem[p].doc.watched \in recent[p]
        /\ pc[p] = "monitor" => mem[p].monitored \in recent[p]

IInv == TypeOK /\ Calm /\ Intent /\ Consulted

-----------------------------------------------------------------------------
(* Lists.                                                                  *)

LEMMA ParsedLists ==
    ASSUME NEW b \in Lists \union {Missing, Blank}
    PROVE  Parsed(b) \in Lists
BY DEF Parsed, NoOne, Lists

\* Each command leaves a list, and a run does not change who is on it.
LEMMA ChangedLists ==
    ASSUME NEW j \in Commands, NEW l \in Lists
    PROVE  /\ Changed(j, l) \subseteq Lists
           /\ j.cmd = "run" => \A new \in Changed(j, l) : new.watched = l.watched
<1>1. CASE j \in [cmd : {"add", "rm"}, code : Codes]
  <2>1. j.code \in Codes /\ (j.cmd = "add" \/ j.cmd = "rm")
    BY <1>1
  <2>2. j.cmd = "add" => Changed(j, l) = {[l EXCEPT !.watched = @ \union {j.code}]}
    BY DEF Changed
  <2>3. j.cmd = "rm" =>
          Changed(j, l) = {[l EXCEPT !.watched = @ \ {j.code}, !.drifted = @ \ {j.code}]}
    BY DEF Changed
  <2>4. CASE j.cmd = "add"
    BY <2>1, <2>2, <2>4 DEF Lists
  <2>5. CASE j.cmd = "rm"
    BY <2>1, <2>3, <2>5 DEF Lists
  <2> QED
    BY <2>1, <2>4, <2>5
<1>2. CASE j = [cmd |-> "run", code |-> Nothing]
  <2>1. Changed(j, l) = Settled(l)
    BY <1>2 DEF Changed
  <2> QED
    BY <2>1 DEF Settled, Lists
<1> QED
  BY <1>1, <1>2 DEF Commands

-----------------------------------------------------------------------------
(* Types.                                                                  *)

LEMMA FreshIsTyped ==
    Fresh \in [job : Commands, loaded : Lists \union {Missing, Blank}, doc : Lists,
               monitored : SUBSET Codes, unread : BOOLEAN]
BY DEF Fresh, Commands, NoOne, Lists

LEMMA InitEstablishes == Init => IInv
<1> SUFFICES ASSUME Init PROVE IInv
  OBVIOUS
<1>1. list \in Places(Lists) /\ Quiet(list) /\ file = Missing
  BY DEF Init, EmptyPlace, Places, Whereabouts, Quiet, file
<1>2. TypeOK
  BY <1>1, FreshIsTyped DEF Init, TypeOK
<1>3. \A p \in Procs : pc[p] = "idle" /\ ~mem[p].unread
  BY DEF Init, Fresh
<1>4. Calm /\ Intent
  BY <1>1, <1>3 DEF Init, Calm, Intent, Saving
<1>5. Consulted
  BY <1>3 DEF Consulted, Saving
<1> QED
  BY <1>2, <1>4, <1>5 DEF IInv

LEMMA ProceedKeepsTypes ==
    ASSUME TypeOK, NEW p \in Procs, NEW companies \in SUBSET Codes,
           Proceed(p, companies) \/ Leave(p)
    PROVE  /\ pc' \in [Procs -> {"idle", "load", "change", "save", "reload", "monitor"} \union Saving]
           /\ mem' \in [Procs -> [job : Commands, loaded : Lists \union {Missing, Blank},
                                  doc : Lists, monitored : SUBSET Codes, unread : BOOLEAN]]
<1>1. [Fresh EXCEPT !.monitored = companies]
        \in [job : Commands, loaded : Lists \union {Missing, Blank}, doc : Lists,
             monitored : SUBSET Codes, unread : BOOLEAN]
  BY FreshIsTyped
<1> QED
  BY <1>1, FreshIsTyped DEF TypeOK, Proceed, Leave, Go

LEMMA StepKeepsTypes ==
    ASSUME IInv, NEW p \in Procs, Step(p), UNCHANGED edited, Remember
    PROVE  TypeOK'
<1> USE DEF IInv
<1>1. overlapped' \in BOOLEAN
  BY DEF Remember, TypeOK
<1>2. /\ mem[p].doc \in Lists /\ mem[p].doc.watched \in SUBSET Codes /\ mem[p].job \in Commands
      /\ mem[p].loaded \in Lists \union {Missing, Blank}
      /\ file \in Lists \union {Missing, Blank, Torn}
  BY DEF TypeOK, Lists, Places, file
<1>3. edited' \subseteq Edits
  BY DEF TypeOK
<1>4. CASE Start(p)
  BY <1>1, <1>3, <1>4 DEF Start, TypeOK, Go
<1>5. CASE Load(p)
  <2>1. Parsed(file) \in Lists /\ file \in Lists \union {Missing, Blank}
    BY <1>2, <1>5, ParsedLists DEF Load
  <2> QED
    BY <1>1, <1>3, <1>5, <2>1 DEF Load, TypeOK, Go
<1>6. CASE LoadFails(p) \/ Finish(p)
  BY <1>1, <1>3, <1>6, ProceedKeepsTypes DEF LoadFails, Finish, TypeOK
<1>7. CASE Change(p)
  <2>1. PICK new \in Changed(mem[p].job, mem[p].doc) :
          IF new = mem[p].doc THEN Proceed(p, new.watched)
          ELSE Go(p, "save") /\ mem' = [mem EXCEPT ![p].doc = new]
    BY <1>7 DEF Change
  <2>2. new \in Lists /\ new.watched \in SUBSET Codes
    BY <1>2, ChangedLists DEF Lists
  <2>3. CASE new = mem[p].doc
    BY <1>1, <1>3, <1>7, <2>1, <2>2, <2>3, ProceedKeepsTypes DEF Change, TypeOK
  <2>4. CASE new # mem[p].doc
    BY <1>1, <1>3, <1>7, <2>1, <2>2, <2>4 DEF Change, TypeOK, Go
  <2> QED
    BY <2>3, <2>4
<1>8. CASE Guard(p)
  BY <1>1, <1>3, <1>8 DEF Guard, TypeOK, Go, Saving
<1>15. CASE GuardFails(p)
  <2>1. CASE mem[p].job.cmd = "run"
    <3>1. [Fresh EXCEPT !.monitored = mem[p].doc.watched, !.unread = TRUE]
            \in [job : Commands, loaded : Lists \union {Missing, Blank}, doc : Lists,
                 monitored : SUBSET Codes, unread : BOOLEAN]
      BY <1>2, FreshIsTyped
    <3> QED
      BY <1>1, <1>3, <1>15, <2>1, <3>1 DEF GuardFails, TypeOK, Go
  <2>2. CASE mem[p].job.cmd # "run"
    BY <1>1, <1>3, <1>15, <2>2, ProceedKeepsTypes DEF GuardFails, TypeOK
  <2> QED
    BY <2>1, <2>2
<1>9. CASE Conflict(p)
  <2>1. CASE mem[p].job.cmd = "run"
    BY <1>1, <1>3, <1>9, <2>1 DEF Conflict, TypeOK, Go
  <2>2. CASE mem[p].job.cmd # "run"
    BY <1>1, <1>3, <1>9, <2>2, ProceedKeepsTypes DEF Conflict, TypeOK
  <2> QED
    BY <2>1, <2>2
<1>10. CASE Reload(p)
  <2>1. Parsed(file).watched \in SUBSET Codes
    BY <1>2, <1>10, ParsedLists DEF Reload, Lists
  <2> QED
    BY <1>1, <1>3, <1>10, <2>1, ProceedKeepsTypes DEF Reload, TypeOK
<1>11. CASE OpenPart(p)
  BY <1>1, <1>3, <1>11, CallsLeaveAPlace DEF OpenPart, TypeOK, Go, Saving
<1>12. CASE WritePart(p)
  <2>1. list' \in Places(Lists)
    BY <1>2, <1>12, WritesLeaveAPlace DEF WritePart, TypeOK
  <2> QED
    BY <1>1, <1>3, <1>12, <2>1 DEF WritePart, TypeOK, Go, Saving
<1>13. CASE Replace(p) \/ SaveFails(p)
  <2>1. list' \in Places(Lists)
    BY <1>13, CallsLeaveAPlace DEF Replace, SaveFails, TypeOK
  <2> QED
    BY <1>1, <1>2, <1>3, <1>13, <2>1, ProceedKeepsTypes DEF Replace, SaveFails, TypeOK
<1>14. CASE Crash(p)
  <2>1. list' \in Places(Lists)
    BY <1>14, CallsLeaveAPlace DEF Crash, TypeOK
  <2> QED
    BY <1>1, <1>3, <1>14, <2>1, ProceedKeepsTypes DEF Crash, TypeOK
<1> QED
  BY <1>4, <1>5, <1>6, <1>7, <1>8, <1>9, <1>10, <1>11, <1>12, <1>13, <1>14, <1>15 DEF Step

LEMMA EditKeepsTypes ==
    ASSUME TypeOK, Edit, Remember
    PROVE  TypeOK'
<1>1. list' \in Places(Lists) /\ edited' \subseteq Edits
  BY SupplantsLeaveAPlace DEF Edit, TypeOK
<1> QED
  BY <1>1 DEF Edit, Remember, TypeOK

-----------------------------------------------------------------------------
(* The place while nobody overlaps.                                        *)

\* A step concerns the process that takes it.
LEMMA StepsAreOnesOwn ==
    ASSUME IInv, NEW p \in Procs, Step(p)
    PROVE  /\ \A q \in Procs \ {p} : pc'[q] = pc[q] /\ mem'[q] = mem[q]
           /\ pc[p] \notin Saving /\ ~Crash(p) => list' = list
           /\ pc'[p] \in Saving => \/ pc[p] = "save" /\ pc'[p] = "open"
                                   \/ pc[p] = "open" /\ pc'[p] = "write"
                                   \/ pc[p] = "write" /\ pc'[p] = "rename"
<1>1. pc' \in [Procs -> {"idle", "load", "change", "save", "reload", "monitor"} \union Saving]
  BY DEF IInv, TypeOK, Step, Start, Load, LoadFails, Change, Guard, GuardFails, Conflict, Reload, OpenPart, WritePart,
         Replace, SaveFails, Finish, Crash, Leave, Proceed, Go, Saving
<1> QED
  BY <1>1 DEF IInv, TypeOK, Step, Start, Load, LoadFails, Change, Guard, GuardFails, Conflict, Reload, OpenPart,
     WritePart, Replace, SaveFails, Finish, Crash, Leave, Proceed, Go, Saving

LEMMA StepKeepsCalm ==
    ASSUME IInv, NEW p \in Procs, Step(p), Remember
    PROVE  Calm'
<1> SUFFICES ASSUME ~overlapped' PROVE Calm'
  BY DEF Calm
<1>1. /\ ~overlapped /\ list \in Places(Lists)
      /\ \A q, r \in Procs : pc'[q] \in Saving /\ pc'[r] \in Saving => q = r
  BY DEF IInv, TypeOK, Remember
<1>2. /\ list.file \in Lists \union {Missing}
      /\ \A q, r \in Procs : pc[q] \in Saving /\ pc[r] \in Saving => q = r
      /\ (\A q \in Procs : pc[q] # "write") => Quiet(list)
      /\ \A q \in Procs : pc[q] = "write" => Only(list, q) /\ list.part = Blank
      /\ \A q \in Procs : pc[q] = "rename" => list.part = mem[q].doc
  BY <1>1 DEF IInv, Calm, file
<1>3. /\ \A q \in Procs \ {p} : pc'[q] = pc[q] /\ mem'[q] = mem[q]
      /\ pc[p] \notin Saving /\ ~Crash(p) => list' = list
      /\ pc'[p] \in Saving => \/ pc[p] = "save" /\ pc'[p] = "open"
                              \/ pc[p] = "open" /\ pc'[p] = "write"
                              \/ pc[p] = "write" /\ pc'[p] = "rename"
  BY StepsAreOnesOwn
<1>4. pc[p] \in Saving => \A q \in Procs \ {p} : pc'[q] \notin Saving
  BY <1>2, <1>3
<1>5. \A q \in Procs : pc[q] \in Saving /\ pc[q] # "write" => Quiet(list)
  BY <1>2 DEF Saving
<1> SUFFICES /\ list'.file \in Lists \union {Missing}
             /\ (\A q \in Procs : pc'[q] # "write") => Quiet(list')
             /\ \A q \in Procs : pc'[q] = "write" => Only(list', q) /\ list'.part = Blank
             /\ \A q \in Procs : pc'[q] = "rename" => list'.part = mem'[q].doc
  BY <1>1 DEF Calm, file
<1>6. CASE OpenPart(p)
  <2>1. pc[p] = "open" /\ pc'[p] = "write" /\ list' = Truncated(list, p) /\ Quiet(list)
    BY <1>5, <1>6 DEF OpenPart, Go, IInv, TypeOK, Saving
  <2>2. list'.file = list.file /\ list'.part = Blank /\ Only(list', p)
    BY <1>1, <2>1, OpensAlone
  <2> QED
    BY <1>2, <1>4, <2>1, <2>2 DEF Saving
<1>7. CASE WritePart(p)
  <2>1. /\ pc[p] = "write" /\ pc'[p] = "rename" /\ mem' = mem
        /\ list' \in Written(list, p, mem[p].doc) /\ Only(list, p) /\ list.part = Blank
    BY <1>2, <1>7 DEF WritePart, Go, IInv, TypeOK
  <2>2. list'.file = list.file /\ list'.part = mem[p].doc /\ Quiet(list')
    BY <1>1, <2>1, WritesAlone
  <2> QED
    BY <1>2, <1>4, <2>1, <2>2 DEF Saving
<1>8. CASE Replace(p)
  <2>1. /\ pc[p] = "rename" /\ pc'[p] \notin Saving /\ list' = Renamed(list) /\ Quiet(list)
        /\ list.part = mem[p].doc /\ mem[p].doc \in Lists
    BY <1>2, <1>3, <1>5, <1>8 DEF Replace, IInv, TypeOK, Saving
  <2>2. list'.file = mem[p].doc /\ Quiet(list')
    BY <1>1, <2>1, RenamesAlone
  <2> QED
    BY <1>4, <2>1, <2>2 DEF Saving
<1>9. CASE SaveFails(p)
  <2>1. pc[p] \in Saving /\ list' = Discarded(list, p) /\ (Quiet(list) \/ Only(list, p))
    BY <1>2, <1>5, <1>9 DEF SaveFails
  <2>2. pc'[p] \notin Saving
    BY <1>9 DEF SaveFails, Proceed, Leave, Go, IInv, TypeOK, Saving
  <2>3. list'.file = list.file /\ Quiet(list')
    BY <1>1, <2>1, ClosesAlone
  <2> QED
    BY <1>2, <1>4, <2>1, <2>2, <2>3 DEF Saving
<1>10. CASE Crash(p)
  <2>1. list' = Closed(list, p) /\ pc'[p] = "idle"
    BY <1>10 DEF Crash, Leave, Go, IInv, TypeOK
  <2>2. CASE \E q \in Procs \ {p} : pc[q] = "write"
    <3>1. PICK q \in Procs \ {p} : pc[q] = "write"
      BY <2>2
    <3>2. Only(list, q) /\ list.part = Blank
      BY <1>2, <3>1
    <3>3. list' = list
      BY <1>1, <2>1, <3>2 DEF Closed, Only, Places
    <3> QED
      BY <1>2, <1>3, <2>1, <3>1, <3>3
  <2>3. CASE \A q \in Procs \ {p} : pc[q] # "write"
    <3>1. Quiet(list) \/ Only(list, p)
      BY <1>2, <2>3
    <3>2. list'.file = list.file /\ list'.part = list.part /\ Quiet(list')
      BY <1>1, <2>1, <3>1, ClosesAlone
    <3> QED
      BY <1>2, <1>3, <2>1, <2>3, <3>2
  <2> QED
    BY <2>2, <2>3
<1>11. CASE pc[p] \notin Saving /\ ~Crash(p)
  BY <1>2, <1>3, <1>11 DEF Saving
<1> QED
  BY <1>6, <1>7, <1>8, <1>9, <1>10, <1>11
  DEF Step, Start, Load, LoadFails, Change, Guard, GuardFails, Conflict, Reload, Finish, Saving

LEMMA EditKeepsCalm ==
    ASSUME IInv, Edit, Remember
    PROVE  Calm'
<1> SUFFICES ASSUME ~overlapped' PROVE Calm'
  BY DEF Calm
<1>1. ~overlapped /\ list \in Places(Lists) /\ pc' = pc /\ mem' = mem
  BY DEF IInv, TypeOK, Remember, Edit
<1>2. PICK new \in Lists : list' = Supplanted(list, new)
  BY DEF Edit
<1>3. /\ list'.file = new /\ list'.part = list.part
      /\ Quiet(list) => Quiet(list')
      /\ \A p \in Procs : Only(list, p) => Only(list', p)
  BY <1>1, <1>2, SupplantsUnderASave
<1> QED
  BY <1>1, <1>3 DEF IInv, Calm, file

-----------------------------------------------------------------------------
(* What a save is about to write, and whom a run monitors.                 *)

\* A save is followed by the end of the command, or by what the run goes on to do.
LEMMA ProceedEnds ==
    ASSUME TypeOK, NEW p \in Procs, NEW companies, Proceed(p, companies)
    PROVE  /\ pc'[p] \in {"idle", "monitor"} /\ ~mem'[p].unread
           /\ pc'[p] = "monitor" => mem[p].job.cmd = "run" /\ mem'[p].monitored = companies
<1>1. /\ [Fresh EXCEPT !.monitored = companies].monitored = companies
      /\ ~Fresh.unread /\ ~[Fresh EXCEPT !.monitored = companies].unread
  BY DEF Fresh
<1> QED
  BY <1>1 DEF Proceed, Leave, Go, TypeOK

LEMMA StepKeepsIntent ==
    ASSUME IInv, NEW p \in Procs, Step(p)
    PROVE  Intent'
<1>1. \A q \in Procs \ {p} : pc'[q] = pc[q] /\ mem'[q] = mem[q]
  BY StepsAreOnesOwn
<1> SUFFICES /\ pc'[p] = "change" => mem'[p].doc = Parsed(mem'[p].loaded)
             /\ pc'[p] \in {"save"} \union Saving =>
                    mem'[p].doc \in Changed(mem'[p].job, Parsed(mem'[p].loaded))
  BY <1>1 DEF IInv, Intent
<1>2. CASE Load(p)
  BY <1>2 DEF Load, Go, IInv, TypeOK, Saving
<1>3. CASE Change(p)
  <2>1. PICK new \in Changed(mem[p].job, mem[p].doc) :
          IF new = mem[p].doc THEN Proceed(p, new.watched)
          ELSE Go(p, "save") /\ mem' = [mem EXCEPT ![p].doc = new]
    BY <1>3 DEF Change
  <2>2. mem[p].doc = Parsed(mem[p].loaded)
    BY <1>3 DEF Change, IInv, Intent
  <2>3. CASE new = mem[p].doc
    BY <2>1, <2>3, ProceedEnds DEF IInv, Saving
  <2>4. CASE new # mem[p].doc
    BY <2>1, <2>2, <2>4 DEF Go, IInv, TypeOK, Saving
  <2> QED
    BY <2>3, <2>4
<1>4. CASE Guard(p) \/ OpenPart(p) \/ WritePart(p)
  BY <1>4 DEF Guard, OpenPart, WritePart, Go, IInv, TypeOK, Intent, Saving
<1>5. CASE \/ Start(p) \/ LoadFails(p) \/ GuardFails(p) \/ Conflict(p) \/ Reload(p)
           \/ Replace(p) \/ SaveFails(p) \/ Finish(p) \/ Crash(p)
  BY <1>5 DEF Start, LoadFails, GuardFails, Conflict, Reload, Replace, SaveFails, Finish, Crash, Leave, Proceed, Go,
              IInv, TypeOK, Saving
<1> QED
  BY <1>2, <1>3, <1>4, <1>5 DEF Step

\* What is kept in mind only grows, but for a reading and the beginning and end of a command.
LEMMA RecentGrows ==
    ASSUME NEW q \in Procs, Remember
    PROVE  /\ pc'[q] # "idle" /\ ~Reads(q) => recent[q] \subseteq recent'[q]
           /\ pc'[q] # "idle" /\ pc[q] # "monitor" => Present' \in recent'[q]
BY DEF Remember, Reads

\* Only who goes on from a comparison it could not make has left something unread.
LEMMA ReadsWhatItUses ==
    ASSUME IInv, NEW p \in Procs, Step(p)
    PROVE  /\ mem'[p].unread => pc'[p] = "monitor"
           /\ mem'[p].unread /\ pc[p] # "monitor" => GuardFails(p)
           /\ pc'[p] = "monitor" => pc[p] # "monitor"
<1>0. /\ pc \in [Procs -> {"idle", "load", "change", "save", "reload", "monitor"} \union Saving]
      /\ mem \in [Procs -> [job : Commands, loaded : Lists \union {Missing, Blank}, doc : Lists,
                             monitored : SUBSET Codes, unread : BOOLEAN]]
      /\ pc[p] # "monitor" => ~mem[p].unread
  BY DEF IInv, TypeOK, Consulted
<1>1. ~Fresh.unread
  BY DEF Fresh
<1> USE <1>0 DEF Go
<1>2. CASE Start(p) \/ Load(p)
  BY <1>2 DEF Start, Load
<1>3. CASE LoadFails(p) \/ Finish(p) \/ Crash(p) \/ Conflict(p)
  BY <1>1, <1>3 DEF LoadFails, Finish, Crash, Conflict, Leave
<1>4. CASE Change(p)
  <2>1. PICK new \in Changed(mem[p].job, mem[p].doc) :
          IF new = mem[p].doc THEN Proceed(p, new.watched)
          ELSE Go(p, "save") /\ mem' = [mem EXCEPT ![p].doc = new]
    BY <1>4 DEF Change
  <2>2. pc[p] = "change"
    BY <1>4 DEF Change
  <2>3. CASE new = mem[p].doc
    BY <2>1, <2>2, <2>3, ProceedEnds DEF IInv
  <2>4. CASE new # mem[p].doc
    BY <2>1, <2>2, <2>4
  <2> QED
    BY <2>3, <2>4
<1>5. CASE Guard(p) \/ OpenPart(p) \/ WritePart(p)
  BY <1>5 DEF Guard, OpenPart, WritePart
<1>6. CASE Reload(p) \/ Replace(p) \/ SaveFails(p)
  <2>1. pc[p] # "monitor" /\ \E companies : Proceed(p, companies)
    BY <1>6 DEF Reload, Replace, SaveFails, Saving
  <2> QED
    BY <2>1, ProceedEnds DEF IInv
<1>7. CASE GuardFails(p)
  BY <1>1, <1>7 DEF GuardFails, Leave
<1> QED
  BY <1>2, <1>3, <1>4, <1>5, <1>6, <1>7 DEF Step

LEMMA StepKeepsConsulted ==
    ASSUME IInv, NEW p \in Procs, Step(p), Remember
    PROVE  Consulted'
<1>1. \A q \in Procs \ {p} : pc'[q] = pc[q] /\ mem'[q] = mem[q]
  BY StepsAreOnesOwn
<1>2. ASSUME NEW q \in Procs \ {p}
      PROVE  pc[q] \in {"change", "save", "monitor"} \union Saving => recent[q] \subseteq recent'[q]
  BY <1>1, RecentGrows DEF Saving, Reads
<1>10. mem'[p].unread => pc'[p] = "monitor"
  BY ReadsWhatItUses
<1> SUFFICES /\ pc'[p] = "change" => mem'[p].doc.watched \in recent'[p]
             /\ pc'[p] = "save" /\ mem'[p].job.cmd = "run" => mem'[p].doc.watched \in recent'[p]
             /\ pc'[p] \in Saving /\ mem'[p].job.cmd = "run" => mem'[p].doc.watched \in recent'[p]
             /\ pc'[p] = "monitor" => mem'[p].monitored \in recent'[p]
  BY <1>1, <1>2, <1>10 DEF IInv, Consulted
<1>3. CASE Load(p)
  <2>1. pc[p] = "load" /\ pc'[p] = "change" /\ list' = list /\ file # Torn /\ mem'[p].doc = Parsed(file)
    BY <1>3 DEF Load, Go, IInv, TypeOK
  <2>2. Present' = Parsed(file).watched
    BY <2>1 DEF Present, file
  <2> QED
    BY <2>1, <2>2, RecentGrows DEF Saving
<1>4. CASE Change(p)
  <2>1. PICK new \in Changed(mem[p].job, mem[p].doc) :
          IF new = mem[p].doc THEN Proceed(p, new.watched)
          ELSE Go(p, "save") /\ mem' = [mem EXCEPT ![p].doc = new]
    BY <1>4 DEF Change
  <2>2. pc[p] = "change" /\ mem[p].doc.watched \in recent[p]
    BY <1>4 DEF Change, IInv, Consulted
  <2>3. pc'[p] # "idle" => mem[p].doc.watched \in recent'[p]
    BY <2>2, RecentGrows DEF Reads
  <2>4. CASE new = mem[p].doc
    BY <2>1, <2>3, <2>4, ProceedEnds DEF IInv, Saving
  <2>5. CASE new # mem[p].doc
    <3>1. /\ pc'[p] = "save" /\ mem'[p].job = mem[p].job /\ mem'[p].doc = new
          /\ mem[p].doc \in Lists /\ mem[p].job \in Commands
      BY <2>1, <2>5 DEF Go, IInv, TypeOK
    <3>2. mem[p].job.cmd = "run" => new.watched = mem[p].doc.watched
      BY <3>1, ChangedLists
    <3> QED
      BY <2>3, <3>1, <3>2 DEF Saving
  <2> QED
    BY <2>4, <2>5
<1>5. CASE Guard(p)
  <2>1. /\ pc[p] = "save" /\ pc'[p] = "open" /\ mem' = mem /\ list' = list /\ file = mem[p].loaded
        /\ mem[p].doc \in Changed(mem[p].job, Parsed(mem[p].loaded))
    BY <1>5 DEF Guard, Go, IInv, TypeOK, Intent
  <2>2. mem[p].loaded \in Lists \union {Missing, Blank} /\ mem[p].job \in Commands
    BY DEF IInv, TypeOK
  <2>3. mem[p].job.cmd = "run" => mem[p].doc.watched = Parsed(file).watched
    BY <2>1, <2>2, ParsedLists, ChangedLists
  <2>4. Present' = Parsed(file).watched
    BY <2>1, <2>2, StoreAssumption DEF Present, file, StoreAssumption
  <2> QED
    BY <2>1, <2>3, <2>4, RecentGrows DEF Saving
<1>11. CASE GuardFails(p)
  <2>1. /\ pc[p] = "save" /\ pc'[p] \in {"idle", "monitor"}
        /\ pc'[p] = "monitor" => /\ mem[p].job.cmd = "run" /\ mem'[p].unread
                                 /\ mem'[p].monitored = mem[p].doc.watched
    BY <1>11 DEF GuardFails, Leave, Go, IInv, TypeOK, Fresh
  <2>2. pc'[p] = "monitor" => recent[p] \subseteq recent'[p] /\ mem[p].doc.watched \in recent[p]
    BY <2>1, RecentGrows DEF Reads, IInv, Consulted
  <2> QED
    BY <2>1, <2>2 DEF Saving
<1>6. CASE Reload(p)
  <2>1. pc[p] = "reload" /\ list' = list /\ file # Torn
    BY <1>6 DEF Reload
  <2>2. Present' = Parsed(file).watched
    BY <2>1 DEF Present, file
  <2>3. pc'[p] # "idle" => Parsed(file).watched \in recent'[p]
    BY <2>1, <2>2, RecentGrows
  <2> QED
    BY <1>6, <2>3, ProceedEnds DEF Reload, IInv, Saving
<1>7. CASE OpenPart(p) \/ WritePart(p)
  <2>1. /\ pc[p] \in Saving /\ pc'[p] \in Saving /\ mem' = mem
        /\ mem[p].job.cmd = "run" => mem[p].doc.watched \in recent[p]
    BY <1>7 DEF OpenPart, WritePart, Go, IInv, TypeOK, Consulted, Saving
  <2> QED
    BY <2>1, RecentGrows DEF Saving, Reads
<1>8. CASE Replace(p) \/ SaveFails(p)
  <2>1. /\ pc[p] \in Saving /\ Proceed(p, mem[p].doc.watched)
        /\ mem[p].job.cmd = "run" => mem[p].doc.watched \in recent[p]
    BY <1>8 DEF Replace, SaveFails, IInv, Consulted, Saving
  <2>2. pc'[p] # "idle" => recent[p] \subseteq recent'[p]
    BY <2>1, RecentGrows DEF Saving, Reads
  <2> QED
    BY <2>1, <2>2, ProceedEnds DEF IInv, Saving
<1>9. CASE Start(p) \/ LoadFails(p) \/ Conflict(p) \/ Finish(p) \/ Crash(p)
  BY <1>9 DEF Start, LoadFails, Conflict, Finish, Crash, Leave, Go, IInv, TypeOK, Saving
<1> QED
  BY <1>3, <1>4, <1>5, <1>6, <1>7, <1>8, <1>9, <1>11 DEF Step

LEMMA EditKeepsIntent ==
    ASSUME IInv, Edit, Remember
    PROVE  Intent' /\ Consulted'
<1>1. pc' = pc /\ mem' = mem
  BY DEF Edit
<1>2. \A q \in Procs :
          pc[q] \in {"change", "save", "monitor"} \union Saving => recent[q] \subseteq recent'[q]
  BY <1>1, RecentGrows DEF Saving, Reads
<1> QED
  BY <1>1, <1>2 DEF IInv, Intent, Consulted

-----------------------------------------------------------------------------
(* The theorems.                                                           *)

LEMMA StutterKeeps ==
    ASSUME IInv, UNCHANGED vars
    PROVE  IInv'
BY DEF vars, IInv, TypeOK, Calm, Intent, Consulted, file

LEMMA NextKeeps ==
    ASSUME IInv, [Next]_vars
    PROVE  IInv'
<1>1. CASE Edit /\ Remember
  BY <1>1, EditKeepsTypes, EditKeepsCalm, EditKeepsIntent DEF IInv
<1>2. ASSUME NEW p \in Procs, Step(p), UNCHANGED edited, Remember
      PROVE  IInv'
  BY <1>2, StepKeepsTypes, StepKeepsCalm, StepKeepsIntent, StepKeepsConsulted DEF IInv
<1> QED
  BY <1>1, <1>2, StutterKeeps DEF Next, Command

\* The invariant holds always: while saves do not overlap the .part is the saver's own, what it
\* writes is its change of what it loaded, and what a run monitors was on disk.
THEOREM InductiveInvariance == Spec => []IInv
<1>1. IInv /\ [Next]_vars => IInv'
  BY NextKeeps
<1> QED
  BY InitEstablishes, <1>1, PTL DEF Spec

\* Whatever the processes do to each other, there is a list, nothing, or two lists in one.
THEOREM TypeCorrectness == Spec => []TypeOK
<1>1. IInv => TypeOK
  BY DEF IInv
<1> QED
  BY InductiveInvariance, <1>1, PTL

\* While saves do not overlap the list is whole or absent, wherever one of them dies or fails
\* (store.py 194-200).
THEOREM ListIsKeptWhole == Spec => []ListIsWhole
<1>1. IInv => ListIsWhole
  BY DEF IInv, Calm, ListIsWhole
<1> QED
  BY InductiveInvariance, <1>1, PTL

\* A run works with a list that was there since it last read the file: since the comparison, or the
\* reading after a refused one, and since the load where nothing was to be saved or the file could
\* not be read to be compared (run.py 335-351, store.py 181-188, 215-222).
THEOREM RunsFollowTheList == Spec => []RunFollowsTheList
<1>1. IInv => RunFollowsTheList
  BY DEF IInv, Consulted, RunFollowsTheList
<1> QED
  BY InductiveInvariance, <1>1, PTL

LEMMA RenameIsMinimal ==
    ASSUME IInv, Next, NEW p \in Procs,
           pc[p] = "rename", pc'[p] # "rename", file' # file, ~overlapped
    PROVE  file' \in Changed(mem[p].job, Parsed(mem[p].loaded))
<1>1. Step(p)
  <2>1. ~Edit
    BY DEF Edit
  <2>2. PICK q \in Procs : Step(q)
    BY <2>1 DEF Next, Command
  <2>3. q = p
    BY <2>2, StepsAreOnesOwn
  <2> QED
    BY <2>2, <2>3
<1>2. /\ list \in Places(Lists) /\ Quiet(list) /\ list.part = mem[p].doc
      /\ mem[p].doc \in Changed(mem[p].job, Parsed(mem[p].loaded))
  BY DEF IInv, TypeOK, Calm, Intent, Saving
<1>3. CASE Replace(p)
  <2>1. file' = mem[p].doc
    BY <1>2, <1>3, RenamesAlone DEF Replace, file
  <2> QED
    BY <1>2, <2>1
<1>4. CASE SaveFails(p) \/ Crash(p)
  <2>1. file' = file
    BY <1>2, <1>4, ClosesAlone DEF SaveFails, Crash, file
  <2> QED
    BY <2>1
<1> QED
  BY <1>1, <1>3, <1>4 DEF Step, Start, Load, LoadFails, Change, Guard, GuardFails, Conflict, Reload, OpenPart, WritePart,
                          Finish

\* What a save puts in place is the list it loaded with its own change, and nothing else: no edit
\* that was there when the digests were compared is lost (store.py 182-201).
THEOREM SavesAreMinimal == Spec => SaveIsMinimal
<1> DEFINE Minimal ==
      \A p \in Procs :
        (pc[p] = "rename" /\ pc'[p] # "rename" /\ file' # file /\ ~overlapped) =>
            file' \in Changed(mem[p].job, Parsed(mem[p].loaded))
<1>1. IInv /\ Next => Minimal
  BY RenameIsMinimal
<1>2. IInv /\ [Next]_vars => [Minimal]_vars
  BY <1>1
<1>3. [][Minimal]_vars => SaveIsMinimal
  BY DEF SaveIsMinimal
<1> QED
  BY InductiveInvariance, <1>2, <1>3, PTL DEF Spec
=============================================================================
