--------------------------- MODULE PlacementProofs ---------------------------
(***************************************************************************)
(* Whatever competes for the names of a day, and wherever the commands     *)
(* die or fail, nobody's files are taken by the handling of another.  For  *)
(* any documents, versions, number of names, kinds and number of faults,   *)
(* as long as a file that is recorded can be unlinked.                     *)
(*                                                                         *)
(* A removal by path is safe because of what is recorded when: a row whose *)
(* file is gone belongs to a document that the command deals with before   *)
(* it fetches anything, so that no name that rows still point to is free   *)
(* while deliveries are placed.                                            *)
(***************************************************************************)
EXTENDS PlacementProperties, TLAPS

Busy == {"download", "extract", "name", "clear", "record", "mark"}

\* The points of the steps.
Control ==
    /\ step \in {"idle", "tidy", "sweep"} => at = "loop"
    /\ at = "forget" => step \in {"resolve", "enact", "enact_again"}
    /\ at \notin {"loop", "forget"} => step = "fetch"

\* What is left to do, against the manifest.
Flight(d) ==
    /\ step = "resolve" => (local[d] = "downloading" <=> d \in todo)
    /\ step \in {"enact", "tidy", "sweep", "enact_again"} => local[d] # "downloading"
    /\ step \in {"enact", "enact_again"} /\ d \in todo => local[d] = "absent"
    /\ step = "fetch" /\ d \in todo /\ local[d] # "discovered" =>
           Head(d) /\ at \in Busy \union {"discard"}
    /\ step = "fetch" /\ local[d] = "downloading" => Head(d) /\ at \in Busy
    /\ Head(d) /\ at \in Busy => local[d] = "downloading"

\* Whoever is queued, given up or dealt with has no rows.
Forgotten(d) ==
    /\ local[d] \in {"discovered", "failed"} => rows[d] = {}
    /\ step \in {"enact", "enact_again"} /\ d \notin todo /\ local[d] = "absent" => rows[d] = {}
    /\ step \in {"tidy", "sweep", "fetch"} /\ local[d] = "absent" => rows[d] = {}
    /\ step = "fetch" /\ Head(d) /\ at \in Busy \ {"mark"} => rows[d] = {}

\* A name that rows point to is taken while deliveries are placed, and as long as the document
\* is available.
Standing(d) ==
    local[d] = "available" \/ step = "fetch" => \A r \in rows[d] : held[r[1]] # {}

\* What was unlinked is gone.
Gone(d) ==
    at = "forget" /\ Head(d) => \A r \in rows[d] : \A x \in held[r[1]] : x[2] # r[2]

\* The files under one name are one document's; a filing's name, and the names its rows point
\* to, are the document's own.
Owners ==
    /\ \A n \in Names : \A x, y \in held[n] : x[1] = y[1]
    /\ \A d \in Docs : \A x \in held[Filing(d)] : x[1] = d
    /\ \A d \in Docs : \A r \in rows[d] : \A x \in held[r[1]] : x[1] = d

\* The delivery at hand, and the place that was made for it.
InHand(d) ==
    Head(d) =>
        /\ at \in {"extract", "name", "clear", "record"} => delivery \in Deliveries
        /\ at \in {"name", "clear"} => staging[d] # {} /\ "generated" \notin staging[d]
        /\ at = "clear" => /\ target \in {Candidate(d, i) : i \in 1 .. Tries}
                           /\ \A x \in held[target] : x[1] = d
        /\ at = "record" => /\ target \in Names \intersect NamesOf(d) /\ held[target] # {}
                            /\ \A x \in held[target] : x[1] = d

IInv ==
    /\ Types /\ Control /\ Owners /\ OwnNames
    /\ \A d \in Docs : Flight(d) /\ Forgotten(d) /\ Standing(d) /\ Gone(d) /\ InHand(d)

-----------------------------------------------------------------------------
(* Names, and the head of the queue.                                       *)

LEMMA NamesApart ==
    /\ \A d \in Docs : Filing(d) \in Names
    /\ \A d \in Docs, i \in 1 .. Tries : Candidate(d, i) \in Names
    /\ \A d, e \in Docs, i \in 1 .. Tries : Candidate(d, i) # Filing(e)
    /\ \A d, e \in Docs : Filing(d) = Filing(e) => d = e
<1>1. \A d \in Docs : Filing(d) \in Names
  BY DEF Names
<1>2. \A d \in Docs, i \in 1 .. Tries : Candidate(d, i) \in Names
  BY DEF Names
<1>3. \A d, e \in Docs, i \in 1 .. Tries : Candidate(d, i) # Filing(e)
  BY DEF Candidate, Filing
<1>4. \A d, e \in Docs : Filing(d) = Filing(e) => d = e
  BY DEF Filing
<1>5. QED
  BY <1>1, <1>2, <1>3, <1>4

LEMMA OneHead ==
    ASSUME NEW d \in Docs, NEW e \in Docs, Head(d), Head(e)
    PROVE  d = e
BY PlacementAssumption DEF PlacementAssumption, Head

LEMMA InitEstablishes == Init => IInv
<1> SUFFICES ASSUME Init PROVE IInv
  OBVIOUS
<1>1. Types
  BY PlacementAssumption DEF PlacementAssumption, Init, Types
<1>2. Owners
  <2>1. \A n \in Names : held[n] = {}
    BY DEF Init
  <2>2. \A d \in Docs : rows[d] = {}
    BY DEF Init
  <2> QED
    BY <2>1, <2>2, NamesApart DEF Owners
<1>3. ASSUME NEW d \in Docs
      PROVE  Flight(d) /\ Forgotten(d) /\ Standing(d) /\ Gone(d) /\ InHand(d)
  BY DEF Init, Flight, Forgotten, Standing, Gone, InHand, Head, Busy
<1>4. OwnNames
  BY NamesApart DEF Init, OwnNames
<1>5. QED
  BY <1>1, <1>2, <1>3, <1>4 DEF IInv, Init, Control

-----------------------------------------------------------------------------
(* Types.                                                                  *)

LEMMA CommandKeepsTypes ==
    ASSUME Types, Command \/ Crash
    PROVE  Types'
<1> USE PlacementAssumption
    DEF PlacementAssumption, Types, Enter, Sound, Fault, Empty, InState, manifest, tree, hand
<1>1. CASE Begin \/ ResolveDone \/ FetchDone
  BY <1>1 DEF Begin, ResolveDone, FetchDone, On
<1>0. CASE EnactDone
  BY <1>0 DEF EnactDone
<1>5. CASE Crash
  BY <1>5 DEF Crash
<1>2. CASE Tidy
  BY <1>2 DEF Tidy
<1>3. ASSUME NEW gone \in SUBSET Docs, NEW wanted \in SUBSET Docs, Sweep(gone, wanted)
      PROVE  Types'
  BY <1>3 DEF Sweep
<1>4. QED
  BY <1>0, <1>1, <1>2, <1>3, <1>5 DEF Command

LEMMA ReconcileKeepsTypes ==
    ASSUME Types, NEW d \in Docs, Reconcile(d)
    PROVE  Types'
<1> USE DEF Types, Sound, manifest, tree, hand, Passed, At
<1>1. CASE Recovered(d)
  BY <1>1 DEF Recovered
<1>2. CASE Remove(d)
  <2>1. held' \in [Names -> SUBSET (Docs \X {"document", "member", "imposed", "stale"})]
    BY <1>2 DEF Remove, Unlink
  <2> QED
    BY <1>2, <2>1 DEF Remove, Unlink
<1>3. CASE Forget(d)
  <2>1. rows' \in [Docs -> SUBSET (Names \X {"document", "member", "imposed"})]
    BY <1>3 DEF Forget
  <2>2. local' \in [Docs -> {"absent", "discovered", "downloading", "available", "failed"}]
    BY <1>3 DEF Forget
  <2> QED
    BY <1>3, <2>1, <2>2 DEF Forget
<1>4. QED
  BY <1>1, <1>2, <1>3 DEF Reconcile

LEMMA FetchKeepsTypes ==
    ASSUME IInv, NEW d \in Docs, Fetch(d)
    PROVE  Types'
<1> USE DEF IInv, Types, Sound, manifest, tree, hand, control, Passed, At
<1>1. CASE ClearStaging(d) \/ StartDownload(d) \/ Discard(d)
  BY <1>1 DEF ClearStaging, StartDownload, Discard, Empty
<1>2. CASE Receive(d)
  <2>1. \A f \in Files : Leftover(f) \in Files
    BY DEF Files, Leftover
  <2> QED
    BY <1>2, <2>1 DEF Receive
<1>3. ASSUME NEW f \in Files, Extract(d, f)
      PROVE  Types'
  BY <1>3 DEF Extract
<1>4. CASE PlaceFiling(d)
  <2>1. <<d, "document">> \in Docs \X {"document", "member", "imposed", "stale"}
    OBVIOUS
  <2> QED
    BY <1>4, <2>1, NamesApart DEF PlaceFiling
<1>5. CASE ImposeNames(d)
  <2>1. \A f \in Files : Imposed(f) \in Files
    BY DEF Files, Imposed
  <2> QED
    BY <1>5, <2>1 DEF ImposeNames
<1>6. ASSUME NEW i \in 1 .. Tries, ChooseName(d, i)
      PROVE  Types'
  BY <1>6, NamesApart DEF ChooseName
<1>7. ASSUME NEW x \in Docs \X Files, ClearTarget(d, x)
      PROVE  Types'
  BY <1>7 DEF ClearTarget
<1>8. CASE PlaceContainer(d)
  <2>1. staging[d] \subseteq {"document", "member", "imposed", "stale"}
    BY <1>8 DEF PlaceContainer, InHand, Files, On
  <2>2. {<<d, f>> : f \in staging[d]} \subseteq Docs \X {"document", "member", "imposed", "stale"}
    BY <2>1
  <2> QED
    BY <1>8, <2>2 DEF PlaceContainer
<1>9. CASE RecordFiles(d)
  <2>1. target \in Names /\ delivery \in Deliveries
    BY <1>9 DEF RecordFiles, InHand, On
  <2>2. {<<target, Imposed(f)>> : f \in delivery} \subseteq Names \X {"document", "member", "imposed"}
    BY <2>1 DEF Deliveries, Imposed
  <2> QED
    BY <1>9, <2>2 DEF RecordFiles
<1>10. CASE MarkAvailable(d)
  BY <1>10 DEF MarkAvailable
<1>11. CASE DownloadFails(d)
  BY <1>11 DEF DownloadFails, Abandon
<1>12. QED
  BY <1>1, <1>2, <1>3, <1>4, <1>5, <1>6, <1>7, <1>8, <1>9, <1>10, <1>11 DEF Fetch

LEMMA FailureKeepsTypes ==
    ASSUME Types, Failure
    PROVE  Types'
<1>1. CASE Crash
  BY <1>1, CommandKeepsTypes
<1>2. ASSUME NEW d \in Docs,
             ArchiveFails(d) \/ TidyStuck(d) \/ ClearStagingStuck(d) \/ DiscardStuck(d)
      PROVE  Types'
  <2> USE PlacementAssumption
      DEF PlacementAssumption, Types, Fault, manifest, tree, hand, Passed, At, Enter
  <2>1. CASE ArchiveFails(d)
    BY <2>1 DEF ArchiveFails, Abandon
  <2>2. CASE TidyStuck(d)
    BY <2>2 DEF TidyStuck
  <2>3. CASE ClearStagingStuck(d)
    BY <2>3 DEF ClearStagingStuck
  <2>4. CASE DiscardStuck(d)
    BY <2>4 DEF DiscardStuck, Empty
  <2> QED
    BY <1>2, <2>1, <2>2, <2>3, <2>4
<1>3. QED
  BY <1>1, <1>2 DEF Failure

-----------------------------------------------------------------------------
(* Who is at hand: the steps, their points and their queues.               *)

LEMMA CommandKeepsFlight ==
    ASSUME IInv, Command \/ Crash
    PROVE  Control' /\ \A d \in Docs : Flight(d)' /\ Forgotten(d)' /\ Gone(d)' /\ InHand(d)'
<1> USE DEF IInv, Control, Enter, InState, Busy
<1>1. ASSUME NEW d \in Docs PROVE Gone(d)' /\ InHand(d)'
  BY DEF Command, Begin, ResolveDone, EnactDone, Tidy, Sweep, FetchDone, Crash, Gone, InHand
<1>2. CASE Begin \/ FetchDone \/ Crash
  BY <1>1, <1>2 DEF Begin, FetchDone, Crash, Flight, Forgotten, manifest, Head
<1>3. CASE ResolveDone
  BY <1>1, <1>3 DEF ResolveDone, On, Flight, Forgotten, manifest, Head
<1>4. CASE EnactDone
  BY <1>1, <1>4 DEF EnactDone, Flight, Forgotten, manifest, Head
<1>5. CASE Tidy
  BY <1>1, <1>5 DEF Tidy, Flight, Forgotten, manifest, Head
<1>6. ASSUME NEW gone \in SUBSET Docs, NEW wanted \in SUBSET Docs, Sweep(gone, wanted)
      PROVE  Control' /\ \A d \in Docs : Flight(d)' /\ Forgotten(d)'
  <2>1. ASSUME NEW d \in Docs PROVE Flight(d)'
    BY <1>6, <2>1 DEF Sweep, Flight, Head, Types
  <2>2. ASSUME NEW d \in Docs PROVE Forgotten(d)'
    BY <1>6, <2>2 DEF Sweep, Forgotten, Flight, Head, Types
  <2> QED
    BY <1>6, <2>1, <2>2 DEF Sweep
<1>7. QED
  BY <1>1, <1>2, <1>3, <1>4, <1>5, <1>6 DEF Command

LEMMA ReconcileKeepsFlight ==
    ASSUME IInv, NEW d \in Docs, Reconcile(d)
    PROVE  Control' /\ \A e \in Docs : Flight(e)' /\ Forgotten(e)' /\ Gone(e)' /\ InHand(e)'
<1> USE DEF IInv, Control, Passed, At, On, Busy
<1>1. CASE Recovered(d)
  <2>1. ASSUME NEW e \in Docs PROVE Flight(e)' /\ Forgotten(e)' /\ Gone(e)' /\ InHand(e)'
    BY <1>1, <2>1 DEF Recovered, Flight, Forgotten, Gone, InHand, Types
  <2> QED
    BY <1>1, <2>1 DEF Recovered
<1>2. CASE Remove(d)
  <2>1. UNCHANGED <<local, rows, step, todo>> /\ at' = "forget" /\ at = "loop"
        /\ step \in {"resolve", "enact", "enact_again"} /\ Head(d)
    BY <1>2 DEF Remove, Unlink, manifest
  <2>2. ASSUME NEW e \in Docs PROVE Flight(e)' /\ Forgotten(e)' /\ InHand(e)'
    BY <2>1, <2>2 DEF Flight, Forgotten, InHand, Head
  <2>3. Gone(d)'
    <3>1. ASSUME NEW r \in rows[d], NEW x \in held'[r[1]] PROVE x[2] # r[2]
      <4>1. r[1] \in Names /\ r = <<r[1], r[2]>>
        BY <3>1 DEF Types
      <4>2. <<r[1], x[2]>> \notin rows[d]
        BY <1>2, <3>1, <4>1 DEF Remove, Unlink
      <4> QED
        BY <4>1, <4>2
    <3> QED
      BY <2>1, <3>1 DEF Gone
  <2>4. ASSUME NEW e \in Docs PROVE Gone(e)'
    <3>1. Head(e)' => e = d
      BY <2>1, OneHead DEF Head
    <3> QED
      BY <2>3, <3>1 DEF Gone
  <2> QED
    BY <2>1, <2>2, <2>4
<1>3. CASE Forget(d)
  <2>1. rows'[d] = {} /\ \A e \in Docs \ {d} : rows'[e] = rows[e]
    <3>1. ASSUME NEW r \in rows[d] PROVE \A x \in held[r[1]] : x[2] # r[2]
      BY <1>3 DEF Forget, Gone
    <3> QED
      BY <1>3, <3>1 DEF Forget, Types
  <2>2. /\ \A e \in Docs \ {d} : local'[e] = local[e]
        /\ step = "resolve" => local'[d] \in {"discovered", "failed"}
        /\ step # "resolve" => local'[d] = local[d]
    BY <1>3 DEF Forget, Types
  <2>3. todo' = todo \ {d} /\ step' = step /\ at' = "loop" /\ step \in {"resolve", "enact", "enact_again"}
    BY <1>3 DEF Forget
  <2>4. ASSUME NEW e \in Docs PROVE Flight(e)' /\ Forgotten(e)' /\ Gone(e)' /\ InHand(e)'
    BY <2>1, <2>2, <2>3, <2>4 DEF Flight, Forgotten, Gone, InHand
  <2> QED
    BY <2>3, <2>4
<1>4. QED
  BY <1>1, <1>2, <1>3 DEF Reconcile

\* A step within the handling of one document, which changes its state and rows at most.
LEMMA HandlingKeepsFlight ==
    ASSUME IInv, NEW d \in Docs, Head(d), step = "fetch", UNCHANGED <<step, todo>>,
           at' \in Busy \union {"start", "discard"},
           \A e \in Docs \ {d} : local'[e] = local[e] /\ rows'[e] = rows[e],
           at' = "start" => local'[d] = "discovered",
           at' \in Busy <=> local'[d] = "downloading",
           local'[d] \in {"discovered", "failed", "absent"} \/ at' \in Busy \ {"mark"} => rows'[d] = {}
    PROVE  Control' /\ \A e \in Docs : Flight(e)' /\ Forgotten(e)' /\ Gone(e)'
<1>1. \A e \in Docs : Head(e)' <=> e = d
  BY OneHead DEF Head
<1>2. Control' /\ at' \notin {"loop", "forget"}
  BY DEF Control, Busy
<1>3. Flight(d)' /\ Forgotten(d)' /\ Gone(d)'
  BY <1>1, <1>2 DEF Flight, Forgotten, Gone, Busy
<1>4. ASSUME NEW e \in Docs \ {d} PROVE Flight(e)' /\ Forgotten(e)' /\ Gone(e)'
  <2>1. ~Head(e) /\ ~Head(e)'
    BY <1>1, OneHead
  <2>2. Flight(e) /\ Forgotten(e)
    BY DEF IInv
  <2>3. local'[e] = local[e] /\ rows'[e] = rows[e]
    OBVIOUS
  <2> QED
    BY <1>2, <2>1, <2>2, <2>3 DEF Flight, Forgotten, Gone
<1>5. QED
  BY <1>2, <1>3, <1>4

LEMMA FetchKeepsFlight ==
    ASSUME IInv, NEW d \in Docs,
           Fetch(d) \/ ArchiveFails(d) \/ ClearStagingStuck(d) \/ DiscardStuck(d)
    PROVE  Control' /\ \A e \in Docs : Flight(e)' /\ Forgotten(e)' /\ Gone(e)'
<1>1. Head(d) /\ step = "fetch"
  BY DEF Fetch, ClearStaging, StartDownload, Receive, Extract, PlaceFiling, ImposeNames, ChooseName,
         ClearTarget, PlaceContainer, RecordFiles, MarkAvailable, DownloadFails, Discard,
         ArchiveFails, ClearStagingStuck, DiscardStuck, On
<1>2. /\ local \in [Docs -> {"absent", "discovered", "downloading", "available", "failed"}]
      /\ rows \in [Docs -> SUBSET (Names \X {"document", "member", "imposed"})]
      /\ d \in todo /\ Flight(d) /\ Forgotten(d)
  BY <1>1 DEF IInv, Types, Head
<1>3. at \in Busy => local[d] = "downloading"
  BY <1>1, <1>2 DEF Flight
<1>4. CASE ClearStaging(d) \/ ClearStagingStuck(d)
  <2>1. /\ UNCHANGED <<step, todo, local, rows>> /\ at' = "start" /\ at = "loop"
    BY <1>4 DEF ClearStaging, ClearStagingStuck, At, manifest, On
  <2>2. local[d] = "discovered"
    BY <1>1, <1>2, <2>1 DEF Flight, Busy
  <2> QED
    BY <1>1, <1>2, <2>1, <2>2, HandlingKeepsFlight DEF Forgotten, Busy
<1>5. CASE StartDownload(d)
  <2>1. UNCHANGED <<step, todo, rows>> /\ at' = "download" /\ at = "start"
        /\ local' = [local EXCEPT ![d] = "downloading"]
    BY <1>5 DEF StartDownload, At, On
  <2>2. local[d] = "discovered" /\ rows[d] = {}
    BY <1>1, <1>2, <2>1 DEF Flight, Forgotten, Busy
  <2> QED
    BY <1>1, <1>2, <2>1, <2>2, HandlingKeepsFlight DEF Busy
<1>6. CASE \/ Receive(d) \/ (\E f \in Files : Extract(d, f)) \/ PlaceFiling(d) \/ ImposeNames(d)
           \/ (\E i \in 1 .. Tries : ChooseName(d, i))
           \/ (\E x \in Docs \X Files : ClearTarget(d, x)) \/ PlaceContainer(d)
  <2>1. UNCHANGED <<step, todo, local, rows>> /\ at \in Busy \ {"mark"} /\ at' \in Busy \ {"mark"}
    BY <1>6 DEF Receive, Extract, PlaceFiling, ImposeNames, ChooseName, ClearTarget, PlaceContainer,
                At, On, manifest, control, Busy
  <2> QED
    BY <1>1, <1>2, <1>3, <2>1, HandlingKeepsFlight DEF Forgotten, Busy
<1>7. CASE RecordFiles(d)
  <2>1. UNCHANGED <<step, todo, local>> /\ at = "record" /\ at' = "mark"
        /\ \A e \in Docs \ {d} : rows'[e] = rows[e]
    BY <1>2, <1>7 DEF RecordFiles, At, On
  <2> QED
    BY <1>1, <1>2, <1>3, <2>1, HandlingKeepsFlight DEF Busy
<1>8. CASE MarkAvailable(d)
  <2>1. UNCHANGED <<step, todo, rows>> /\ at' = "discard" /\ local' = [local EXCEPT ![d] = "available"]
    BY <1>8 DEF MarkAvailable, At
  <2> QED
    BY <1>1, <1>2, <2>1, HandlingKeepsFlight DEF Busy
<1>9. CASE DownloadFails(d) \/ ArchiveFails(d)
  <2>1. UNCHANGED <<step, todo, rows>> /\ at' = "discard" /\ at \in Busy \ {"mark"}
    BY <1>9 DEF DownloadFails, ArchiveFails, Abandon, At, Busy
  <2>2. \E s \in {"discovered", "failed"} : local' = [local EXCEPT ![d] = s]
    BY <1>9 DEF DownloadFails, ArchiveFails, Abandon
  <2>3. rows[d] = {}
    BY <1>1, <1>2, <2>1 DEF Forgotten
  <2> QED
    BY <1>1, <1>2, <2>1, <2>2, <2>3, HandlingKeepsFlight DEF Busy
<1>10. CASE Discard(d) \/ DiscardStuck(d)
  <2>1. UNCHANGED <<step, local, rows>> /\ at = "discard" /\ at' = "loop" /\ todo' = todo \ {d}
    BY <1>10 DEF Discard, DiscardStuck, Passed, On, manifest
  <2>2. Control'
    BY <2>1 DEF Control
  <2>3. ASSUME NEW e \in Docs PROVE Flight(e)' /\ Forgotten(e)' /\ Gone(e)'
    <3>1. Flight(e) /\ Forgotten(e) /\ (Head(e) => e = d)
      BY <1>1, OneHead DEF IInv
    <3> QED
      BY <1>1, <2>1, <3>1 DEF Flight, Forgotten, Gone, Busy
  <2> QED
    BY <2>2, <2>3
<1>11. QED
  BY <1>4, <1>5, <1>6, <1>7, <1>8, <1>9, <1>10 DEF Fetch

-----------------------------------------------------------------------------
(* The delivery at hand.                                                   *)

LEMMA FetchKeepsHand ==
    ASSUME IInv, NEW d \in Docs,
           Fetch(d) \/ ArchiveFails(d) \/ ClearStagingStuck(d) \/ DiscardStuck(d)
    PROVE  \A e \in Docs : InHand(e)'
<1>1. Head(d) /\ step = "fetch"
  BY DEF Fetch, ClearStaging, StartDownload, Receive, Extract, PlaceFiling, ImposeNames, ChooseName,
         ClearTarget, PlaceContainer, RecordFiles, MarkAvailable, DownloadFails, Discard,
         ArchiveFails, ClearStagingStuck, DiscardStuck, On
<1>2. CASE at' \in {"loop", "start", "download", "mark", "discard"}
  BY <1>2 DEF InHand
<1>3. ASSUME UNCHANGED todo, InHand(d)'
      PROVE  \A e \in Docs : InHand(e)'
  <2>1. \A e \in Docs : Head(e)' => e = d
    BY <1>1, <1>3, OneHead DEF Head
  <2> QED
    BY <1>3, <2>1 DEF InHand
<1> USE DEF IInv, Types
<1>4. CASE Receive(d)
  BY <1>3, <1>4 DEF Receive, InHand, At
<1>5. ASSUME NEW f \in Files, Extract(d, f)
      PROVE  \A e \in Docs : InHand(e)'
  BY <1>1, <1>3, <1>5 DEF Extract, InHand, On, control, hand
<1>6. CASE PlaceFiling(d)
  <2>1. /\ at' = "record" /\ target' = Filing(d) /\ Filing(d) \in Names /\ delivery' \in Deliveries
        /\ held' = [held EXCEPT ![Filing(d)] = {<<d, "document">>}] /\ UNCHANGED todo
    BY <1>1, <1>6, NamesApart DEF PlaceFiling, At, On, InHand
  <2>2. held'[target'] = {<<d, "document">>}
    BY <2>1
  <2>3. /\ target' \in Names \intersect NamesOf(d) /\ held'[target'] # {}
        /\ \A x \in held'[target'] : x[1] = d
    <3>1. ASSUME NEW S, S = {<<d, "document">>} PROVE S # {} /\ \A x \in S : x[1] = d
      BY <3>1
    <3> QED
      BY <2>1, <2>2, <3>1 DEF NamesOf
  <2>4. InHand(d)'
    BY <2>1, <2>3 DEF InHand
  <2> QED
    BY <1>3, <2>1, <2>4
<1>7. CASE ImposeNames(d)
  <2>1. at = "extract" /\ at' = "name" /\ UNCHANGED <<delivery, todo>> /\ delivery \subseteq staging[d]
        /\ staging'[d] = {Imposed(f) : f \in staging[d]}
    BY <1>7 DEF ImposeNames, At, On, hand
  <2>2. delivery \in Deliveries
    BY <1>1, <2>1 DEF InHand
  <2>3. staging'[d] # {} /\ "generated" \notin staging'[d]
    BY <2>1, <2>2 DEF Deliveries, Imposed
  <2> QED
    BY <1>3, <2>1, <2>2, <2>3 DEF InHand
<1>8. ASSUME NEW i \in 1 .. Tries, ChooseName(d, i)
      PROVE  \A e \in Docs : InHand(e)'
  <2>1. /\ at = "name" /\ at' = "clear" /\ UNCHANGED <<held, staging, delivery, todo>>
        /\ target' = Candidate(d, i) /\ Usable(d, Candidate(d, i)) /\ Candidate(d, i) \in Names
    BY <1>8, NamesApart DEF ChooseName, At, On, tree
  <2>2. \A x \in held[Candidate(d, i)] : x[1] = d
    BY <2>1 DEF Usable, Owners
  <2>3. delivery \in Deliveries /\ staging[d] # {} /\ "generated" \notin staging[d]
    BY <1>1, <2>1 DEF InHand
  <2> QED
    BY <1>3, <2>1, <2>2, <2>3 DEF InHand
<1>9. ASSUME NEW x \in Docs \X Files, ClearTarget(d, x)
      PROVE  \A e \in Docs : InHand(e)'
  <2>1. at = "clear" /\ UNCHANGED <<at, target, staging, delivery, todo>>
        /\ held' = [held EXCEPT ![target] = @ \ {x}]
    BY <1>9 DEF ClearTarget, On, control, hand
  <2>2. InHand(d) /\ held'[target] \subseteq held[target]
    BY <2>1
  <2> QED
    BY <1>1, <1>3, <2>1, <2>2 DEF InHand
<1>10. CASE PlaceContainer(d)
  <2>1. /\ at = "clear" /\ at' = "record" /\ UNCHANGED <<target, delivery, todo>>
        /\ held' = [held EXCEPT ![target] = {<<d, f>> : f \in staging[d]}]
    BY <1>10 DEF PlaceContainer, On, At, hand
  <2>2. /\ delivery \in Deliveries /\ staging[d] # {} /\ target \in {Candidate(d, i) : i \in 1 .. Tries}
    BY <1>1, <2>1 DEF InHand
  <2>3. target \in Names \intersect NamesOf(d)
    BY <2>2, NamesApart DEF NamesOf
  <2>4. held'[target] = {<<d, f>> : f \in staging[d]}
    BY <2>1, <2>3
  <2>5. held'[target] # {} /\ \A x \in held'[target] : x[1] = d
    <3>1. PICK f \in staging[d] : TRUE
      BY <2>2
    <3>2. <<d, f>> \in held'[target]
      BY <2>4
    <3>3. ASSUME NEW x \in held'[target] PROVE x[1] = d
      <4>1. PICK g \in staging[d] : x = <<d, g>>
        BY <2>4, <3>3
      <4> QED
        BY <4>1
    <3> QED
      BY <3>2, <3>3
  <2>6. InHand(d)'
    BY <2>1, <2>2, <2>3, <2>5 DEF InHand
  <2> QED
    BY <1>3, <2>1, <2>6
<1>11. CASE \/ ClearStaging(d) \/ StartDownload(d) \/ RecordFiles(d) \/ MarkAvailable(d) \/ Discard(d)
            \/ DownloadFails(d) \/ ArchiveFails(d) \/ ClearStagingStuck(d) \/ DiscardStuck(d)
  <2>1. at' \in {"loop", "start", "download", "mark", "discard"}
    BY <1>11 DEF ClearStaging, StartDownload, RecordFiles, MarkAvailable, Discard, DownloadFails,
                 ArchiveFails, ClearStagingStuck, DiscardStuck, Abandon, At, Passed
  <2> QED
    BY <1>2, <2>1
<1>12. QED
  BY <1>4, <1>5, <1>6, <1>7, <1>8, <1>9, <1>10, <1>11 DEF Fetch

-----------------------------------------------------------------------------
(* The files: who may touch which, and what rows still point to.           *)

\* What a step changes under one name was the files of the document at hand, and still is.
OwnMoves ==
    \A n \in Names : held'[n] # held[n] =>
        \E d \in Docs : /\ Head(d) /\ local[d] # "available"
                        /\ \A x \in held[n] \union held'[n] : x[1] = d
                        /\ \A e \in Docs : n = Filing(e) => held'[n] \subseteq held[n] \/ e = d
                        /\ IF step = "fetch" THEN rows[d] = {} ELSE held'[n] \subseteq held[n]

LEMMA StepsMoveTheirOwn ==
    ASSUME IInv, Next
    PROVE  OwnMoves
<1> USE DEF IInv, Types
<1>1. ASSUME NEW d \in Docs, Remove(d)
      PROVE  OwnMoves
  <2>1. /\ Head(d) /\ step \in {"resolve", "enact", "enact_again"} /\ at = "loop"
        /\ held' = [n \in Names |-> {x \in held[n] : <<n, x[2]>> \notin rows[d]}]
    BY <1>1 DEF Remove, Unlink
  <2>2. ASSUME NEW n \in Names, held'[n] # held[n]
        PROVE  held'[n] \subseteq held[n] /\ \A x \in held[n] : x[1] = d
    <3>1. held'[n] = {x \in held[n] : <<n, x[2]>> \notin rows[d]}
      BY <2>1
    <3>2. PICK y \in held[n] : <<n, y[2]>> \in rows[d]
      BY <2>2, <3>1
    <3>3. \A x \in held[n] : x[1] = d
      BY <3>2 DEF Owners
    <3> QED
      BY <3>1, <3>3
  <2>3. local[d] # "available"
    BY <2>1 DEF Flight, Head
  <2> QED
    BY <2>1, <2>2, <2>3 DEF OwnMoves
<1>2. ASSUME NEW d \in Docs, PlaceFiling(d)
      PROVE  OwnMoves
  <2>1. Head(d) /\ at = "extract" /\ held' = [held EXCEPT ![Filing(d)] = {<<d, "document">>}]
        /\ step = "fetch"
    BY <1>2 DEF PlaceFiling, On
  <2>2. local[d] # "available"
    BY <2>1 DEF Flight, Busy
  <2>5. rows[d] = {}
    BY <2>1 DEF Forgotten, Busy
  <2>3. \A x \in held[Filing(d)] : x[1] = d
    BY DEF Owners
  <2>4. \A x \in held'[Filing(d)] : x[1] = d
    BY <2>1, NamesApart
  <2> QED
    BY <2>1, <2>2, <2>3, <2>4, <2>5, NamesApart DEF OwnMoves
<1>3. ASSUME NEW d \in Docs, PlaceContainer(d) \/ \E x \in Docs \X Files : ClearTarget(d, x)
      PROVE  OwnMoves
  <2>1. Head(d) /\ at = "clear" /\ step = "fetch"
    BY <1>3 DEF PlaceContainer, ClearTarget, On
  <2>2. target \in Names /\ (\A x \in held[target] : x[1] = d) /\ \A e \in Docs : target # Filing(e)
    BY <2>1, NamesApart DEF InHand
  <2>3. local[d] # "available" /\ rows[d] = {}
    BY <2>1 DEF Flight, Forgotten, Busy
  <2>4. \A n \in Names \ {target} : held'[n] = held[n]
    BY <1>3 DEF PlaceContainer, ClearTarget
  <2>5. \A x \in held'[target] : x[1] = d
    BY <1>3, <2>2 DEF PlaceContainer, ClearTarget
  <2> QED
    BY <2>1, <2>2, <2>3, <2>4, <2>5 DEF OwnMoves
<1>4. ASSUME UNCHANGED held
      PROVE  OwnMoves
  BY <1>4 DEF OwnMoves
<1>5. CASE Command \/ Crash
  BY <1>4, <1>5 DEF Command, Begin, ResolveDone, EnactDone, Tidy, Sweep, FetchDone, Crash, tree
<1>6. ASSUME NEW d \in Docs, Reconcile(d)
      PROVE  OwnMoves
  BY <1>1, <1>4, <1>6 DEF Reconcile, Recovered, Forget, tree
<1>7. ASSUME NEW d \in Docs, Fetch(d)
      PROVE  OwnMoves
  BY <1>2, <1>3, <1>4, <1>7
  DEF Fetch, ClearStaging, StartDownload, Receive, Extract, ImposeNames, ChooseName, RecordFiles,
      MarkAvailable, DownloadFails, Discard, Abandon, tree
<1>8. ASSUME NEW d \in Docs,
             ArchiveFails(d) \/ TidyStuck(d) \/ ClearStagingStuck(d) \/ DiscardStuck(d)
      PROVE  OwnMoves
  BY <1>4, <1>8 DEF ArchiveFails, TidyStuck, ClearStagingStuck, DiscardStuck, Abandon, tree
<1>9. QED
  BY <1>5, <1>6, <1>7, <1>8 DEF Next, Progress, Failure

\* Rows are forgotten, or they are written for what has just been placed.
LEMMA RowsMove ==
    ASSUME IInv, Next
    PROVE  \/ \A e \in Docs : rows'[e] \subseteq rows[e]
           \/ \E d \in Docs : RecordFiles(d)
<1>1. ASSUME NEW d \in Docs, Forget(d)
      PROVE  \A e \in Docs : rows'[e] \subseteq rows[e]
  BY <1>1 DEF Forget, IInv, Types
<1>2. CASE Command \/ Crash
  BY <1>2 DEF Command, Begin, ResolveDone, EnactDone, Tidy, Sweep, FetchDone, Crash, manifest
<1>3. ASSUME NEW d \in Docs, Reconcile(d)
      PROVE  \A e \in Docs : rows'[e] \subseteq rows[e]
  BY <1>1, <1>3 DEF Reconcile, Recovered, Remove, Unlink, manifest
<1>4. ASSUME NEW d \in Docs, Fetch(d), ~RecordFiles(d)
      PROVE  UNCHANGED rows
  BY <1>4
  DEF Fetch, ClearStaging, StartDownload, Receive, Extract, PlaceFiling, ImposeNames, ChooseName,
      ClearTarget, PlaceContainer, MarkAvailable, DownloadFails, Discard, Abandon, manifest
<1>5. ASSUME NEW d \in Docs,
             ArchiveFails(d) \/ TidyStuck(d) \/ ClearStagingStuck(d) \/ DiscardStuck(d)
      PROVE  UNCHANGED rows
  BY <1>5 DEF ArchiveFails, TidyStuck, ClearStagingStuck, DiscardStuck, Abandon, manifest
<1>6. QED
  BY <1>2, <1>3, <1>4, <1>5 DEF Next, Progress, Failure

\* What is recorded is the document's own, and is there.
LEMMA RecordingIsOwn ==
    ASSUME IInv, NEW d \in Docs, RecordFiles(d)
    PROVE  /\ UNCHANGED <<held, local, step, todo>> /\ step = "fetch" /\ target \in Names
           /\ held[target] # {} /\ \A x \in held[target] : x[1] = d
           /\ \A r \in rows'[d] : r[1] = target
           /\ \A e \in Docs \ {d} : rows'[e] = rows[e]
<1>1. /\ Head(d) /\ at = "record" /\ step = "fetch" /\ UNCHANGED <<held, local, step, todo>>
      /\ rows' = [rows EXCEPT ![d] = {<<target, Imposed(f)>> : f \in delivery}]
  BY DEF RecordFiles, On, At, tree
<1>2. InHand(d)
  BY DEF IInv
<1>3. QED
  BY <1>1, <1>2 DEF InHand, IInv, Types

LEMMA OwnersKept ==
    ASSUME IInv, Next
    PROVE  Owners'
<1> USE DEF IInv
<1>1. OwnMoves
  BY StepsMoveTheirOwn
<1>2. ASSUME NEW n \in Names PROVE \A x, y \in held'[n] : x[1] = y[1]
  BY <1>1 DEF OwnMoves, Owners
<1>3. ASSUME NEW e \in Docs PROVE \A x \in held'[Filing(e)] : x[1] = e
  BY <1>1, NamesApart DEF OwnMoves, Owners
<1>4. ASSUME NEW e \in Docs, NEW r \in rows'[e], r \in rows[e], NEW x \in held'[r[1]]
      PROVE  x[1] = e
  <2>1. r[1] \in Names
    BY <1>4 DEF Types
  <2>2. \A y \in held[r[1]] : y[1] = e
    BY <1>4 DEF Owners
  <2>3. CASE held'[r[1]] \subseteq held[r[1]]
    BY <2>2, <2>3
  <2>4. CASE ~(held'[r[1]] \subseteq held[r[1]])
    <3>1. PICK d \in Docs : step = "fetch" /\ \A y \in held[r[1]] \union held'[r[1]] : y[1] = d
      BY <1>1, <2>1, <2>4 DEF OwnMoves
    <3>2. held[r[1]] # {}
      BY <1>4, <3>1 DEF Standing
    <3>3. d = e
      BY <2>2, <3>1, <3>2
    <3> QED
      BY <3>1, <3>3
  <2> QED
    BY <2>3, <2>4
<1>5. ASSUME NEW d \in Docs, RecordFiles(d), NEW e \in Docs, NEW r \in rows'[e], NEW x \in held'[r[1]]
      PROVE  x[1] = e
  BY <1>5, RecordingIsOwn DEF Owners
<1>6. \A e \in Docs : \A r \in rows'[e] : \A x \in held'[r[1]] : x[1] = e
  BY <1>4, <1>5, RowsMove
<1>7. QED
  BY <1>2, <1>3, <1>6 DEF Owners

\* What is recorded was just placed under a name of its document's choice, and only a filing is
\* placed under a filing's name.
LEMMA OwnNamesKept ==
    ASSUME IInv, Next
    PROVE  OwnNames'
<1> USE DEF IInv, Types
<1>1. ASSUME NEW e \in Docs, NEW r \in rows'[e]
      PROVE  r[1] \in NamesOf(e)
  <2>1. CASE r \in rows[e]
    BY <2>1 DEF OwnNames
  <2>2. ASSUME NEW d \in Docs, RecordFiles(d), r \notin rows[e]
        PROVE  r[1] \in NamesOf(e)
    <3>1. e = d /\ r[1] = target
      BY <1>1, <2>2, RecordingIsOwn
    <3>2. Head(d) /\ at = "record"
      BY <2>2 DEF RecordFiles, On
    <3> QED
      BY <3>1, <3>2 DEF InHand
  <2> QED
    BY <1>1, <2>1, <2>2, RowsMove
<1>2. ASSUME NEW e \in Docs
      PROVE  held'[Filing(e)] \subseteq {<<e, "document">>}
  <2>1. Filing(e) \in Names /\ held[Filing(e)] \subseteq {<<e, "document">>}
    BY NamesApart DEF OwnNames
  <2>2. held'[Filing(e)] \subseteq held[Filing(e)] \union {<<e, "document">>}
    <3>1. CASE Command \/ Crash
      BY <3>1 DEF Command, Begin, ResolveDone, EnactDone, Tidy, Sweep, FetchDone, Crash, tree
    <3>2. ASSUME NEW d \in Docs, Reconcile(d)
          PROVE  held'[Filing(e)] \subseteq held[Filing(e)]
      BY <2>1, <3>2 DEF Reconcile, Recovered, Remove, Unlink, Forget, tree
    <3>3. ASSUME NEW d \in Docs, PlaceFiling(d)
          PROVE  held'[Filing(e)] \subseteq held[Filing(e)] \union {<<e, "document">>}
      <4>1. held' = [held EXCEPT ![Filing(d)] = {<<d, "document">>}]
        BY <3>3 DEF PlaceFiling
      <4>2. CASE d = e
        BY <2>1, <4>1, <4>2
      <4>3. CASE d # e
        BY <2>1, <4>1, <4>3, NamesApart
      <4> QED
        BY <4>2, <4>3
    <3>4. ASSUME NEW d \in Docs, PlaceContainer(d) \/ \E x \in Docs \X Files : ClearTarget(d, x)
          PROVE  held'[Filing(e)] = held[Filing(e)]
      <4>1. Head(d) /\ at = "clear" /\ \E S : held' = [held EXCEPT ![target] = S]
        BY <3>4 DEF PlaceContainer, ClearTarget, On
      <4>2. target # Filing(e)
        BY <4>1, NamesApart DEF InHand
      <4> QED
        BY <2>1, <4>1, <4>2
    <3>5. ASSUME NEW d \in Docs, Fetch(d), ~PlaceFiling(d), ~PlaceContainer(d),
                 ~\E x \in Docs \X Files : ClearTarget(d, x)
          PROVE  UNCHANGED held
      BY <3>5 DEF Fetch, ClearStaging, StartDownload, Receive, Extract, ImposeNames, ChooseName,
                  RecordFiles, MarkAvailable, DownloadFails, Discard, Abandon, tree
    <3>6. ASSUME NEW d \in Docs,
                 ArchiveFails(d) \/ TidyStuck(d) \/ ClearStagingStuck(d) \/ DiscardStuck(d)
          PROVE  UNCHANGED held
      BY <3>6 DEF ArchiveFails, TidyStuck, ClearStagingStuck, DiscardStuck, Abandon, tree
    <3> QED
      BY <3>1, <3>2, <3>3, <3>4, <3>5, <3>6 DEF Next, Progress, Failure
  <2> QED
    BY <2>1, <2>2
<1>3. QED
  BY <1>1, <1>2 DEF OwnNames

\* Whoever was neither available nor in the way of the fetch has become so.
LEMMA NewlyStanding ==
    ASSUME IInv, Next, NEW e \in Docs, local[e] # "available", step # "fetch",
           local'[e] = "available" \/ step' = "fetch"
    PROVE  UNCHANGED <<held, rows>> /\ \A r \in rows[e] : held[r[1]] # {}
<1> USE DEF IInv, Types
<1>1. CASE Command \/ Crash
  <2>1. EnactDone /\ step = "enact_again"
    <3>1. ASSUME NEW gone \in SUBSET Docs, NEW wanted \in SUBSET Docs, Sweep(gone, wanted)
          PROVE  local'[e] # "available" /\ step' # "fetch"
      BY <3>1 DEF Sweep, Enter
    <3> QED
      BY <1>1, <3>1 DEF Command, Begin, ResolveDone, EnactDone, Tidy, FetchDone, Crash, Enter, manifest
  <2>2. UNCHANGED <<held, rows>> /\ todo = {}
    BY <2>1 DEF EnactDone, manifest, tree
  <2>3. rows[e] = {}
    BY <2>1, <2>2 DEF Flight, Forgotten
  <2> QED
    BY <2>2, <2>3
<1>2. ASSUME NEW d \in Docs, Reconcile(d)
      PROVE  UNCHANGED <<held, rows>> /\ \A r \in rows[e] : held[r[1]] # {}
  <2>1. Recovered(d) /\ d = e
    BY <1>2 DEF Reconcile, Recovered, Remove, Unlink, Forget, Passed, At, manifest
  <2> QED
    BY <2>1 DEF Recovered, OnDisk, tree
<1>3. ASSUME NEW d \in Docs, Fetch(d)
      PROVE  FALSE
  BY <1>3
  DEF Fetch, ClearStaging, StartDownload, Receive, Extract, PlaceFiling, ImposeNames, ChooseName,
      ClearTarget, PlaceContainer, RecordFiles, MarkAvailable, DownloadFails, Discard, On
<1>4. ASSUME NEW d \in Docs,
             ArchiveFails(d) \/ TidyStuck(d) \/ ClearStagingStuck(d) \/ DiscardStuck(d)
      PROVE  FALSE
  BY <1>4 DEF ArchiveFails, TidyStuck, ClearStagingStuck, DiscardStuck, On, Enter, manifest
<1>5. QED
  BY <1>1, <1>2, <1>3, <1>4 DEF Next, Progress, Failure

LEMMA StandingKept ==
    ASSUME IInv, Next, NEW e \in Docs
    PROVE  Standing(e)'
<1> SUFFICES ASSUME local'[e] = "available" \/ step' = "fetch", NEW r \in rows'[e]
             PROVE  held'[r[1]] # {}
  BY DEF Standing
<1> USE DEF IInv
<1>1. ASSUME NEW d \in Docs, RecordFiles(d)
      PROVE  held'[r[1]] # {}
  BY <1>1, RecordingIsOwn DEF Standing
<1>2. CASE r \in rows[e] /\ (local[e] = "available" \/ step = "fetch")
  <2>1. r[1] \in Names /\ held[r[1]] # {} /\ \A y \in held[r[1]] : y[1] = e
    BY <1>2 DEF Types, Standing, Owners
  <2>2. SUFFICES ASSUME held'[r[1]] # held[r[1]] PROVE FALSE
    BY <2>1
  <2>3. PICK d \in Docs : /\ local[d] # "available" /\ (\A x \in held[r[1]] : x[1] = d)
                         /\ (step = "fetch" => rows[d] = {})
    BY <2>1, <2>2, StepsMoveTheirOwn DEF OwnMoves
  <2>4. d = e
    BY <2>1, <2>3
  <2> QED
    BY <1>2, <2>3, <2>4
<1>3. CASE r \in rows[e] /\ ~(local[e] = "available" \/ step = "fetch")
  BY <1>3, NewlyStanding
<1>4. QED
  BY <1>1, <1>2, <1>3, RowsMove

-----------------------------------------------------------------------------
(* Deliveries are placed whole.                                            *)

Settled(d) ==
    \E n \in Names : /\ held[n] # {}
                     /\ rows[d] = {<<n, x[2]>> : x \in held[n]}
                     /\ \A x \in held[n] : x[1] = d

\* What was recorded is in place, whether or not it has been marked.
Recorded(d) ==
    d \notin soiled =>
        /\ local[d] = "available" => Settled(d)
        /\ local[d] = "downloading" => rows[d] = {} \/ Settled(d)

\* The delivery on its way from the source to its place, with nothing beside it.
OnItsWay(d) ==
    step = "fetch" /\ Head(d) /\ d \notin soiled =>
        /\ at \in {"start", "download"} => staging[d] = {}
        /\ at = "extract" => staging[d] \subseteq delivery
        /\ at \in {"name", "clear"} => staging[d] = {Imposed(f) : f \in delivery}
        /\ at = "record" => held[target] = {<<d, Imposed(f)>> : f \in delivery}
        /\ at = "mark" => Settled(d)

Whole == \A d \in Docs : Recorded(d) /\ OnItsWay(d)

LEMMA SettledHasRows ==
    ASSUME Types, NEW d \in Docs, Settled(d)
    PROVE  rows[d] # {} /\ OnDisk(d) /\ \E r \in rows[d] : \E x \in held[r[1]] : x[2] = r[2]
<1>1. PICK n \in Names : /\ held[n] # {} /\ rows[d] = {<<n, x[2]>> : x \in held[n]}
                         /\ \A x \in held[n] : x[1] = d
  BY DEF Settled
<1>2. PICK y \in held[n] : TRUE
  BY <1>1
<1>3. <<n, y[2]>> \in rows[d]
  BY <1>1
<1>4. ASSUME NEW r \in rows[d] PROVE <<d, r[2]>> \in held[r[1]]
  <2>1. PICK x \in held[n] : r = <<n, x[2]>>
    BY <1>1
  <2>2. x = <<d, x[2]>>
    BY <1>1 DEF Types
  <2> QED
    BY <2>1, <2>2
<1>5. QED
  BY <1>3, <1>4 DEF OnDisk

\* Files only leave in the handling of their document, and while it is dealt with a document that
\* is recorded has nothing to lose.
LEMMA SettledStays ==
    ASSUME IInv, Next, NEW e \in Docs, Settled(e), local[e] \in {"available", "downloading"}
    PROVE  Settled(e)'
<1> USE DEF IInv
<1>1. rows[e] # {} /\ OnDisk(e) /\ \E r \in rows[e] : \E x \in held[r[1]] : x[2] = r[2]
  BY SettledHasRows
<1>2. PICK n \in Names : /\ held[n] # {} /\ rows[e] = {<<n, x[2]>> : x \in held[n]}
                         /\ \A x \in held[n] : x[1] = e
  BY DEF Settled
<1>3. ~Remove(e)
  <2> SUFFICES ASSUME Remove(e) PROVE FALSE
    OBVIOUS
  <2>1. Head(e) /\ step \in {"enact", "enact_again"}
    BY <1>1 DEF Remove, Unlink
  <2> QED
    BY <2>1 DEF Flight, Head
<1>4. held'[n] = held[n]
  <2> SUFFICES ASSUME held'[n] # held[n] PROVE FALSE
    OBVIOUS
  <2>1. PICK d \in Docs : /\ Head(d) /\ (\A x \in held[n] : x[1] = d)
                          /\ (step = "fetch" => rows[d] = {})
    BY StepsMoveTheirOwn DEF OwnMoves
  <2>2. d = e
    BY <1>2, <2>1
  <2>3. Head(e) /\ step # "fetch"
    BY <1>1, <2>1, <2>2
  <2>4. CASE Command \/ Crash
    BY <2>4 DEF Command, Begin, ResolveDone, EnactDone, Tidy, Sweep, FetchDone, Crash, tree
  <2>5. ASSUME NEW c \in Docs, Reconcile(c)
        PROVE  FALSE
    <3>1. Remove(c)
      BY <2>5 DEF Reconcile, Recovered, Forget, tree
    <3>2. c = e
      BY <2>3, <3>1, OneHead DEF Remove, Unlink
    <3> QED
      BY <1>3, <3>1, <3>2
  <2>6. ASSUME NEW c \in Docs, Fetch(c)
        PROVE  FALSE
    BY <2>3, <2>6
    DEF Fetch, ClearStaging, StartDownload, Receive, Extract, PlaceFiling, ImposeNames, ChooseName,
        ClearTarget, PlaceContainer, RecordFiles, MarkAvailable, DownloadFails, Discard, On
  <2>7. ASSUME NEW c \in Docs,
               ArchiveFails(c) \/ TidyStuck(c) \/ ClearStagingStuck(c) \/ DiscardStuck(c)
        PROVE  FALSE
    BY <2>7 DEF ArchiveFails, TidyStuck, ClearStagingStuck, DiscardStuck, Abandon, tree
  <2> QED
    BY <2>4, <2>5, <2>6, <2>7 DEF Next, Progress, Failure
<1>5. rows'[e] = rows[e]
  <2>1. CASE Command \/ Crash
    BY <2>1 DEF Command, Begin, ResolveDone, EnactDone, Tidy, Sweep, FetchDone, Crash, manifest
  <2>2. ASSUME NEW c \in Docs, Reconcile(c)
        PROVE  rows'[e] = rows[e]
    <3>1. CASE c # e
      BY <2>2, <3>1 DEF Reconcile, Recovered, Remove, Unlink, Forget, manifest, Types
    <3>2. CASE c = e
      <4>1. ~Forget(e)
        BY <1>1 DEF Forget, Gone
      <4> QED
        BY <2>2, <3>2, <4>1 DEF Reconcile, Recovered, Remove, Unlink, manifest
    <3> QED
      BY <3>1, <3>2
  <2>3. ASSUME NEW c \in Docs, RecordFiles(c)
        PROVE  rows'[e] = rows[e]
    <3>1. c # e
      BY <1>1, <2>3 DEF RecordFiles, On, Forgotten, Busy
    <3> QED
      BY <2>3, <3>1, RecordingIsOwn
  <2>4. ASSUME NEW c \in Docs, Fetch(c), ~RecordFiles(c)
        PROVE  UNCHANGED rows
    BY <2>4
    DEF Fetch, ClearStaging, StartDownload, Receive, Extract, PlaceFiling, ImposeNames, ChooseName,
        ClearTarget, PlaceContainer, MarkAvailable, DownloadFails, Discard, Abandon, manifest
  <2>5. ASSUME NEW c \in Docs,
               ArchiveFails(c) \/ TidyStuck(c) \/ ClearStagingStuck(c) \/ DiscardStuck(c)
        PROVE  UNCHANGED rows
    BY <2>5 DEF ArchiveFails, TidyStuck, ClearStagingStuck, DiscardStuck, Abandon, manifest
  <2> QED
    BY <2>1, <2>2, <2>3, <2>4, <2>5 DEF Next, Progress, Failure
<1>6. QED
  BY <1>2, <1>4, <1>5 DEF Settled

\* What is recorded is what was placed.
LEMMA RecordingSettles ==
    ASSUME IInv, Whole, NEW d \in Docs, d \notin soiled, RecordFiles(d)
    PROVE  Settled(d)'
<1>1. /\ step = "fetch" /\ at = "record" /\ Head(d) /\ UNCHANGED held
      /\ rows' = [rows EXCEPT ![d] = {<<target, Imposed(f)>> : f \in delivery}]
  BY DEF RecordFiles, On, tree
<1>2. /\ target \in Names /\ held[target] # {} /\ \A x \in held[target] : x[1] = d
      /\ held[target] = {<<d, Imposed(f)>> : f \in delivery}
  BY <1>1 DEF IInv, InHand, Whole, OnItsWay
<1>3. rows'[d] = {<<target, Imposed(f)>> : f \in delivery}
  BY <1>1 DEF IInv, Types
<1>4. rows'[d] = {<<target, x[2]>> : x \in held[target]}
  <2>1. ASSUME NEW r \in rows'[d] PROVE \E x \in held[target] : r = <<target, x[2]>>
    <3>1. PICK f \in delivery : r = <<target, Imposed(f)>>
      BY <1>3
    <3>2. <<d, Imposed(f)>> \in held[target]
      BY <1>2
    <3> QED
      BY <3>1, <3>2
  <2>2. ASSUME NEW x \in held[target] PROVE <<target, x[2]>> \in rows'[d]
    <3>1. PICK f \in delivery : x = <<d, Imposed(f)>>
      BY <1>2
    <3> QED
      BY <1>3, <3>1
  <2> QED
    BY <2>1, <2>2
<1>5. QED
  BY <1>1, <1>2, <1>4 DEF Settled

\* Who becomes available, or starts, and who is pardoned for a tree that had refused to go.
LEMMA NewcomersAreWhole ==
    ASSUME IInv, Whole, Next, NEW e \in Docs, e \notin soiled'
    PROVE  /\ local'[e] = "available" /\ local[e] # "available" => Settled(e)
           /\ local'[e] = "downloading" /\ local[e] # "downloading" => rows'[e] = {}
           /\ e \in soiled => local'[e] \notin {"available", "downloading"}
<1> USE DEF IInv, Types
<1>1. CASE Command \/ Crash
  <2>1. ASSUME NEW gone \in SUBSET Docs, NEW wanted \in SUBSET Docs, Sweep(gone, wanted)
        PROVE  /\ local'[e] \in {"absent", "discovered"} \/ local'[e] = local[e]
               /\ e \notin soiled
    BY <2>1 DEF Sweep, Sound
  <2> QED
    BY <1>1, <2>1
    DEF Command, Begin, ResolveDone, EnactDone, Tidy, FetchDone, Crash, manifest, Sound
<1>2. ASSUME NEW d \in Docs, Reconcile(d)
      PROVE  /\ local'[e] = "available" /\ local[e] # "available" => Settled(e)
             /\ local'[e] = "downloading" => local[e] = "downloading"
             /\ e \notin soiled
  <2>1. e \notin soiled
    BY <1>2 DEF Reconcile, Recovered, Remove, Forget, Sound
  <2>2. local'[e] = "downloading" => local[e] = "downloading"
    BY <1>2 DEF Reconcile, Recovered, Remove, Unlink, Forget, manifest
  <2>3. ASSUME local'[e] = "available", local[e] # "available"
        PROVE  Settled(e)
    <3>1. Recovered(d) /\ d = e
      BY <1>2, <2>3 DEF Reconcile, Recovered, Remove, Unlink, Forget, manifest
    <3>2. local[e] = "downloading" /\ rows[e] # {}
      BY <3>1 DEF Recovered, On, Head, Flight
    <3> QED
      BY <2>1, <3>2 DEF Whole, Recorded
  <2> QED
    BY <2>1, <2>2, <2>3
<1>3. ASSUME NEW d \in Docs, Fetch(d)
      PROVE  /\ local'[e] = "available" /\ local[e] # "available" => Settled(e)
             /\ local'[e] = "downloading" /\ local[e] # "downloading" => rows'[e] = {}
             /\ e \in soiled => local'[e] \notin {"available", "downloading"}
  <2>1. CASE ClearStaging(d)
    <3>1. UNCHANGED local /\ soiled' = soiled \ {d} /\ local[d] = "discovered"
      BY <2>1 DEF ClearStaging, On, manifest, Flight, Head, Busy
    <3> QED
      BY <3>1
  <2>2. CASE StartDownload(d)
    <3>1. local' = [local EXCEPT ![d] = "downloading"] /\ UNCHANGED <<rows, soiled>>
          /\ local[d] = "discovered"
      BY <2>2 DEF StartDownload, On, Sound, Flight, Head, Busy
    <3>2. rows[d] = {}
      BY <3>1 DEF Forgotten
    <3> QED
      BY <3>1, <3>2
  <2>3. CASE MarkAvailable(d)
    <3>1. /\ local' = [local EXCEPT ![d] = "available"] /\ UNCHANGED soiled
          /\ step = "fetch" /\ at = "mark" /\ Head(d)
      BY <2>3 DEF MarkAvailable, On, Sound
    <3>2. d \notin soiled => Settled(d)
      BY <3>1 DEF Whole, OnItsWay
    <3> QED
      BY <3>1, <3>2
  <2>4. CASE DownloadFails(d)
    BY <2>4 DEF DownloadFails, Abandon, Sound
  <2>5. CASE \/ Receive(d) \/ (\E f \in Files : Extract(d, f)) \/ PlaceFiling(d) \/ ImposeNames(d)
             \/ (\E i \in 1 .. Tries : ChooseName(d, i)) \/ (\E x \in Docs \X Files : ClearTarget(d, x))
             \/ PlaceContainer(d) \/ RecordFiles(d) \/ Discard(d)
    BY <2>5
    DEF Receive, Extract, PlaceFiling, ImposeNames, ChooseName, ClearTarget, PlaceContainer,
        RecordFiles, Discard, manifest, Sound
  <2> QED
    BY <1>3, <2>1, <2>2, <2>3, <2>4, <2>5 DEF Fetch
<1>4. ASSUME NEW d \in Docs,
             ArchiveFails(d) \/ TidyStuck(d) \/ ClearStagingStuck(d) \/ DiscardStuck(d)
      PROVE  /\ local'[e] \in {"available", "downloading"} => local'[e] = local[e]
             /\ e \notin soiled
  BY <1>4 DEF ArchiveFails, TidyStuck, ClearStagingStuck, DiscardStuck, Abandon, manifest
<1>5. QED
  BY <1>1, <1>2, <1>3, <1>4 DEF Next, Progress, Failure

LEMMA RecordedKept ==
    ASSUME IInv, Whole, Next, NEW e \in Docs
    PROVE  Recorded(e)'
<1> SUFFICES ASSUME e \notin soiled', local'[e] \in {"available", "downloading"}
             PROVE  /\ local'[e] = "available" => Settled(e)'
                    /\ local'[e] = "downloading" => rows'[e] = {} \/ Settled(e)'
  BY DEF Recorded
<1>1. e \notin soiled
  BY NewcomersAreWhole
<1>2. CASE local'[e] = "available"
  <2>1. Settled(e)
    BY <1>1, <1>2, NewcomersAreWhole DEF Whole, Recorded
  <2>2. local[e] \in {"available", "downloading"}
    <3>1. ASSUME local[e] \in {"absent", "discovered", "failed"} PROVE FALSE
      <4>1. ASSUME NEW d \in Docs, Reconcile(d) PROVE FALSE
        <5>1. Recovered(d) /\ d = e
          BY <1>2, <3>1, <4>1
          DEF IInv, Types, Reconcile, Recovered, Remove, Unlink, Forget, manifest
        <5> QED
          BY <3>1, <5>1 DEF IInv, Recovered, On, Head, Flight
      <4>2. ASSUME NEW d \in Docs, Fetch(d) PROVE FALSE
        <5>1. MarkAvailable(d) /\ d = e
          BY <1>2, <3>1, <4>2
          DEF IInv, Types, Fetch, ClearStaging, StartDownload, Receive, Extract, PlaceFiling,
              ImposeNames, ChooseName, ClearTarget, PlaceContainer, RecordFiles, MarkAvailable,
              DownloadFails, Discard, Abandon, manifest
        <5> QED
          BY <3>1, <5>1 DEF IInv, MarkAvailable, On, Flight, Busy
      <4>3. ASSUME NEW d \in Docs,
                   ArchiveFails(d) \/ TidyStuck(d) \/ ClearStagingStuck(d) \/ DiscardStuck(d)
            PROVE  FALSE
        BY <1>2, <3>1, <4>3
        DEF IInv, Types, ArchiveFails, TidyStuck, ClearStagingStuck, DiscardStuck, Abandon, manifest
      <4>4. CASE Command \/ Crash
        <5>1. ASSUME NEW gone \in SUBSET Docs, NEW wanted \in SUBSET Docs, Sweep(gone, wanted)
              PROVE  FALSE
          BY <1>2, <3>1, <5>1 DEF Sweep
        <5> QED
          BY <1>2, <3>1, <4>4, <5>1
          DEF Command, Begin, ResolveDone, EnactDone, Tidy, FetchDone, Crash, manifest
      <4> QED
        BY <4>1, <4>2, <4>3, <4>4 DEF Next, Progress, Failure
    <3> QED
      BY <3>1 DEF IInv, Types
  <2> QED
    BY <2>1, <2>2, SettledStays
<1>3. CASE local'[e] = "downloading" /\ local[e] # "downloading"
  BY <1>3, NewcomersAreWhole
<1>4. CASE local'[e] = "downloading" /\ local[e] = "downloading"
  <2>1. CASE Settled(e)
    BY <1>4, <2>1, SettledStays
  <2>2. CASE rows[e] = {}
    <3>1. ASSUME NEW d \in Docs, RecordFiles(d)
          PROVE  rows'[e] = {} \/ Settled(e)'
      <4>1. CASE d # e
        BY <2>2, <3>1, <4>1, RecordingIsOwn
      <4>2. CASE d = e
        BY <1>1, <3>1, <4>2, RecordingSettles
      <4> QED
        BY <4>1, <4>2
    <3> QED
      BY <1>4, <2>2, <3>1, RowsMove
  <2> QED
    BY <1>1, <1>4, <2>1, <2>2 DEF Whole, Recorded
<1>5. QED
  BY <1>2, <1>3, <1>4

\* The tree is emptied before the source is asked, filled with the delivery and nothing else, and
\* becomes the place as it is.
LEMMA OnItsWayKept ==
    ASSUME IInv, Whole, Next, NEW e \in Docs
    PROVE  OnItsWay(e)'
<1> SUFFICES ASSUME step' = "fetch", Head(e)', e \notin soiled', at' # "loop"
             PROVE  OnItsWay(e)'
  BY DEF OnItsWay
<1> USE DEF IInv, Types
<1>1. CASE Command \/ Crash
  BY <1>1 DEF Command, Begin, ResolveDone, EnactDone, Tidy, Sweep, FetchDone, Crash, Enter
<1>2. ASSUME NEW d \in Docs, Reconcile(d)
      PROVE  FALSE
  BY <1>2 DEF Reconcile, Recovered, Remove, Unlink, Forget, On, At, Passed, Control
<1>3. ASSUME NEW d \in Docs, TidyStuck(d) \/ DiscardStuck(d) \/ Discard(d)
      PROVE  FALSE
  BY <1>3 DEF TidyStuck, DiscardStuck, Discard, Enter, Passed
<1>4. ASSUME NEW d \in Docs, ClearStagingStuck(d) \/ ArchiveFails(d) \/ DownloadFails(d) \/ MarkAvailable(d)
      PROVE  OnItsWay(e)'
  <2>1. d = e
    BY <1>4, OneHead
    DEF ClearStagingStuck, ArchiveFails, DownloadFails, MarkAvailable, Abandon, At, Head
  <2> QED
    BY <1>4, <2>1
    DEF ClearStagingStuck, ArchiveFails, DownloadFails, MarkAvailable, Abandon, At, OnItsWay
<1>5. ASSUME NEW d \in Docs, Fetch(d), ~(Discard(d) \/ DownloadFails(d) \/ MarkAvailable(d))
      PROVE  d = e /\ UNCHANGED todo /\ step = "fetch" /\ Head(e)
  <2>1. UNCHANGED todo /\ step = "fetch" /\ Head(d)
    BY <1>5
    DEF Fetch, ClearStaging, StartDownload, Receive, Extract, PlaceFiling, ImposeNames, ChooseName,
        ClearTarget, PlaceContainer, RecordFiles, On, At, control
  <2>2. Head(e)
    BY <2>1 DEF Head
  <2> QED
    BY <2>1, <2>2, OneHead
<1>6. CASE ClearStaging(e)
  BY <1>6 DEF ClearStaging, At, OnItsWay
<1>7. CASE StartDownload(e)
  BY <1>5, <1>7 DEF StartDownload, On, At, Sound, tree, OnItsWay, Whole, Fetch
<1>8. CASE Receive(e)
  <2>1. /\ at = "download" /\ at' = "extract" /\ Head(e) /\ step = "fetch" /\ e \notin soiled
        /\ staging' = [staging EXCEPT ![e] = {Leftover(f) : f \in @}]
    BY <1>8 DEF Receive, On, At, Sound
  <2>2. staging[e] = {}
    BY <2>1 DEF Whole, OnItsWay
  <2>3. staging'[e] = {}
    BY <2>1, <2>2
  <2> QED
    BY <2>1, <2>3 DEF OnItsWay
<1>9. ASSUME NEW f \in Files, Extract(e, f)
      PROVE  OnItsWay(e)'
  <2>1. /\ at = "extract" /\ at' = at /\ Head(e) /\ step = "fetch" /\ e \notin soiled /\ f \in delivery
        /\ staging' = [staging EXCEPT ![e] = @ \union {f}] /\ UNCHANGED delivery
    BY <1>9 DEF Extract, On, Sound, control, hand
  <2>2. staging[e] \subseteq delivery
    BY <2>1 DEF Whole, OnItsWay
  <2>3. staging'[e] \subseteq delivery'
    BY <2>1, <2>2
  <2> QED
    BY <2>1, <2>3 DEF OnItsWay
<1>10. CASE PlaceFiling(e)
  <2>1. /\ at' = "record" /\ UNCHANGED delivery /\ delivery = {"document"} /\ target' = Filing(e)
        /\ held' = [held EXCEPT ![Filing(e)] = {<<e, "document">>}]
    BY <1>10 DEF PlaceFiling, At
  <2>2. {<<e, Imposed(f)>> : f \in delivery'} = {<<e, "document">>}
    BY <2>1 DEF Imposed
  <2>3. held'[target'] = {<<e, "document">>}
    BY <2>1, NamesApart
  <2> QED
    BY <2>1, <2>2, <2>3 DEF OnItsWay
<1>11. CASE ImposeNames(e)
  <2>1. /\ at = "extract" /\ at' = "name" /\ Head(e) /\ step = "fetch" /\ e \notin soiled
        /\ staging' = [staging EXCEPT ![e] = {Imposed(f) : f \in @}] /\ UNCHANGED delivery
        /\ delivery \subseteq staging[e]
    BY <1>11 DEF ImposeNames, On, At, Sound, hand
  <2>2. staging[e] = delivery
    BY <2>1 DEF Whole, OnItsWay
  <2>3. staging'[e] = {Imposed(f) : f \in delivery'}
    BY <2>1, <2>2
  <2> QED
    BY <2>1, <2>3 DEF OnItsWay
<1>12. CASE \/ \E i \in 1 .. Tries : ChooseName(e, i)
            \/ \E x \in Docs \X Files : ClearTarget(e, x)
  <2>1. /\ at \in {"name", "clear"} /\ at' = "clear" /\ Head(e) /\ step = "fetch" /\ e \notin soiled
        /\ UNCHANGED <<staging, delivery>>
    BY <1>12 DEF ChooseName, ClearTarget, On, At, Sound, tree, control, hand
  <2>2. staging'[e] = {Imposed(f) : f \in delivery'}
    BY <2>1 DEF Whole, OnItsWay
  <2> QED
    BY <2>1, <2>2 DEF OnItsWay
<1>13. CASE PlaceContainer(e)
  <2>1. /\ at = "clear" /\ at' = "record" /\ Head(e) /\ step = "fetch" /\ e \notin soiled
        /\ held' = [held EXCEPT ![target] = {<<e, f>> : f \in staging[e]}]
        /\ UNCHANGED <<delivery, target>>
    BY <1>13 DEF PlaceContainer, On, At, Sound, hand
  <2>2. staging[e] = {Imposed(f) : f \in delivery} /\ target \in Names
    BY <2>1, NamesApart DEF Whole, OnItsWay, InHand
  <2>3. held'[target] = {<<e, f>> : f \in staging[e]}
    BY <2>1, <2>2
  <2>4. held'[target] = {<<e, Imposed(f)>> : f \in delivery}
    BY <2>2, <2>3
  <2> QED
    BY <2>1, <2>4 DEF OnItsWay
<1>14. CASE RecordFiles(e)
  <2>1. at' = "mark" /\ e \notin soiled
    BY <1>14 DEF RecordFiles, At, Sound
  <2> QED
    BY <1>14, <2>1, RecordingSettles DEF OnItsWay
<1>15. ASSUME NEW d \in Docs, Fetch(d)
       PROVE  OnItsWay(e)'
  <2>1. CASE Discard(d) \/ DownloadFails(d) \/ MarkAvailable(d)
    BY <1>3, <1>4, <2>1
  <2>2. CASE ~(Discard(d) \/ DownloadFails(d) \/ MarkAvailable(d))
    <3>1. Fetch(e) /\ ~(Discard(e) \/ DownloadFails(e) \/ MarkAvailable(e))
      BY <1>5, <1>15, <2>2
    <3> QED
      BY <1>6, <1>7, <1>8, <1>9, <1>10, <1>11, <1>12, <1>13, <1>14, <3>1 DEF Fetch
  <2> QED
    BY <2>1, <2>2
<1>16. QED
  BY <1>1, <1>2, <1>3, <1>4, <1>15 DEF Next, Progress, Failure

-----------------------------------------------------------------------------
(* The theorems.                                                           *)

\* Who is at hand, what is recorded and who owns what is under a name, at every moment.
THEOREM InductiveInvariance == Spec => []IInv
<1>1. IInv /\ [Next]_vars => IInv'
  <2> SUFFICES ASSUME IInv, [Next]_vars
               PROVE  IInv'
    OBVIOUS
  <2>1. CASE Next
    <3>1. Owners' /\ OwnNames' /\ \A e \in Docs : Standing(e)'
      BY <2>1, OwnersKept, OwnNamesKept, StandingKept
    <3>2. Types /\ Types'
      BY <2>1, CommandKeepsTypes, ReconcileKeepsTypes, FetchKeepsTypes, FailureKeepsTypes
      DEF Next, Progress, IInv
    <3>3. Control' /\ \A e \in Docs : Flight(e)' /\ Forgotten(e)' /\ Gone(e)' /\ InHand(e)'
      <4>1. CASE Command \/ Crash
        BY <4>1, CommandKeepsFlight
      <4>2. ASSUME NEW d \in Docs, Reconcile(d)
            PROVE  Control' /\ \A e \in Docs : Flight(e)' /\ Forgotten(e)' /\ Gone(e)' /\ InHand(e)'
        BY <4>2, ReconcileKeepsFlight
      <4>3. ASSUME NEW d \in Docs,
                   Fetch(d) \/ ArchiveFails(d) \/ ClearStagingStuck(d) \/ DiscardStuck(d)
            PROVE  Control' /\ \A e \in Docs : Flight(e)' /\ Forgotten(e)' /\ Gone(e)' /\ InHand(e)'
        BY <4>3, FetchKeepsFlight, FetchKeepsHand
      <4>4. ASSUME NEW d \in Docs, TidyStuck(d)
            PROVE  Control' /\ \A e \in Docs : Flight(e)' /\ Forgotten(e)' /\ Gone(e)' /\ InHand(e)'
        BY <4>4 DEF TidyStuck, Enter, manifest, IInv, Control, Flight, Forgotten, Gone, InHand, Head, Busy
      <4> QED
        BY <2>1, <4>1, <4>2, <4>3, <4>4 DEF Next, Progress, Failure
    <3> QED
      BY <3>1, <3>2, <3>3 DEF IInv
  <2>2. CASE UNCHANGED vars
    BY <2>2 DEF vars, manifest, tree, control, hand, IInv, Types, Control, Owners, OwnNames, Flight, Forgotten,
                Standing, Gone, InHand, Head
  <2>3. QED
    BY <2>1, <2>2
<1>2. QED
  BY InitEstablishes, <1>1, PTL DEF Spec

\* Every variable keeps its type and every delivery its names: nothing is placed under the name it
\* was generated with, no document is recorded under a name it may not choose, and a filing's name
\* holds nothing else, whatever the documents and the names they compete for.
THEOREM TypeCorrectness == Spec => []TypeOK
<1>1. IInv => TypeOK
  BY DEF IInv, TypeOK
<1>2. QED
  BY InductiveInvariance, <1>1, PTL

\* No file leaves the archive except by the handling of its own document, for any number of
\* documents that compete for their names, and wherever the commands die or fail.
THEOREM NobodyTakesAnothersFiles == Spec => OthersUntouched
<1>1. ASSUME IInv, [Next]_vars
      PROVE  \A n \in Names : \A x \in held[n] : x \notin held'[n] => Head(x[1])
  <2>1. CASE Next
    BY <1>1, <2>1, StepsMoveTheirOwn DEF OwnMoves
  <2>2. CASE UNCHANGED vars
    BY <2>2 DEF vars, tree
  <2> QED
    BY <1>1, <2>1, <2>2
<1>2. QED
  BY InductiveInvariance, <1>1, PTL DEF Spec, OthersUntouched

\* The directory that arrives is the one that stays: what is available is what was delivered and
\* recorded, and nothing else, unless the tree its last attempt was staged in refused to be emptied.
THEOREM DeliveriesArePlacedWhole == Spec => []PlacedIsDelivery
<1>1. Init => Whole
  BY DEF Init, Whole, Recorded, OnItsWay
<1>2. IInv /\ Whole /\ [Next]_vars => Whole'
  <2> SUFFICES ASSUME IInv, Whole, [Next]_vars
               PROVE  Whole'
    OBVIOUS
  <2>1. CASE Next
    BY <2>1, RecordedKept, OnItsWayKept DEF Whole
  <2>2. CASE UNCHANGED vars
    BY <2>2 DEF vars, manifest, tree, control, hand, Whole, Recorded, OnItsWay, Settled, Head
  <2>3. QED
    BY <2>1, <2>2
<1>3. Whole => PlacedIsDelivery
  BY DEF Whole, Recorded, Settled, PlacedIsDelivery
<1>4. QED
  BY InductiveInvariance, <1>1, <1>2, <1>3, PTL DEF Spec

-----------------------------------------------------------------------------
(* What is available stands.                                               *)

\* Every file recorded for an available document is in its place, and is the document's: also
\* where something stale was placed beside it.
AvailableStands == \A d \in Docs : local[d] = "available" => rows[d] # {} /\ OnDisk(d)

\* The delivery is all there on its way to its place, whatever else is.
Arriving(d) ==
    step = "fetch" /\ Head(d) =>
        /\ at \in {"name", "clear"} => {Imposed(f) : f \in delivery} \subseteq staging[d]
        /\ at = "record" => \A f \in delivery : <<d, Imposed(f)>> \in held[target]
        /\ at = "mark" => rows[d] # {} /\ OnDisk(d)

Stands == AvailableStands /\ \A d \in Docs : Arriving(d)

\* Only what is recorded for the document at hand is unlinked, cleared or replaced, so that what
\* is recorded for an available one stays where it is.
LEMMA AvailableStaysStanding ==
    ASSUME IInv, Next, NEW d \in Docs, local[d] = "available", rows[d] # {}, OnDisk(d),
           local'[d] = "available"
    PROVE  rows'[d] # {} /\ OnDisk(d)'
<1> USE DEF IInv
<1>1. rows'[d] = rows[d]
  <2>1. ASSUME NEW e \in Docs, Forget(e)
        PROVE  rows'[d] = rows[d]
    <3>1. Head(e) /\ at = "forget" /\ rows' = [rows EXCEPT ![e] = rows'[e]]
      BY <2>1 DEF Forget, Types
    <3>2. step \in {"resolve", "enact", "enact_again"}
      BY <3>1 DEF Control
    <3>3. local[e] # "available"
      BY <3>1, <3>2 DEF Flight, Head
    <3> QED
      BY <3>1, <3>3 DEF Types
  <2>2. ASSUME NEW e \in Docs, RecordFiles(e)
        PROVE  rows'[d] = rows[d]
    <3>1. Head(e) /\ at = "record" /\ step = "fetch"
      BY <2>2 DEF RecordFiles, On
    <3>2. local[e] # "available"
      BY <3>1 DEF Flight, Busy
    <3> QED
      BY <2>2, <3>2, RecordingIsOwn
  <2>3. ASSUME UNCHANGED rows
        PROVE  rows'[d] = rows[d]
    BY <2>3
  <2> QED
    BY <2>1, <2>2, <2>3
    DEF Next, Progress, Failure, Command, Begin, ResolveDone, EnactDone, Tidy, Sweep, FetchDone, Crash,
        Reconcile, Recovered, Remove, Unlink, Fetch, ClearStaging, StartDownload, Receive, Extract,
        PlaceFiling, ImposeNames, ChooseName, ClearTarget, PlaceContainer, MarkAvailable, DownloadFails,
        Discard, ArchiveFails, TidyStuck, ClearStagingStuck, DiscardStuck, Abandon, manifest
<1>2. ASSUME NEW r \in rows[d]
      PROVE  held'[r[1]] = held[r[1]]
  <2>1. r[1] \in Names /\ <<d, r[2]>> \in held[r[1]]
    BY <1>2 DEF Types, OnDisk
  <2>2. ASSUME held'[r[1]] # held[r[1]]
        PROVE  FALSE
    <3>1. PICK e \in Docs : local[e] # "available" /\ \A x \in held[r[1]] : x[1] = e
      BY <2>1, <2>2, StepsMoveTheirOwn DEF OwnMoves
    <3>2. d = e
      BY <2>1, <3>1
    <3> QED
      BY <3>1, <3>2
  <2> QED
    BY <2>2
<1> QED
  BY <1>1, <1>2 DEF OnDisk

\* The delivery at hand stays whole up to the rows.
LEMMA ArrivingKept ==
    ASSUME IInv, Stands, Next, NEW e \in Docs
    PROVE  Arriving(e)'
<1> USE DEF IInv, Types
<1>1. ASSUME NEW d \in Docs, Fetch(d) \/ ArchiveFails(d) \/ ClearStagingStuck(d) \/ DiscardStuck(d), e # d
      PROVE  Arriving(e)'
  <2>1. Head(d) /\ step' = "fetch"
    BY <1>1
    DEF Fetch, ClearStaging, StartDownload, Receive, Extract, PlaceFiling, ImposeNames, ChooseName,
        ClearTarget, PlaceContainer, RecordFiles, MarkAvailable, DownloadFails, Discard, Abandon,
        ArchiveFails, ClearStagingStuck, DiscardStuck, control, On, At, Passed
  <2>2. todo' = todo \/ at' = "loop"
    BY <1>1
    DEF Fetch, ClearStaging, StartDownload, Receive, Extract, PlaceFiling, ImposeNames, ChooseName,
        ClearTarget, PlaceContainer, RecordFiles, MarkAvailable, DownloadFails, Discard, Abandon,
        ArchiveFails, ClearStagingStuck, DiscardStuck, control, On, At, Passed
  <2>3. todo' = todo => ~Head(e)'
    BY <1>1, <2>1, OneHead DEF Head
  <2> QED
    BY <2>2, <2>3 DEF Arriving
<1>2. CASE \/ Command \/ Crash \/ \E d \in Docs : Reconcile(d) \/ TidyStuck(d)
  <2>1. at' \in {"loop", "forget"}
    BY <1>2
    DEF Command, Begin, ResolveDone, EnactDone, Tidy, Sweep, FetchDone, Crash, Reconcile, Recovered,
        Remove, Unlink, Forget, TidyStuck, Enter, Passed, At
  <2> QED
    BY <2>1 DEF Arriving
<1>3. CASE \/ ClearStaging(e) \/ StartDownload(e) \/ Receive(e) \/ DownloadFails(e) \/ Discard(e)
           \/ ArchiveFails(e) \/ ClearStagingStuck(e) \/ DiscardStuck(e) \/ MarkAvailable(e)
  <2>1. at' \in {"start", "download", "extract", "discard", "loop"}
    BY <1>3
    DEF ClearStaging, StartDownload, Receive, DownloadFails, Discard, ArchiveFails, ClearStagingStuck,
        DiscardStuck, MarkAvailable, Abandon, At, Passed
  <2> QED
    BY <2>1 DEF Arriving
<1>4. ASSUME NEW f \in Files, Extract(e, f)
      PROVE  Arriving(e)'
  BY <1>4 DEF Extract, On, control, Arriving
<1>5. CASE PlaceFiling(e)
  <2>1. /\ at' = "record" /\ delivery' = {"document"} /\ target' = Filing(e)
        /\ held'[target'] = {<<e, "document">>}
    BY <1>5, NamesApart DEF PlaceFiling, At
  <2> QED
    BY <2>1 DEF Arriving, Imposed
<1>6. CASE ImposeNames(e)
  <2>1. /\ at' = "name" /\ delivery' = delivery /\ delivery \subseteq staging[e]
        /\ staging'[e] = {Imposed(f) : f \in staging[e]}
    BY <1>6 DEF ImposeNames, At, hand
  <2> QED
    BY <2>1 DEF Arriving
<1>7. CASE (\E i \in 1 .. Tries : ChooseName(e, i)) \/ \E x \in Docs \X Files : ClearTarget(e, x)
  <2>1. /\ step = "fetch" /\ Head(e) /\ at \in {"name", "clear"} /\ at' = "clear"
        /\ UNCHANGED <<delivery, staging>>
    BY <1>7 DEF ChooseName, ClearTarget, On, At, control, hand, tree
  <2> QED
    BY <2>1 DEF Arriving, Stands
<1>8. CASE PlaceContainer(e)
  <2>1. /\ step = "fetch" /\ Head(e) /\ at = "clear" /\ at' = "record" /\ UNCHANGED <<delivery, target>>
        /\ held' = [held EXCEPT ![target] = {<<e, f>> : f \in staging[e]}]
    BY <1>8 DEF PlaceContainer, On, At, hand
  <2>2. target \in Names
    BY <2>1, NamesApart DEF InHand
  <2>3. \A f \in delivery : Imposed(f) \in staging[e]
    BY <2>1 DEF Arriving, Stands
  <2> QED
    BY <2>1, <2>2, <2>3 DEF Arriving
<1>9. CASE RecordFiles(e)
  <2>1. /\ step = "fetch" /\ Head(e) /\ at = "record" /\ at' = "mark" /\ held' = held
        /\ rows'[e] = {<<target, Imposed(f)>> : f \in delivery}
    BY <1>9 DEF RecordFiles, On, At, tree
  <2>2. delivery \in Deliveries /\ \A f \in delivery : <<e, Imposed(f)>> \in held[target]
    BY <2>1 DEF Arriving, Stands, InHand
  <2>3. rows'[e] # {}
    <3>1. \A D \in Deliveries : \E f \in D : TRUE
      BY DEF Deliveries
    <3>2. PICK f \in delivery : TRUE
      BY <2>2, <3>1
    <3>3. <<target, Imposed(f)>> \in rows'[e]
      BY <2>1
    <3> QED
      BY <3>3
  <2>4. \A r \in rows'[e] : <<e, r[2]>> \in held'[r[1]]
    BY <2>1, <2>2
  <2> QED
    BY <2>1, <2>3, <2>4 DEF Arriving, OnDisk
<1> QED
  BY <1>1, <1>2, <1>3, <1>4, <1>5, <1>6, <1>7, <1>8, <1>9 DEF Next, Progress, Failure, Fetch

\* Whoever becomes available was just placed, or was found in its place.
LEMMA BecomesStanding ==
    ASSUME IInv, Stands, Next, NEW d \in Docs, local[d] # "available", local'[d] = "available"
    PROVE  rows'[d] # {} /\ OnDisk(d)'
<1> USE DEF IInv, Types
<1>1. Recovered(d) \/ MarkAvailable(d)
  <2>1. ~(Command \/ Crash)
    BY DEF Command, Begin, ResolveDone, EnactDone, Tidy, Sweep, FetchDone, Crash, manifest
  <2>2. ASSUME NEW e \in Docs, Reconcile(e)
        PROVE  Recovered(d)
    <3>1. ~Remove(e) /\ ~Forget(e)
      BY DEF Remove, Unlink, Forget, manifest
    <3>2. Recovered(e)
      BY <2>2, <3>1 DEF Reconcile
    <3> QED
      BY <3>2 DEF Recovered
  <2>3. ASSUME NEW e \in Docs, Fetch(e)
        PROVE  MarkAvailable(d)
    <3>1. MarkAvailable(e) \/ StartDownload(e) \/ DownloadFails(e)
      BY <2>3
      DEF Fetch, ClearStaging, Receive, Extract, PlaceFiling, ImposeNames, ChooseName, ClearTarget,
          PlaceContainer, RecordFiles, Discard, manifest
    <3> QED
      BY <3>1 DEF MarkAvailable, StartDownload, DownloadFails, Abandon
  <2>4. ASSUME NEW e \in Docs,
               ArchiveFails(e) \/ TidyStuck(e) \/ ClearStagingStuck(e) \/ DiscardStuck(e)
        PROVE  FALSE
    BY <2>4 DEF ArchiveFails, TidyStuck, ClearStagingStuck, DiscardStuck, Abandon, manifest
  <2> QED
    BY <2>1, <2>2, <2>3, <2>4 DEF Next, Progress, Failure
<1>2. rows[d] # {} /\ OnDisk(d) /\ UNCHANGED <<rows, held>>
  BY <1>1 DEF Recovered, MarkAvailable, On, Stands, Arriving, tree
<1> QED
  BY <1>2 DEF OnDisk

\* Whatever competes for its names, and whatever a staging tree refused to let go of, an available
\* document has rows and the files they point to, and they are its own: it is what `Watcher` takes
\* for granted where it gives each document a place to itself (fetch.py 328-364).
THEOREM WhatIsAvailableStands == Spec => []AvailableStands
<1>1. Init => Stands
  BY DEF Init, Stands, AvailableStands, Arriving
<1>2. IInv /\ Stands /\ [Next]_vars => Stands'
  <2> SUFFICES ASSUME IInv, Stands, [Next]_vars
               PROVE  Stands'
    OBVIOUS
  <2>1. CASE Next
    <3>1. AvailableStands'
      BY <2>1, AvailableStaysStanding, BecomesStanding DEF Stands, AvailableStands
    <3> QED
      BY <2>1, <3>1, ArrivingKept DEF Stands
  <2>2. CASE UNCHANGED vars
    BY <2>2 DEF vars, manifest, tree, control, hand, Stands, AvailableStands, Arriving, OnDisk, Head
  <2>3. QED
    BY <2>1, <2>2
<1>3. Stands => AvailableStands
  BY DEF Stands
<1>4. QED
  BY InductiveInvariance, <1>1, <1>2, <1>3, PTL DEF Spec
=============================================================================
