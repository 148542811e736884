---------------------------- MODULE PromiseProofs ----------------------------
(***************************************************************************)
(* The other promises of the watcher's commands, and that they implement   *)
(* the shelf, for every set of documents and every value of the constants. *)
(* Promises is an invariant on top of the one of WatcherProofs: one        *)
(* conjunct for each thing a command promises, stated at each step on the  *)
(* way to it.  What is only promised where some kind of fault does not     *)
(* happen says so.  What refused to be unlinked, and when, is kept by the  *)
(* history of WatcherHistory.                                              *)
(***************************************************************************)
EXTENDS WatcherProofs, WatcherHistory

-----------------------------------------------------------------------------
(* The invariant.                                                          *)

\* What a promise names when it is only made as long as nothing of one kind has failed.
Met(kind) == kind \in Faults /\ faults > 0
Never(kinds) == Faults \intersect kinds = {}

Runs == {"run", "monitor"}
Ageing == {d \in Docs : Expired(DeliveredOn[d], today)}

\* A command that purges has done so: it is at its inbox, or it has ended there.
AtInbox == step = "inbox" \/ Finished
PurgeIsOver == AtInbox /\ cmd # "reconcile"

\* What is available has rows, and they are intact until a purge may have met its day.
AvailableStays ==
    \A d \in Docs : local[d] = "available" =>
        rows[d] # {} /\ (Intact(d) \/ Expired(DeliveredOn[d], today))

\* A purge leaves no expired directory behind, unless it refused to go ...
Emptied ==
    /\ kept # {} => Met("rmtree")
    /\ step = "purge_dirs" =>
           \A d \in Ageing : disk[d] = {} \/ DeliveredOn[d] \in dates \union kept
    /\ step \in {"purge_indexes", "purge_rows"} =>
           \A d \in Ageing : disk[d] = {} \/ DeliveredOn[d] \in kept

\* ... marks the rows of those it took, the interrupted ones excepted ...
Retired(d) == local[d] \in {Unknown, "purged"} \/ (cmd = "purge" /\ local[d] = "downloading")

Marked ==
    /\ step = "purge_rows" =>
           todo \subseteq {d \in Ageing : DeliveredOn[d] \notin kept /\ local[d] # Unknown}
    /\ step = "purge_rows" => \A d \in Ageing : Retired(d) \/ d \in todo \/ DeliveredOn[d] \in kept

\* ... and has done both when the command goes on to the inbox.
AgedOut ==
    PurgeIsOver => Met("rmtree") \/ \A d \in Ageing : disk[d] = {} /\ Retired(d)

\* Expired indexes go, and the inbox writes every index of the window as the manifest stands.
Indexed ==
    /\ step = "purge_indexes" => \A d \in Ageing : shown[d] = "absent" \/ DeliveredOn[d] \in dates
    /\ step = "purge_rows" \/ PurgeIsOver => \A d \in Ageing : shown[d] = "absent"
    /\ step = "inbox" => \A x \in dates : InWindow(x, today, Retention)
    /\ Finished => dates = {}
    /\ AtInbox /\ Never({"index"}) =>
           \A d \in Docs : InWindow(DeliveredOn[d], today, Retention) =>
               shown[d] = IndexEntry[local[d]] \/ DeliveredOn[d] \in dates

\* What is recorded is a whole delivery.
RecordedWhole ==
    Never({"unlink"}) =>
        survivors = {} /\ \A d \in Docs : rows[d] = {} \/ \E p \in Places : rows[d] = FilesAt(p)

\* From the first enacting of flags to the end of a run, the merge aside, a flagged document has
\* no rows, and what a merge finds flagged has none.
Enacted ==
    /\ survivors # {} => Met("unlink")
    /\ step \in {"enact", "enact_again"} =>
           \A d \in InState(Flagged) : rows[d] = {} \/ d \in todo \/ Met("unlink")
    /\ step \in {"sweep", "fetch"} \/ ((step \in PurgeSteps \/ Finished) /\ cmd \in Runs) =>
           \A d \in InState(Flagged) : rows[d] = {} \/ Met("unlink")
    /\ step = "merge" => \A d \in InState(Flagged) \intersect todo : rows[d] = {} \/ Met("unlink")

\* Rows outlive a purged document only from its marking to its forgetting.
Forgotten ==
    Never({"crash"}) =>
        \A d \in InState({"purged"}) : rows[d] = {} \/ (at = "forget" /\ Oldest(d))

\* Where no withdrawal is taken back, what was flagged is not listed as active again.
StaysWithdrawn ==
    ~Reinstates => \A d \in Docs :
        /\ local[d] \in Flagged => source[d] \in {"inactive", "cancelled"}
        /\ listing[d] \in {"inactive", "cancelled"} => source[d] \in {"inactive", "cancelled"}
        /\ step = "merge" /\ d \in todo /\ local[d] \in Flagged => listing[d] # "active"

\* Budget is left to all who can be queued, and to the download at hand until it is charged.
HasBudget ==
    ~Reinstates => \A d \in Docs :
        /\ local[d] \in {Unknown, "skipped", "discovered"} => failures[d] < MaxAttempts
        /\ step = "fetch" /\ at \notin {"settle", "condemn"} /\ local[d] = "downloading" =>
               failures[d] < MaxAttempts

\* Where nothing dies and no file is left unrecorded, files and rows go together: only the
\* download at hand has a file no row points to, and the queue has neither.
Tidy ==
    Never({"crash", "hash", "unlink"}) =>
        /\ step # "fetch" => InState({"downloading"}) = {}
        /\ \A d \in Docs :
            /\ local[d] \in {Unknown, "skipped", "discovered"} => rows[d] = {}
            /\ local[d] = "downloading" => rows[d] = {} \/ at = "recorded"
            /\ \/ disk[d] \subseteq rows[d]
               \/ at = "placed" /\ Head(d) /\ disk[d] \subseteq FilesAt(landed)

\* There, only the document's own failures are charged to it.
Free ==
    Never({"crash", "hash", "unlink", "document", "contract"}) =>
        /\ \A d \in Docs : failures[d] = 0 /\ local[d] # "failed"
        /\ at \notin {"charge", "settle", "condemn"}

Promises ==
    /\ AvailableStays /\ Emptied /\ Marked /\ AgedOut /\ Indexed /\ RecordedWhole /\ Enacted
    /\ Forgotten /\ StaysWithdrawn /\ HasBudget /\ Tidy /\ Free

-----------------------------------------------------------------------------
(* What each step moves.                                                   *)

\* The steps that move a document's row, each only its own.
LEMMA LocalMoves ==
    ASSUME TypeOK, Next, NEW d \in Docs, local'[d] # local[d]
    PROVE  \/ ResolveRecovered(d) \/ Settle(d) \/ MergeRow(d) \/ StartDownload(d) \/ MarkAvailable(d)
           \/ ArchiveFails(d) \/ Condemn(d) \/ FetchBudget(d) \/ FetchCaptcha(d) \/ PurgeRow(d)
  <1> USE DEF TypeOK, manifest
  <1>1. CASE Environment \/ \E c \in Commands : Begin(c)
    BY <1>1 DEF Environment, NextDay, Publish, Restate, Begin
  <1>2. CASE Boundary
    BY <1>2 DEF Boundary, ResolveDone, EnactDone, ReconcileDone, Sweep, MergeDone, FetchDone,
                PurgeDirsDone, PurgeIndexesDone, PurgeDone, InboxDone
  <1>3. CASE Failure
    BY <1>3 DEF Failure, Crash, SweepInterrupted, SweepCaptcha, ArchiveFails, DownloadFails,
                ContractBroken, FetchBudget, FetchCaptcha, UnlinkFails, RemoveDirectoryFails,
                IndexRefused
  <1>4. ASSUME NEW e \in Docs, MergeRow(e) \/ PurgeRow(e) \/ ForgetPurged(e)
        PROVE  e = d /\ ~ForgetPurged(e)
    BY <1>4 DEF MergeRow, PurgeRow, ForgetPurged
  <1>5. ASSUME NEW e \in Docs, Reconcile(e)
        PROVE  e = d /\ (ResolveRecovered(e) \/ Settle(e))
    BY <1>5 DEF Reconcile, ResolveRecovered, ResolveInterrupted, ChargeInterrupted, EnactFlag,
                ForgetRemoved, Settle, Unlink
  <1>6. ASSUME NEW e \in Docs, Fetch(e)
        PROVE  e = d /\ (StartDownload(e) \/ MarkAvailable(e) \/ Condemn(e))
    BY <1>6 DEF Fetch, StartDownload, RecordFiles, MarkAvailable, NowhereToLand, Condemn,
                ClearTarget, Place
  <1>7. ASSUME NEW x \in dates, PurgeDate(x)
        PROVE  FALSE
    BY <1>7 DEF PurgeDate, RemoveDirectory, RemoveIndex, WriteIndex, RemoveFile
  <1> QED
    BY <1>1, <1>2, <1>3, <1>4, <1>5, <1>6, <1>7 DEF Next, Progress

\* What merging a listed row makes of a state is a move the manifest accepts (discover.py).
LEMMA MergeIsLegal ==
    ASSUME NEW c \in LocalState \union {Unknown}, NEW s \in SourceStatus, NEW w \in BOOLEAN
    PROVE  IF c = Unknown THEN Merge(c, s, w) \in {Unknown, "discovered", "skipped"}
                          ELSE Legal(c, Merge(c, s, w))
  BY DEF Merge, MergeActive, MergeFlagged, FlagFor, LocalState, Unknown, SourceStatus,
         Requeueable, Legal, Transitions

\* Whatever moves a document finds it in a state the move is legal from.
LEMMA MoveIsLegal ==
    ASSUME Inductive, Marked, Next, NEW d \in Docs, local'[d] # local[d]
    PROVE  IF local[d] = Unknown THEN local'[d] \in {"discovered", "skipped"}
                                 ELSE Legal(local[d], local'[d])
  <1> DEFINE Downloading == local[d] = "downloading"
  <1>1. CASE ResolveRecovered(d)
    <2>1. Downloading /\ local'[d] = "available"
      BY <1>1 DEF ResolveRecovered, On, Head, Inductive, Flight, ResolvesInFlight, InState, TypeOK
    <2> QED
      BY <2>1 DEF Legal, Transitions, Unknown
  <1>2. CASE Settle(d)
    <2>1. Downloading
      BY <1>2 DEF Settle, Head, Inductive, Control, AtItsPoint, Flight, ResolvesInFlight,
                  FetchesInOrder, InState
    <2>2. local'[d] \in {"failed", "discovered"}
      BY <1>2 DEF Settle, Inductive, TypeOK
    <2> QED
      BY <2>1, <2>2 DEF Legal, Transitions, Unknown
  <1>3. CASE MergeRow(d)
    <2>1. /\ local[d] \in LocalState \union {Unknown} /\ listing[d] \in SourceStatus
          /\ local'[d] = Merge(local[d], listing[d], d \in wanted)
      BY <1>3 DEF MergeRow, On, Head, Inductive, Control, MergesListed, TypeOK
    <2> DEFINE want == d \in wanted
    <2>2. want \in BOOLEAN
      OBVIOUS
    <2>3. local'[d] = Merge(local[d], listing[d], want)
      BY <2>1
    <2> HIDE DEF want
    <2>4. IF local[d] = Unknown
          THEN Merge(local[d], listing[d], want) \in {Unknown, "discovered", "skipped"}
          ELSE Legal(local[d], Merge(local[d], listing[d], want))
      BY <2>1, <2>2, MergeIsLegal, Zenon
    <2> QED
      BY <2>3, <2>4
  <1>4. CASE StartDownload(d)
    <2>1. local[d] = "discovered" /\ local'[d] = "downloading"
      BY <1>4 DEF StartDownload, On, Head, Inductive, Flight, FetchesInOrder, TypeOK
    <2> QED
      BY <2>1 DEF Legal, Transitions, Unknown
  <1>5. CASE MarkAvailable(d) \/ ArchiveFails(d) \/ Condemn(d) \/ FetchBudget(d) \/ FetchCaptcha(d)
    <2>1. Downloading
      BY <1>5 DEF MarkAvailable, ArchiveFails, Condemn, FetchBudget, FetchCaptcha, On, Inductive,
                  Flight, FetchesInOrder
    <2>2. local'[d] \in {"available", "discovered", "failed"}
      BY <1>5 DEF MarkAvailable, ArchiveFails, Condemn, FetchBudget, FetchCaptcha, Inductive, TypeOK
    <2> QED
      BY <2>1, <2>2 DEF Legal, Transitions, Unknown
  <1>6. CASE PurgeRow(d)
    <2>1. Legal(local[d], "purged") /\ local'[d] = "purged"
      BY <1>6 DEF PurgeRow, Inductive, TypeOK
    <2>2. local[d] # Unknown
      BY <1>6 DEF PurgeRow, On, Oldest, Marked
    <2> QED
      BY <2>1, <2>2
  <1> QED
    BY <1>1, <1>2, <1>3, <1>4, <1>5, <1>6, LocalMoves DEF Inductive

\* The steps that touch a document's recorded files, or their bytes.
LEMMA RowsMove ==
    ASSUME TypeOK, Next, NEW d \in Docs, rows'[d] # rows[d] \/ altered'[d] # altered[d]
    PROVE  \/ ForgetRemoved(d) \/ RecordFiles(d) \/ ForgetPurged(d)
           \/ \E p \in Places, same \in BOOLEAN : Place(d, p, same)
  <1> USE DEF TypeOK, manifest, archive
  <1>1. CASE Environment \/ \E c \in Commands : Begin(c)
    BY <1>1 DEF Environment, NextDay, Publish, Restate, Begin
  <1>2. CASE Boundary
    BY <1>2 DEF Boundary, ResolveDone, EnactDone, ReconcileDone, Sweep, MergeDone, FetchDone,
                PurgeDirsDone, PurgeIndexesDone, PurgeDone, InboxDone
  <1>3. CASE Failure
    BY <1>3 DEF Failure, Crash, SweepInterrupted, SweepCaptcha, ArchiveFails, DownloadFails,
                ContractBroken, FetchBudget, FetchCaptcha, UnlinkFails, RemoveDirectoryFails,
                IndexRefused
  <1>4. ASSUME NEW e \in Docs, MergeRow(e) \/ PurgeRow(e) \/ ForgetPurged(e)
        PROVE  e = d /\ ForgetPurged(e)
    BY <1>4 DEF MergeRow, PurgeRow, ForgetPurged
  <1>5. ASSUME NEW e \in Docs, Reconcile(e)
        PROVE  e = d /\ ForgetRemoved(e)
    BY <1>5 DEF Reconcile, ResolveRecovered, ResolveInterrupted, ChargeInterrupted, EnactFlag,
                ForgetRemoved, Settle, Unlink
  <1>6. ASSUME NEW e \in Docs, Fetch(e)
        PROVE  e = d /\ (RecordFiles(e) \/ \E p \in Places, same \in BOOLEAN : Place(e, p, same))
    BY <1>6 DEF Fetch, StartDownload, RecordFiles, MarkAvailable, NowhereToLand, Condemn,
                ClearTarget, Place
  <1>7. ASSUME NEW x \in dates, PurgeDate(x)
        PROVE  FALSE
    BY <1>7 DEF PurgeDate, RemoveDirectory, RemoveIndex, WriteIndex, RemoveFile
  <1> QED
    BY <1>1, <1>2, <1>3, <1>4, <1>5, <1>6, <1>7 DEF Next, Progress

\* Faults are counted, and the day a command works with is never before the last one's.
LEMMA NeverBack ==
    ASSUME Inductive, Next
    PROVE  /\ faults' \in Nat /\ faults' >= faults
           /\ today' \in Nat /\ today' >= today
           /\ today' # today => step = "idle" \/ ReconcileDone
  <1> USE DEF Inductive, TypeOK, Control, PurgesExpired, given, Fault
  <1>1. CASE Environment \/ \E c \in Commands : Begin(c)
    BY <1>1 DEF Environment, NextDay, Publish, Restate, Begin
  <1>2. CASE Boundary
    BY <1>2 DEF Boundary, ResolveDone, EnactDone, ReconcileDone, Sweep, MergeDone, FetchDone,
                PurgeDirsDone, PurgeIndexesDone, PurgeDone, InboxDone
  <1>3. CASE Failure
    BY <1>3 DEF Failure, Crash, SweepInterrupted, SweepCaptcha, ArchiveFails, DownloadFails,
                ContractBroken, FetchBudget, FetchCaptcha, UnlinkFails, RemoveDirectoryFails,
                IndexRefused
  <1>4. ASSUME NEW e \in Docs, MergeRow(e) \/ PurgeRow(e) \/ ForgetPurged(e)
        PROVE  UNCHANGED <<faults, today>>
    BY <1>4 DEF MergeRow, PurgeRow, ForgetPurged
  <1>5. ASSUME NEW e \in Docs, Reconcile(e)
        PROVE  UNCHANGED <<faults, today>>
    BY <1>5 DEF Reconcile, ResolveRecovered, ResolveInterrupted, ChargeInterrupted, EnactFlag,
                ForgetRemoved, Settle, Unlink
  <1>6. ASSUME NEW e \in Docs, Fetch(e)
        PROVE  UNCHANGED <<faults, today>>
    BY <1>6 DEF Fetch, StartDownload, RecordFiles, MarkAvailable, NowhereToLand, Condemn,
                ClearTarget, Place
  <1>7. ASSUME NEW x \in dates, PurgeDate(x)
        PROVE  UNCHANGED <<faults, today>>
    BY <1>7 DEF PurgeDate, RemoveDirectory, RemoveIndex, WriteIndex, RemoveFile
  <1> QED
    BY <1>1, <1>2, <1>3, <1>4, <1>5, <1>6, <1>7 DEF Next, Progress

\* What has failed stays on the count.
LEMMA MetStays ==
    ASSUME Inductive, Next, NEW kind, Met(kind)
    PROVE  Met(kind)'
  BY NeverBack DEF Met, Inductive, TypeOK

\* A directory is kept because it refused to go.
LEMMA KeptMoves ==
    ASSUME Next, ~(kept' \subseteq kept)
    PROVE  \E x \in dates : RemoveDirectoryFails(x)
  <1> USE DEF scratch
  <1>1. CASE Environment \/ \E c \in Commands : Begin(c)
    BY <1>1 DEF Environment, NextDay, Publish, Restate, Begin
  <1>2. CASE Boundary
    BY <1>2 DEF Boundary, ResolveDone, EnactDone, ReconcileDone, Sweep, MergeDone, FetchDone,
                PurgeDirsDone, PurgeIndexesDone, PurgeDone, InboxDone, Finish
  <1>3. CASE Failure
    BY <1>3 DEF Failure, Crash, SweepInterrupted, SweepCaptcha, ArchiveFails, DownloadFails,
                ContractBroken, FetchBudget, FetchCaptcha, UnlinkFails, IndexRefused, Finish
  <1>4. ASSUME NEW e \in Docs, MergeRow(e) \/ PurgeRow(e) \/ ForgetPurged(e) \/ Reconcile(e) \/ Fetch(e)
        PROVE  FALSE
    BY <1>4 DEF MergeRow, PurgeRow, ForgetPurged, Reconcile, ResolveRecovered, ResolveInterrupted,
                ChargeInterrupted, EnactFlag, ForgetRemoved, Settle, Unlink, Fetch, StartDownload,
                RecordFiles, MarkAvailable, NowhereToLand, Condemn, ClearTarget, Place
  <1>5. ASSUME NEW x \in dates, PurgeDate(x)
        PROVE  FALSE
    BY <1>5 DEF PurgeDate, RemoveDirectory, RemoveIndex, WriteIndex, RemoveFile
  <1> QED
    BY <1>1, <1>2, <1>3, <1>4, <1>5 DEF Next, Progress

\* Only the rename of a delivery brings files.
LEMMA DiskGrows ==
    ASSUME TypeOK, Next, NEW d \in Docs, ~(disk'[d] \subseteq disk[d])
    PROVE  \E p \in Places, same \in BOOLEAN : Place(d, p, same)
  <1> USE DEF TypeOK, archive
  <1>1. CASE Environment \/ \E c \in Commands : Begin(c)
    BY <1>1 DEF Environment, NextDay, Publish, Restate, Begin
  <1>2. CASE Boundary
    BY <1>2 DEF Boundary, ResolveDone, EnactDone, ReconcileDone, Sweep, MergeDone, FetchDone,
                PurgeDirsDone, PurgeIndexesDone, PurgeDone, InboxDone
  <1>3. CASE Failure
    BY <1>3 DEF Failure, Crash, SweepInterrupted, SweepCaptcha, ArchiveFails, DownloadFails,
                ContractBroken, FetchBudget, FetchCaptcha, UnlinkFails, RemoveDirectoryFails,
                IndexRefused
  <1>4. ASSUME NEW e \in Docs, MergeRow(e) \/ PurgeRow(e) \/ ForgetPurged(e) \/ Reconcile(e)
        PROVE  FALSE
    BY <1>4 DEF MergeRow, PurgeRow, ForgetPurged, Reconcile, ResolveRecovered, ResolveInterrupted,
                ChargeInterrupted, EnactFlag, ForgetRemoved, Settle, Unlink
  <1>5. ASSUME NEW e \in Docs, Fetch(e)
        PROVE  e = d /\ \E p \in Places, same \in BOOLEAN : Place(e, p, same)
    BY <1>5 DEF Fetch, StartDownload, RecordFiles, MarkAvailable, NowhereToLand, Condemn,
                ClearTarget, Place
  <1>6. ASSUME NEW x \in dates, PurgeDate(x)
        PROVE  FALSE
    BY <1>6 DEF PurgeDate, RemoveDirectory, RemoveIndex, WriteIndex, RemoveFile
  <1> QED
    BY <1>1, <1>2, <1>3, <1>4, <1>5, <1>6 DEF Next, Progress

\* What may happen from the purge on.
LEMMA InPurge ==
    ASSUME Inductive, Next, step \in PurgeSteps
    PROVE  \/ Environment \/ Crash
           \/ PurgeDirsDone \/ PurgeIndexesDone \/ PurgeDone \/ InboxDone
           \/ \E d \in Docs : PurgeRow(d) \/ ForgetPurged(d)
           \/ \E x \in dates : PurgeDate(x) \/ RemoveDirectoryFails(x) \/ IndexRefused(x)
  <1> USE DEF Inductive, Control, AtItsPoint, PurgeSteps, On
  <1>1. CASE \E c \in Commands : Begin(c)
    BY <1>1 DEF Begin
  <1>2. CASE Boundary
    BY <1>2 DEF Boundary, ResolveDone, EnactDone, ReconcileDone, Sweep, MergeDone, FetchDone
  <1>3. CASE Failure
    BY <1>3 DEF Failure, SweepInterrupted, SweepCaptcha, ArchiveFails, DownloadFails,
                ContractBroken, FetchBudget, FetchCaptcha, UnlinkFails
  <1>4. ASSUME NEW e \in Docs, MergeRow(e) \/ Reconcile(e) \/ Fetch(e)
        PROVE  FALSE
    BY <1>4 DEF MergeRow, Reconcile, ResolveRecovered, ResolveInterrupted, ChargeInterrupted,
                EnactFlag, ForgetRemoved, Settle, Unlink, Fetch, StartDownload, RecordFiles,
                MarkAvailable, NowhereToLand, Condemn, ClearTarget, Place
  <1> QED
    BY <1>1, <1>2, <1>3, <1>4 DEF Next, Progress

\* How a command comes to its purge, and to the inbox that has none before it.
LEMMA IntoPurge ==
    ASSUME Inductive, Next, step' \in PurgeSteps, step \notin PurgeSteps
    PROVE  /\ UNCHANGED <<rows, disk, altered, shown, kept>>
           /\ EnterPurge(today') \/ ReconcileDone
  <1> USE DEF Inductive, TypeOK, PurgeSteps, On, manifest, archive, given, scratch, counter
  <1>1. CASE Environment
    BY <1>1 DEF Environment, NextDay, Publish, Restate
  <1>2. ASSUME NEW c \in Commands, Begin(c)
        PROVE  UNCHANGED <<rows, disk, altered, shown, kept>> /\ EnterPurge(today')
    BY <1>2 DEF Begin, EnterPurge, Enter
  <1>3. CASE Boundary
    BY <1>3 DEF Boundary, ResolveDone, EnactDone, ReconcileDone, Sweep, MergeDone, FetchDone,
                PurgeDirsDone, PurgeIndexesDone, PurgeDone, InboxDone, Enter, EnterPurge
  <1>4. CASE Failure
    <2>1. ASSUME NEW d \in Docs, FetchBudget(d)
          PROVE  UNCHANGED <<rows, disk, altered, shown, kept>> /\ EnterPurge(today')
      <3>1. UNCHANGED <<rows, disk, altered, shown, kept, today>> /\ EnterPurge(today)
        BY <2>1 DEF FetchBudget
      <3> QED
        BY <3>1 DEF EnterPurge
    <2>2. CASE SweepInterrupted
      <3>1. UNCHANGED <<rows, disk, altered, shown, kept, today>> /\ EnterPurge(today)
        BY <2>2 DEF SweepInterrupted
      <3> QED
        BY <3>1 DEF EnterPurge
    <2>3. ASSUME NEW d \in Docs,
                 ArchiveFails(d) \/ DownloadFails(d) \/ ContractBroken(d) \/ FetchCaptcha(d)
                     \/ \E f \in AllFiles : UnlinkFails(d, f)
          PROVE  FALSE
      BY <2>3 DEF ArchiveFails, DownloadFails, ContractBroken, FetchCaptcha, UnlinkFails, Enter, Finish,
                  At, Done
    <2> QED
      BY <1>4, <2>1, <2>2, <2>3 DEF Failure, Crash, SweepCaptcha, RemoveDirectoryFails, IndexRefused,
                                    Enter, Finish
  <1>5. ASSUME NEW e \in Docs, MergeRow(e) \/ PurgeRow(e) \/ ForgetPurged(e) \/ Reconcile(e) \/ Fetch(e)
        PROVE  UNCHANGED step
    BY <1>5 DEF MergeRow, PurgeRow, ForgetPurged, Reconcile, ResolveRecovered, ResolveInterrupted,
                ChargeInterrupted, EnactFlag, ForgetRemoved, Settle, Unlink, Fetch, StartDownload,
                RecordFiles, MarkAvailable, NowhereToLand, Condemn, ClearTarget, Place, At, Done
  <1>6. ASSUME NEW x \in dates, PurgeDate(x)
        PROVE  UNCHANGED step
    BY <1>6 DEF PurgeDate, RemoveDirectory, RemoveIndex, WriteIndex, RemoveFile
  <1> QED
    BY <1>1, <1>2, <1>3, <1>4, <1>5, <1>6 DEF Next, Progress

\* A command at its inbox has just come to it, or stays there or at its end.
LEMMA IntoInbox ==
    ASSUME Inductive, Next, AtInbox'
    PROVE  \/ PurgeDone \/ ReconcileDone
           \/ /\ AtInbox /\ UNCHANGED <<cmd, today>>
              /\ \/ Environment \/ InboxDone
                 \/ \E x \in dates : WriteIndex(x) \/ IndexRefused(x)
  <1> USE DEF Inductive, Control, AtItsPoint, AtInbox, Finished, counter, given, On
  <1>1. CASE Environment
    BY <1>1 DEF Environment, NextDay, Publish, Restate
  <1>2. ASSUME NEW c \in Commands, Begin(c) PROVE FALSE
    BY <1>2 DEF Begin, Enter, EnterPurge
  <1>3. CASE Boundary
    BY <1>3 DEF Boundary, ResolveDone, EnactDone, ReconcileDone, Sweep, MergeDone, FetchDone,
                PurgeDirsDone, PurgeIndexesDone, InboxDone, Enter, EnterPurge, EnterInbox, Finish
  <1>4. CASE Failure
    BY <1>4 DEF Failure, Crash, SweepInterrupted, SweepCaptcha, ArchiveFails, DownloadFails,
                ContractBroken, FetchBudget, FetchCaptcha, UnlinkFails, RemoveDirectoryFails,
                IndexRefused, Enter, EnterPurge, Finish, At, Done
  <1>5. ASSUME NEW e \in Docs, MergeRow(e) \/ PurgeRow(e) \/ ForgetPurged(e) \/ Reconcile(e) \/ Fetch(e)
        PROVE  FALSE
    BY <1>5 DEF MergeRow, PurgeRow, ForgetPurged, Reconcile, ResolveRecovered, ResolveInterrupted,
                ChargeInterrupted, EnactFlag, ForgetRemoved, Settle, Unlink, Fetch, StartDownload,
                RecordFiles, MarkAvailable, NowhereToLand, Condemn, ClearTarget, Place, At, Done
  <1>6. ASSUME NEW x \in dates, PurgeDate(x)
        PROVE  WriteIndex(x) /\ step = "inbox" /\ UNCHANGED <<cmd, today>>
    BY <1>6 DEF PurgeDate, RemoveDirectory, RemoveIndex, WriteIndex, RemoveFile
  <1> QED
    BY <1>1, <1>2, <1>3, <1>4, <1>5, <1>6 DEF Next, Progress

\* Only a purge and an inbox touch an index.
LEMMA ShownMoves ==
    ASSUME TypeOK, Next
    PROVE  \/ UNCHANGED shown
           \/ \E x \in dates : RemoveIndex(x) \/ WriteIndex(x)
  <1> USE DEF archive
  <1>1. CASE Environment \/ \E c \in Commands : Begin(c)
    BY <1>1 DEF Environment, NextDay, Publish, Restate, Begin
  <1>2. CASE Boundary
    BY <1>2 DEF Boundary, ResolveDone, EnactDone, ReconcileDone, Sweep, MergeDone, FetchDone,
                PurgeDirsDone, PurgeIndexesDone, PurgeDone, InboxDone
  <1>3. CASE Failure
    BY <1>3 DEF Failure, Crash, SweepInterrupted, SweepCaptcha, ArchiveFails, DownloadFails,
                ContractBroken, FetchBudget, FetchCaptcha, UnlinkFails, RemoveDirectoryFails,
                IndexRefused
  <1>4. ASSUME NEW e \in Docs, MergeRow(e) \/ PurgeRow(e) \/ ForgetPurged(e) \/ Reconcile(e) \/ Fetch(e)
        PROVE  UNCHANGED shown
    BY <1>4 DEF MergeRow, PurgeRow, ForgetPurged, Reconcile, ResolveRecovered, ResolveInterrupted,
                ChargeInterrupted, EnactFlag, ForgetRemoved, Settle, Unlink, Fetch, StartDownload,
                RecordFiles, MarkAvailable, NowhereToLand, Condemn, ClearTarget, Place
  <1>5. ASSUME NEW x \in dates, PurgeDate(x), ~(RemoveIndex(x) \/ WriteIndex(x))
        PROVE  UNCHANGED shown
    BY <1>5 DEF PurgeDate, RemoveDirectory, RemoveFile
  <1> QED
    BY <1>1, <1>2, <1>3, <1>4, <1>5 DEF Next, Progress

\* A file survives its removal because its unlink failed.
LEMMA SurvivorsMove ==
    ASSUME TypeOK, Next, ~(survivors' \subseteq survivors)
    PROVE  Met("unlink")' /\ "unlink" \in Faults
  <1> USE DEF scratch
  <1>1. CASE Environment \/ \E c \in Commands : Begin(c)
    BY <1>1 DEF Environment, NextDay, Publish, Restate, Begin
  <1>2. CASE Boundary
    BY <1>2 DEF Boundary, ResolveDone, EnactDone, ReconcileDone, Sweep, MergeDone, FetchDone,
                PurgeDirsDone, PurgeIndexesDone, PurgeDone, InboxDone, Finish
  <1>3. CASE Failure
    <2>1. ASSUME NEW d \in Docs, NEW f \in AllFiles, UnlinkFails(d, f)
          PROVE  Met("unlink")' /\ "unlink" \in Faults
      BY <2>1 DEF UnlinkFails, Fault, Met, TypeOK
    <2> QED
      BY <1>3, <2>1
      DEF Failure, Crash, SweepInterrupted, SweepCaptcha, ArchiveFails, DownloadFails,
          ContractBroken, FetchBudget, FetchCaptcha, RemoveDirectoryFails, IndexRefused, Finish
  <1>4. ASSUME NEW e \in Docs, MergeRow(e) \/ PurgeRow(e) \/ ForgetPurged(e) \/ Reconcile(e) \/ Fetch(e)
        PROVE  FALSE
    BY <1>4 DEF MergeRow, PurgeRow, ForgetPurged, Reconcile, ResolveRecovered, ResolveInterrupted,
                ChargeInterrupted, EnactFlag, ForgetRemoved, Settle, Unlink, Fetch, StartDownload,
                RecordFiles, MarkAvailable, NowhereToLand, Condemn, ClearTarget, Place
  <1>5. ASSUME NEW x \in dates, PurgeDate(x)
        PROVE  FALSE
    BY <1>5 DEF PurgeDate, RemoveDirectory, RemoveIndex, WriteIndex, RemoveFile
  <1> QED
    BY <1>1, <1>2, <1>3, <1>4, <1>5 DEF Next, Progress

\* The order of the steps, and that one command goes through them.
LEMMA StepsInOrder ==
    ASSUME Next
    PROVE  /\ step' = "enact" => step = "enact" \/ ResolveDone
           /\ step' = "sweep" => step = "sweep" \/ (EnactDone /\ step = "enact")
           /\ step' = "merge" => step = "merge" \/ Sweep
           /\ step' = "enact_again" => step = "enact_again" \/ MergeDone
           /\ step' = "fetch" => step = "fetch" \/ (EnactDone /\ step = "enact_again")
           /\ step' \in PurgeSteps /\ step \notin PurgeSteps =>
                  step \in {"idle", "sweep", "fetch"} \/ ReconcileDone
           /\ step # "idle" => UNCHANGED cmd
           /\ step = "idle" /\ cmd' # cmd => \E c \in Commands : Begin(c)
  <1> USE DEF counter, given, On, PurgeSteps
  <1>1. CASE Environment
    BY <1>1 DEF Environment, NextDay, Publish, Restate
  <1>2. ASSUME NEW c \in Commands, Begin(c)
        PROVE  step = "idle" /\ step' \in {"resolve", "purge_dirs"}
    BY <1>2 DEF Begin, Enter, EnterPurge
  <1>3. CASE Boundary
    BY <1>3 DEF Boundary, ResolveDone, EnactDone, ReconcileDone, Sweep, MergeDone, FetchDone,
                PurgeDirsDone, PurgeIndexesDone, PurgeDone, InboxDone, Enter, EnterPurge, EnterInbox, Finish
  <1>4. CASE Failure
    BY <1>4 DEF Failure, Crash, SweepInterrupted, SweepCaptcha, ArchiveFails, DownloadFails,
                ContractBroken, FetchBudget, FetchCaptcha, UnlinkFails, RemoveDirectoryFails,
                IndexRefused, Enter, EnterPurge, Finish, At, Done
  <1>5. ASSUME NEW e \in Docs, MergeRow(e) \/ PurgeRow(e) \/ ForgetPurged(e) \/ Reconcile(e) \/ Fetch(e)
        PROVE  UNCHANGED <<step, cmd>>
    BY <1>5 DEF MergeRow, PurgeRow, ForgetPurged, Reconcile, ResolveRecovered, ResolveInterrupted,
                ChargeInterrupted, EnactFlag, ForgetRemoved, Settle, Unlink, Fetch, StartDownload,
                RecordFiles, MarkAvailable, NowhereToLand, Condemn, ClearTarget, Place, At, Done
  <1>6. ASSUME NEW x \in dates, PurgeDate(x)
        PROVE  UNCHANGED <<step, cmd>>
    BY <1>6 DEF PurgeDate, RemoveDirectory, RemoveIndex, WriteIndex, RemoveFile
  <1> QED
    BY <1>1, <1>2, <1>3, <1>4, <1>5, <1>6 DEF Next, Progress

\* A loop passes a document when it has dealt with it.
LEMMA TodoInEnact ==
    ASSUME Inductive, Next, step \in {"enact", "enact_again"}, step' = step,
           NEW d \in todo, d \notin todo', rows[d] # {}
    PROVE  ForgetRemoved(d)
  <1> USE DEF Inductive, TypeOK, On, counter, Control, AtItsPoint
  <1>1. CASE Environment \/ \E c \in Commands : Begin(c)
    BY <1>1 DEF Environment, NextDay, Publish, Restate, Begin
  <1>2. CASE Boundary
    BY <1>2 DEF Boundary, ResolveDone, EnactDone, ReconcileDone, Sweep, MergeDone, FetchDone,
                PurgeDirsDone, PurgeIndexesDone, PurgeDone, InboxDone
  <1>3. CASE Failure
    BY <1>3 DEF Failure, Crash, SweepInterrupted, SweepCaptcha, ArchiveFails, DownloadFails,
                ContractBroken, FetchBudget, FetchCaptcha, UnlinkFails, RemoveDirectoryFails,
                IndexRefused, Finish, Enter
  <1>4. ASSUME NEW e \in Docs, MergeRow(e) \/ PurgeRow(e) \/ ForgetPurged(e) \/ Fetch(e)
        PROVE  FALSE
    BY <1>4 DEF MergeRow, PurgeRow, ForgetPurged, Fetch, StartDownload, RecordFiles, MarkAvailable,
                NowhereToLand, Condemn, ClearTarget, Place
  <1>5. ASSUME NEW e \in Docs, Reconcile(e)
        PROVE  e = d /\ ForgetRemoved(e)
    BY <1>5 DEF Reconcile, ResolveRecovered, ResolveInterrupted, ChargeInterrupted, EnactFlag,
                ForgetRemoved, Settle, Unlink, Done, At
  <1>6. ASSUME NEW x \in dates, PurgeDate(x)
        PROVE  FALSE
    BY <1>6 DEF PurgeDate, RemoveDirectory, RemoveIndex, WriteIndex, RemoveFile
  <1> QED
    BY <1>1, <1>2, <1>3, <1>4, <1>5, <1>6 DEF Next, Progress

\* What a merge still has to do was not merged in this step.
LEMMA TodoInMerge ==
    ASSUME Inductive, Next, step = "merge", step' = "merge", NEW d \in todo'
    PROVE  ~MergeRow(d) /\ d \in todo
  <1> USE DEF Inductive, TypeOK, On, counter, Control, AtItsPoint
  <1>1. CASE Environment \/ \E c \in Commands : Begin(c)
    BY <1>1 DEF Environment, NextDay, Publish, Restate, Begin, MergeRow, Done
  <1>2. CASE Boundary
    BY <1>2 DEF Boundary, ResolveDone, EnactDone, ReconcileDone, Sweep, MergeDone, FetchDone,
                PurgeDirsDone, PurgeIndexesDone, PurgeDone, InboxDone, Enter
  <1>3. CASE Failure
    BY <1>3 DEF Failure, Crash, SweepInterrupted, SweepCaptcha, ArchiveFails, DownloadFails,
                ContractBroken, FetchBudget, FetchCaptcha, UnlinkFails, RemoveDirectoryFails,
                IndexRefused, Finish, Enter
  <1>4. ASSUME NEW e \in Docs, Reconcile(e) \/ PurgeRow(e) \/ ForgetPurged(e) \/ Fetch(e)
        PROVE  FALSE
    BY <1>4 DEF Reconcile, ResolveRecovered, ResolveInterrupted, ChargeInterrupted, EnactFlag,
                ForgetRemoved, Settle, Unlink, PurgeRow, ForgetPurged, Fetch, StartDownload, RecordFiles,
                MarkAvailable, NowhereToLand, Condemn, ClearTarget, Place
  <1>5. ASSUME NEW e \in Docs, MergeRow(e)
        PROVE  todo' = todo \ {e}
    BY <1>5 DEF MergeRow, Done
  <1>6. ASSUME NEW x \in dates, PurgeDate(x)
        PROVE  FALSE
    BY <1>6 DEF PurgeDate, RemoveDirectory, RemoveIndex, WriteIndex, RemoveFile
  <1> QED
    BY <1>1, <1>2, <1>3, <1>4, <1>5, <1>6 DEF Next, Progress, MergeRow, Done

\* Between commands only the world moves, until one begins.
LEMMA IdleStays ==
    ASSUME Inductive, Next, step = "idle"
    PROVE  Environment \/ \E c \in Commands : Begin(c)
  <1> USE DEF Inductive, Control, AtItsPoint, On
  <1>1. CASE Boundary
    BY <1>1 DEF Boundary, ResolveDone, EnactDone, ReconcileDone, Sweep, MergeDone, FetchDone,
                PurgeDirsDone, PurgeIndexesDone, PurgeDone, InboxDone
  <1>2. CASE Failure
    BY <1>2 DEF Failure, Crash, SweepInterrupted, SweepCaptcha, ArchiveFails, DownloadFails,
                ContractBroken, FetchBudget, FetchCaptcha, UnlinkFails, RemoveDirectoryFails,
                IndexRefused
  <1>3. ASSUME NEW e \in Docs, MergeRow(e) \/ PurgeRow(e) \/ ForgetPurged(e) \/ Reconcile(e) \/ Fetch(e)
        PROVE  FALSE
    BY <1>3 DEF MergeRow, PurgeRow, ForgetPurged, Reconcile, ResolveRecovered, ResolveInterrupted,
                ChargeInterrupted, EnactFlag, ForgetRemoved, Settle, Unlink, Fetch, StartDownload,
                RecordFiles, MarkAvailable, NowhereToLand, Condemn, ClearTarget, Place
  <1>4. ASSUME NEW x \in dates, PurgeDate(x)
        PROVE  FALSE
    BY <1>4 DEF PurgeDate, RemoveDirectory, RemoveIndex, WriteIndex, RemoveFile
  <1> QED
    BY <1>1, <1>2, <1>3, <1>4 DEF Next, Progress

\* The end of a command is behind its inbox.
LEMMA AtInboxFrom ==
    ASSUME Inductive, Next, Finished'
    PROVE  (step = "inbox" \/ Finished) /\ UNCHANGED cmd
  <1>1. AtInbox /\ UNCHANGED cmd
    BY IntoInbox DEF AtInbox, Finished, PurgeDone, ReconcileDone, EnterInbox, Enter
  <1> QED
    BY <1>1 DEF AtInbox

\* The listing is what the sweep found at the source, until it is merged.
LEMMA ListingMoves ==
    ASSUME TypeOK, Next, NEW d \in Docs, listing'[d] # listing[d]
    PROVE  (Sweep /\ listing'[d] \in {source[d], "unlisted"}) \/ listing'[d] = "unlisted"
  <1> USE DEF scratch, TypeOK
  <1>1. CASE Environment \/ \E c \in Commands : Begin(c)
    BY <1>1 DEF Environment, NextDay, Publish, Restate, Begin
  <1>2. CASE Boundary
    BY <1>2 DEF Boundary, ResolveDone, EnactDone, ReconcileDone, Sweep, MergeDone, FetchDone,
                PurgeDirsDone, PurgeIndexesDone, PurgeDone, InboxDone, Finish, Unlisted
  <1>3. CASE Failure
    BY <1>3 DEF Failure, Crash, SweepInterrupted, SweepCaptcha, ArchiveFails, DownloadFails,
                ContractBroken, FetchBudget, FetchCaptcha, UnlinkFails, RemoveDirectoryFails,
                IndexRefused, Finish, Unlisted
  <1>4. ASSUME NEW e \in Docs, MergeRow(e) \/ PurgeRow(e) \/ ForgetPurged(e) \/ Reconcile(e) \/ Fetch(e)
        PROVE  FALSE
    BY <1>4 DEF MergeRow, PurgeRow, ForgetPurged, Reconcile, ResolveRecovered, ResolveInterrupted,
                ChargeInterrupted, EnactFlag, ForgetRemoved, Settle, Unlink, Fetch, StartDownload,
                RecordFiles, MarkAvailable, NowhereToLand, Condemn, ClearTarget, Place
  <1>5. ASSUME NEW x \in dates, PurgeDate(x)
        PROVE  FALSE
    BY <1>5 DEF PurgeDate, RemoveDirectory, RemoveIndex, WriteIndex, RemoveFile
  <1> QED
    BY <1>1, <1>2, <1>3, <1>4, <1>5 DEF Next, Progress

Charging(d) ==
    ChargeInterrupted(d) \/ DownloadFails(d) \/ NowhereToLand(d) \/ ContractBroken(d)

\* The steps that charge a document.
LEMMA FailuresMove ==
    ASSUME TypeOK, Next, NEW d \in Docs, failures'[d] # failures[d]
    PROVE  Charging(d)
  <1> USE DEF TypeOK, manifest, Charging
  <1>1. CASE Environment \/ \E c \in Commands : Begin(c)
    BY <1>1 DEF Environment, NextDay, Publish, Restate, Begin
  <1>2. CASE Boundary
    BY <1>2 DEF Boundary, ResolveDone, EnactDone, ReconcileDone, Sweep, MergeDone, FetchDone,
                PurgeDirsDone, PurgeIndexesDone, PurgeDone, InboxDone
  <1>3. CASE Failure
    BY <1>3 DEF Failure, Crash, SweepInterrupted, SweepCaptcha, ArchiveFails, DownloadFails,
                ContractBroken, FetchBudget, FetchCaptcha, UnlinkFails, RemoveDirectoryFails,
                IndexRefused
  <1>4. ASSUME NEW e \in Docs, MergeRow(e) \/ PurgeRow(e) \/ ForgetPurged(e)
        PROVE  FALSE
    BY <1>4 DEF MergeRow, PurgeRow, ForgetPurged
  <1>5. ASSUME NEW e \in Docs, Reconcile(e)
        PROVE  e = d /\ ChargeInterrupted(e)
    BY <1>5 DEF Reconcile, ResolveRecovered, ResolveInterrupted, ChargeInterrupted, EnactFlag,
                ForgetRemoved, Settle, Unlink
  <1>6. ASSUME NEW e \in Docs, Fetch(e)
        PROVE  e = d /\ NowhereToLand(e)
    BY <1>6 DEF Fetch, StartDownload, RecordFiles, MarkAvailable, NowhereToLand, Condemn,
                ClearTarget, Place
  <1>7. ASSUME NEW x \in dates, PurgeDate(x)
        PROVE  FALSE
    BY <1>7 DEF PurgeDate, RemoveDirectory, RemoveIndex, WriteIndex, RemoveFile
  <1> QED
    BY <1>1, <1>2, <1>3, <1>4, <1>5, <1>6, <1>7 DEF Next, Progress

\* How a point is left, and how the points that charge a document are reached.
LEMMA PointsAreLeft ==
    ASSUME Inductive, Next
    PROVE  /\ at = "recorded" => Environment \/ Crash \/ \E d \in Docs : MarkAvailable(d)
           /\ at = "placed" => Environment \/ Crash \/ \E d \in Docs : RecordFiles(d) \/ ArchiveFails(d)
           /\ at \in {"settle", "condemn"} =>
                  Environment \/ Crash \/ \E d \in Docs : Settle(d) \/ Condemn(d)
           /\ at' \in {"charge", "settle", "condemn"} /\ at' # at =>
                  \E d \in Docs : Charging(d) \/ (ForgetRemoved(d) /\ step = "resolve")
           /\ step = "fetch" /\ step' # "fetch" =>
                  Crash \/ FetchDone \/ \E d \in Docs : FetchBudget(d) \/ FetchCaptcha(d)
  <1> USE DEF Inductive, Control, AtItsPoint, On, counter, Charging
  <1>1. CASE Environment
    BY <1>1 DEF Environment, NextDay, Publish, Restate
  <1>2. ASSUME NEW c \in Commands, Begin(c)
        PROVE  step = "idle" /\ at = "loop" /\ at' = "loop"
    <2>1. step = "idle" /\ at' = "loop"
      BY <1>2 DEF Begin, Enter, EnterPurge
    <2> QED
      BY <2>1 DEF TypeOK, Points
  <1>3. CASE Boundary
    <2>1. at = "loop" /\ at' = "loop" /\ (step = "fetch" => FetchDone)
      BY <1>3 DEF Boundary, ResolveDone, EnactDone, ReconcileDone, Sweep, MergeDone, FetchDone,
                PurgeDirsDone, PurgeIndexesDone, PurgeDone, InboxDone, Enter, EnterPurge, EnterInbox, Finish
    <2> QED
      BY <2>1
  <1>4. CASE Failure
    BY <1>4 DEF Failure, Crash, SweepInterrupted, SweepCaptcha, ArchiveFails, DownloadFails,
                ContractBroken, FetchBudget, FetchCaptcha, UnlinkFails, RemoveDirectoryFails,
                IndexRefused, Enter, EnterPurge, Finish, At, Done
  <1>5. ASSUME NEW e \in Docs, MergeRow(e) \/ PurgeRow(e) \/ ForgetPurged(e)
        PROVE  step = step' /\ step # "fetch" /\ at \in {"loop", "forget"} /\ at' \in {"loop", "forget"}
    BY <1>5 DEF MergeRow, PurgeRow, ForgetPurged, At, Done
  <1>6. ASSUME NEW e \in Docs, Reconcile(e)
        PROVE  /\ step' = step
               /\ at \in {"loop", "unlink", "charge"} \/ (Settle(e) /\ at = "settle")
               /\ at' \in {"charge", "settle", "condemn"} /\ at' # at =>
                    ChargeInterrupted(e) \/ (ForgetRemoved(e) /\ step = "resolve")
    BY <1>6 DEF Reconcile, ResolveRecovered, ResolveInterrupted, ChargeInterrupted, EnactFlag,
                ForgetRemoved, Settle, Unlink, At, Done
  <1>7. ASSUME NEW e \in Docs, Fetch(e)
        PROVE  /\ step' = step
               /\ at \in {"loop", "download", "clearing"} \/ RecordFiles(e) \/ MarkAvailable(e) \/ Condemn(e)
               /\ RecordFiles(e) => at = "placed"
               /\ MarkAvailable(e) => at = "recorded"
               /\ Condemn(e) => at = "condemn"
               /\ at' \in {"charge", "settle", "condemn"} => NowhereToLand(e)
    BY <1>7 DEF Fetch, StartDownload, RecordFiles, MarkAvailable, NowhereToLand, Condemn,
                ClearTarget, Place, At, Done
  <1>8. ASSUME NEW x \in dates, PurgeDate(x)
        PROVE  UNCHANGED <<step, at>> /\ at = "loop"
    BY <1>8 DEF PurgeDate, RemoveDirectory, RemoveIndex, WriteIndex, RemoveFile
  <1> QED
    BY <1>1, <1>2, <1>3, <1>4, <1>5, <1>6, <1>7, <1>8 DEF Next, Progress

-----------------------------------------------------------------------------
(* What is available, and what a purge leaves.                             *)

\* What is available keeps its rows and its files; what becomes available has just been found, or
\* placed and recorded.
LEMMA AvailableStaysStep ==
    ASSUME Inductive, AvailableStays, Next
    PROVE  AvailableStays'
  <1> SUFFICES ASSUME NEW d \in Docs, local'[d] = "available"
               PROVE  rows'[d] # {} /\ (Intact(d)' \/ Expired(DeliveredOn[d], today'))
    BY DEF AvailableStays, Expired
  <1> USE DEF Inductive, TypeOK
  <1>1. CASE local[d] # "available"
    <2>1. ASSUME MergeRow(d) PROVE FALSE
      <3>1. PICK s \in LocalState \union {Unknown} :
                local' = [local EXCEPT ![d] = s] /\ (s \in {"downloading", "available"} => s = local[d])
        BY <2>1, MergeRowResult DEF Control
      <3> QED
        BY <1>1, <3>1
    <2>2. ResolveRecovered(d) \/ MarkAvailable(d)
      BY <1>1, <2>1, LocalMoves DEF Settle, StartDownload, ArchiveFails, Condemn, FetchBudget,
                                    FetchCaptcha, PurgeRow
    <2>3. CASE ResolveRecovered(d)
      BY <2>3 DEF ResolveRecovered, Intact, archive
    <2>4. CASE MarkAvailable(d)
      <3>1. at = "recorded" /\ Head(d) /\ d \in todo /\ UNCHANGED <<rows, disk, altered>>
        BY <2>4 DEF MarkAvailable, On, Head, archive
      <3>2. rows[d] = FilesAt(landed) /\ altered[d] = {} /\ FilesAt(landed) \subseteq disk[d]
        BY <3>1 DEF Files, PlacedIsOnDisk
      <3>3. FilesAt(landed) # {}
        BY DeliveryIsNotEmpty
      <3> QED
        BY <3>1, <3>2, <3>3 DEF Intact
    <2> QED
      BY <2>2, <2>3, <2>4
  <1>2. CASE local[d] = "available"
    <2>1. rows'[d] = rows[d] /\ altered'[d] = altered[d]
      <3>1. ASSUME ForgetRemoved(d) PROVE FALSE
        BY <1>2, <3>1 DEF ForgetRemoved, Head, Control, AtItsPoint, Flight, ResolvesInFlight, EnactsFlags,
                          InState, Flagged
      <3>2. ASSUME RecordFiles(d) \/ \E p \in Places, same \in BOOLEAN : Place(d, p, same) PROVE FALSE
        BY <1>2, <3>2 DEF RecordFiles, Place, On, Flight, FetchesInOrder, Head
      <3>3. ASSUME ForgetPurged(d) PROVE FALSE
        BY <1>2, <3>3 DEF ForgetPurged, On, Flight, ForgetsPurged, Oldest
      <3> QED
        BY <3>1, <3>2, <3>3, RowsMove
    <2>2. CASE ~(disk[d] \subseteq disk'[d])
      <3>1. ASSUME NEW f \in AllFiles, Unlink(d, f) PROVE FALSE
        BY <1>2, <3>1 DEF Unlink, Head, InState, Flagged, Control, AtItsPoint, Flight,
                          ResolvesInFlight, EnactsFlags
      <3>2. ASSUME NEW f \in AllFiles, ClearTarget(d, f) PROVE FALSE
        BY <1>2, <3>2 DEF ClearTarget, Head, Flight, FetchesInOrder
      <3>3. ASSUME NEW f \in AllFiles, NEW x \in dates, RemoveFile(x, d, f)
            PROVE  Expired(DeliveredOn[d], today')
        BY <3>3 DEF RemoveFile, On, Control, PurgesExpired, given
      <3> QED
        BY <1>2, <2>1, <2>2, <3>1, <3>2, <3>3, DiskShrinks DEF AvailableStays
    <2>3. CASE disk[d] \subseteq disk'[d]
      <3>1. Expired(DeliveredOn[d], today) => Expired(DeliveredOn[d], today')
        BY NeverBack, ConstantsAssumption DEF Expired, ConstantsAssumption
      <3> QED
        BY <1>2, <2>1, <2>3, <3>1 DEF AvailableStays, Intact
    <2> QED
      BY <2>2, <2>3
  <1> QED
    BY <1>1, <1>2

\* The directories of a purge go one date at a time, and those that refuse are remembered.
LEMMA EmptiedStep ==
    ASSUME Inductive, Emptied, Next
    PROVE  Emptied'
  <1> USE DEF Inductive, TypeOK
  <1>1. kept' # {} => Met("rmtree")'
    <2>1. CASE kept' \subseteq kept
      <3>1. kept # {} => Met("rmtree")
        BY DEF Emptied
      <3> QED
        BY <2>1, <3>1, MetStays
    <2>2. CASE ~(kept' \subseteq kept)
      <3>1. \E x \in dates : RemoveDirectoryFails(x)
        BY <2>2, KeptMoves
      <3> QED
        BY <3>1 DEF RemoveDirectoryFails, Fault, Met
    <2> QED
      BY <2>1, <2>2
  <1>2. CASE step \notin PurgeSteps
    <2>1. step' \in PurgeSteps => /\ UNCHANGED <<disk, kept>>
                                  /\ step' # "inbox" => EnterPurge(today')
      BY <1>2, IntoPurge DEF ReconcileDone, EnterInbox, Enter
    <2>2. EnterPurge(today') /\ UNCHANGED disk =>
              step' = "purge_dirs" /\ \A d \in Ageing' : disk'[d] = {} \/ DeliveredOn[d] \in dates'
      BY DEF EnterPurge, Enter, DatesOf, Ageing, Expired
    <2> QED
      BY <1>1, <2>1, <2>2 DEF Emptied, PurgeSteps
  <1>3. CASE step \in PurgeSteps
    <2>1. UNCHANGED today
      BY <1>3, NeverBack DEF PurgeSteps, ReconcileDone, On
    <2>2. Ageing' = Ageing
      BY <2>1 DEF Ageing, Expired
    <2>3. CASE Environment \/ Crash \/ PurgeDone \/ InboxDone \/ \E x \in dates : IndexRefused(x)
      BY <1>1, <1>3, <2>2, <2>3
      DEF Emptied, PurgeSteps, Environment, NextDay, Publish, Restate, Crash, PurgeDone, InboxDone,
          IndexRefused, Finish, Enter, EnterInbox, On, archive, counter, scratch
    <2>4. CASE PurgeDirsDone \/ PurgeIndexesDone
      BY <1>1, <2>2, <2>4 DEF Emptied, PurgeDirsDone, PurgeIndexesDone, Enter, On, archive, scratch
    <2>5. ASSUME NEW d \in Docs, PurgeRow(d) \/ ForgetPurged(d)
          PROVE  Emptied'
      BY <1>1, <2>2, <2>5 DEF Emptied, PurgeRow, ForgetPurged, On, At, Done, archive, scratch
    <2>6. ASSUME NEW x \in dates, RemoveIndex(x) \/ WriteIndex(x)
          PROVE  Emptied'
      BY <1>1, <2>2, <2>6 DEF Emptied, RemoveIndex, WriteIndex, On, scratch
    <2>7. ASSUME NEW x \in dates, RemoveDirectory(x) \/ RemoveDirectoryFails(x)
          PROVE  Emptied'
      BY <1>1, <2>2, <2>7 DEF Emptied, RemoveDirectory, RemoveDirectoryFails, On, archive, scratch, Ageing
    <2>8. ASSUME NEW x \in dates, NEW d \in Docs, NEW f \in disk[d], RemoveFile(x, d, f)
          PROVE  Emptied'
      BY <1>1, <2>2, <2>8 DEF Emptied, RemoveFile, On, counter, scratch, Ageing
    <2> QED
      BY <1>3, <2>3, <2>4, <2>5, <2>6, <2>7, <2>8, InPurge DEF PurgeDate
  <1> QED
    BY <1>2, <1>3

\* Whoever starts to download was queued; nobody starts in a purge, which lets the others be or
\* marks them.
LEMMA LocalInPurge ==
    ASSUME Inductive, Next, step \in PurgeSteps \union {"idle"}, NEW d \in Docs, local'[d] # local[d]
    PROVE  /\ PurgeRow(d) /\ step = "purge_rows" /\ local'[d] = "purged"
           /\ d \in todo /\ at' = "forget" /\ UNCHANGED <<step, todo>>
  <1> USE DEF Inductive, TypeOK, Control, AtItsPoint, PurgeSteps, On
  <1>1. PurgeRow(d)
    BY LocalMoves DEF ResolveRecovered, Settle, MergeRow, StartDownload, MarkAvailable, ArchiveFails,
                      Condemn, FetchBudget, FetchCaptcha
  <1> QED
    BY <1>1 DEF PurgeRow, Oldest, At

\* A purge marks the rows of the dates that went, one by one.
LEMMA MarkedStep ==
    ASSUME Inductive, Emptied, Marked, Next
    PROVE  Marked'
  <1> USE DEF Inductive, TypeOK
  <1> SUFFICES ASSUME step' = "purge_rows"
               PROVE  /\ todo' \subseteq {d \in Ageing' : DeliveredOn[d] \notin kept' /\ local'[d] # Unknown}
                      /\ \A d \in Ageing' : Retired(d)' \/ d \in todo' \/ DeliveredOn[d] \in kept'
    BY DEF Marked, Ageing
  <1>1. step \in PurgeSteps
    BY IntoPurge DEF PurgeSteps, EnterPurge, Enter, ReconcileDone, EnterInbox
  <1>2. UNCHANGED today /\ Ageing' = Ageing
    BY <1>1, NeverBack DEF PurgeSteps, ReconcileDone, On, Ageing, Expired
  <1>3. CASE Environment \/ \E x \in dates : PurgeDate(x) \/ RemoveDirectoryFails(x) \/ IndexRefused(x)
    <2>1. step = "purge_rows" /\ UNCHANGED <<kept, todo, local, cmd>>
      BY <1>3 DEF Environment, NextDay, Publish, Restate, PurgeDate, RemoveDirectory, RemoveDirectoryFails,
                  RemoveIndex, WriteIndex, RemoveFile, IndexRefused, On, manifest, counter, scratch, given
    <2> QED
      BY <1>2, <2>1 DEF Marked, Retired
  <1>4. CASE Crash \/ PurgeDirsDone \/ PurgeDone \/ InboxDone
    BY <1>4 DEF Crash, PurgeDirsDone, PurgeDone, InboxDone, Finish, Enter, EnterInbox
  <1>5. CASE PurgeIndexesDone
    <2>1. /\ todo' = {d \in InState(LocalState \ {"purged"}) :
                         Expired(DeliveredOn[d], today) /\ DeliveredOn[d] \notin kept}
          /\ UNCHANGED <<kept, local>>
      BY <1>5 DEF PurgeIndexesDone, Enter, manifest, scratch
    <2> QED
      BY <1>2, <2>1 DEF InState, Ageing, Retired, LocalState, Unknown
  <1>6. ASSUME NEW d \in Docs, PurgeRow(d)
        PROVE  /\ todo' \subseteq {e \in Ageing' : DeliveredOn[e] \notin kept' /\ local'[e] # Unknown}
               /\ \A e \in Ageing' : Retired(e)' \/ e \in todo' \/ DeliveredOn[e] \in kept'
    <2>1. step = "purge_rows" /\ UNCHANGED <<kept, cmd>> /\ d \in todo /\ todo' \in {todo, todo \ {d}}
      BY <1>6 DEF PurgeRow, On, Oldest, At, Done, given, scratch
    <2>2. \A e \in Docs : (Retired(e) => Retired(e)') /\ (local[e] # Unknown => local'[e] # Unknown)
      <3>1. \A e \in Docs : local'[e] # local[e] => local'[e] = "purged"
        BY <1>1, LocalInPurge
      <3> QED
        BY <2>1, <3>1 DEF Retired, Unknown
    <2>3. d \in todo' \/ Retired(d)
      <3>1. CASE Legal(local[d], "purged")
        BY <1>6, <2>1, <3>1 DEF PurgeRow, At
      <3>2. CASE ~Legal(local[d], "purged") /\ local[d] # Unknown
        <4>1. local[d] \in {"downloading", "purged"}
          BY <3>2 DEF Legal, Transitions, LocalState
        <4>2. local[d] = "downloading" => cmd = "purge"
          BY <2>1 DEF Flight, NoneInFlight, PurgeSteps, InState
        <4> QED
          BY <4>1, <4>2 DEF Retired
      <3> QED
        BY <3>1, <3>2 DEF Retired
    <2> QED
      BY <1>2, <2>1, <2>2, <2>3 DEF Marked, Ageing
  <1>7. ASSUME NEW d \in Docs, ForgetPurged(d)
        PROVE  /\ todo' \subseteq {e \in Ageing' : DeliveredOn[e] \notin kept' /\ local'[e] # Unknown}
               /\ \A e \in Ageing' : Retired(e)' \/ e \in todo' \/ DeliveredOn[e] \in kept'
    <2>1. /\ step = "purge_rows" /\ UNCHANGED <<kept, cmd, local>> /\ d \in todo /\ todo' = todo \ {d}
          /\ local[d] = "purged"
      BY <1>7 DEF ForgetPurged, On, Oldest, Done, given, scratch, Flight, ForgetsPurged
    <2> QED
      BY <1>2, <2>1 DEF Marked, Retired, Ageing
  <1> QED
    BY <1>1, <1>3, <1>4, <1>5, <1>6, <1>7, InPurge

\* When the last row is marked, the purge is over, and nothing before the next command undoes it.
LEMMA AgedOutStep ==
    ASSUME Inductive, Emptied, Marked, AgedOut, Next
    PROVE  AgedOut'
  <1> USE DEF Inductive, TypeOK
  <1> SUFFICES ASSUME PurgeIsOver', ~Met("rmtree")'
               PROVE  \A d \in Ageing' : disk'[d] = {} /\ Retired(d)'
    BY DEF AgedOut, Ageing
  <1>1. ~Met("rmtree")
    BY MetStays
  <1>2. CASE PurgeIsOver /\ UNCHANGED <<cmd, today>>
    <2>1. step \in PurgeSteps \union {"idle"} /\ step # "purge_rows"
      BY <1>2 DEF PurgeIsOver, AtInbox, Finished, PurgeSteps
    <2>2. \A d \in Docs : local'[d] = local[d]
      BY <2>1, LocalInPurge
    <2>3. ASSUME NEW d \in Docs PROVE disk'[d] \subseteq disk[d]
      <3>1. ASSUME NEW p \in Places, NEW same \in BOOLEAN, Place(d, p, same) PROVE FALSE
        BY <2>1, <3>1 DEF Place, PurgeSteps
      <3> QED
        BY <3>1, DiskGrows
    <2>4. Ageing' = Ageing
      BY <1>2 DEF Ageing, Expired
    <2> QED
      BY <1>1, <1>2, <2>2, <2>3, <2>4 DEF AgedOut, Retired, Ageing
  <1>3. CASE PurgeDone
    <2>1. step = "purge_rows" /\ todo = {} /\ UNCHANGED <<disk, local, today, cmd>>
      BY <1>3 DEF PurgeDone, On, manifest, archive, given
    <2>2. kept = {}
      BY <1>1 DEF Emptied
    <2> QED
      BY <2>1, <2>2 DEF Emptied, Marked, Retired, Ageing, Expired
  <1>4. PurgeDone \/ (PurgeIsOver /\ UNCHANGED <<cmd, today>>)
    BY IntoInbox DEF PurgeIsOver, ReconcileDone
  <1> QED
    BY <1>2, <1>3, <1>4

-----------------------------------------------------------------------------
(* What the indexes say.                                                   *)

\* An index of the window is not an expired one.
LEMMA WindowIsNotExpired ==
    ASSUME NEW x \in Nat, NEW t \in Nat, InWindow(x, t, Retention)
    PROVE  ~Expired(x, t)
  BY ConstantsAssumption DEF ConstantsAssumption, InWindow, Expired

\* A purge takes the expired indexes before the inbox writes those of the window, and nothing moves
\* in the manifest between the writing and the end.
LEMMA IndexedStep ==
    ASSUME Inductive, Indexed, Next
    PROVE  Indexed'
  <1> USE DEF Inductive, TypeOK
  <1>1. step' = "purge_indexes" => \A d \in Ageing' : shown'[d] = "absent" \/ DeliveredOn[d] \in dates'
    <2> SUFFICES ASSUME step' = "purge_indexes"
                 PROVE  \A d \in Ageing' : shown'[d] = "absent" \/ DeliveredOn[d] \in dates'
      OBVIOUS
    <2>1. step \in {"purge_dirs", "purge_indexes"} /\ Ageing' = Ageing
          /\ (PurgeDirsDone \/ step = "purge_indexes")
      <3>1. step \in PurgeSteps
        BY IntoPurge DEF PurgeSteps, EnterPurge, Enter, ReconcileDone, EnterInbox
      <3>2. PurgeDirsDone \/ step = "purge_indexes"
        BY <3>1, InPurge
        DEF Environment, NextDay, Publish, Restate, Crash, PurgeIndexesDone, PurgeDone, InboxDone,
            PurgeRow, ForgetPurged, PurgeDate, RemoveDirectory, RemoveIndex, WriteIndex, RemoveFile,
            RemoveDirectoryFails, IndexRefused, Enter, EnterInbox, Finish, On, At, Done, counter
      <3>3. UNCHANGED today
        BY <3>1, NeverBack DEF PurgeSteps, ReconcileDone, On
      <3> QED
        BY <3>2, <3>3 DEF PurgeDirsDone, On, Ageing, Expired
    <2>2. CASE PurgeDirsDone
      BY <2>1, <2>2 DEF PurgeDirsDone, Enter, archive, Ageing, DatesOf
    <2>3. CASE step = "purge_indexes"
      <3>1. CASE UNCHANGED <<shown, dates>>
        BY <2>1, <2>3, <3>1 DEF Indexed
      <3>2. ASSUME NEW x \in dates, RemoveIndex(x)
            PROVE  \A d \in Ageing' : shown'[d] = "absent" \/ DeliveredOn[d] \in dates'
        BY <2>1, <2>3, <3>2 DEF RemoveIndex, Indexed, Ageing
      <3>3. UNCHANGED <<shown, dates>> \/ \E x \in dates : RemoveIndex(x)
        <4>1. step \in PurgeSteps
          BY <2>3 DEF PurgeSteps
        <4> QED
          BY <2>3, <4>1, InPurge
          DEF Environment, NextDay, Publish, Restate, Crash, PurgeDirsDone, PurgeIndexesDone, PurgeDone,
              InboxDone, PurgeRow, ForgetPurged, PurgeDate, RemoveDirectory, WriteIndex, RemoveFile,
              RemoveDirectoryFails, IndexRefused, Enter, EnterInbox, Finish, On, At, Done, counter, archive
      <3> QED
        BY <3>1, <3>2, <3>3
    <2> QED
      BY <2>1, <2>2, <2>3
  <1>2. step' = "purge_rows" \/ PurgeIsOver' => \A d \in Ageing' : shown'[d] = "absent"
    <2> SUFFICES ASSUME step' = "purge_rows" \/ PurgeIsOver'
                 PROVE  \A d \in Ageing' : shown'[d] = "absent"
      OBVIOUS
    <2>1. CASE UNCHANGED <<shown, today>> /\ (step = "purge_rows" \/ PurgeIsOver)
      BY <2>1 DEF Indexed, Ageing, Expired
    <2>2. CASE PurgeIndexesDone
      BY <2>2 DEF PurgeIndexesDone, On, archive, given, Indexed, Ageing, Expired
    <2>3. ASSUME NEW x \in dates, WriteIndex(x), PurgeIsOver
          PROVE  \A d \in Ageing' : shown'[d] = "absent"
      <3>1. step = "inbox" /\ Ageing' = Ageing /\ \A d \in Ageing : shown[d] = "absent"
        BY <2>3 DEF WriteIndex, On, given, Indexed, Ageing, Expired
      <3>2. \A d \in Ageing : DeliveredOn[d] # x
        <4>1. x \in Nat /\ InWindow(x, today, Retention)
          BY <3>1 DEF Indexed
        <4> QED
          BY <4>1, WindowIsNotExpired DEF Ageing
      <3> QED
        BY <2>3, <3>1, <3>2 DEF WriteIndex, Ageing
    <2>4. CASE step' = "purge_rows"
      <3>1. step \in PurgeSteps
        BY <2>4, IntoPurge DEF PurgeSteps, EnterPurge, Enter, ReconcileDone, EnterInbox
      <3>2. PurgeIndexesDone \/ (step = "purge_rows" /\ UNCHANGED shown)
        BY <2>4, <3>1, InPurge
        DEF Environment, NextDay, Publish, Restate, Crash, PurgeDirsDone, PurgeDone, InboxDone,
            PurgeRow, ForgetPurged, PurgeDate, RemoveDirectory, RemoveIndex, WriteIndex, RemoveFile,
            RemoveDirectoryFails, IndexRefused, Enter, EnterInbox, Finish, On, At, Done, counter, archive
      <3>3. UNCHANGED today
        BY <3>1, NeverBack DEF PurgeSteps, ReconcileDone, On
      <3> QED
        BY <2>1, <2>2, <3>2, <3>3
    <2>5. CASE PurgeIsOver'
      <3>1. AtInbox' /\ ~ReconcileDone
        BY <2>5 DEF PurgeIsOver, ReconcileDone
      <3>2. PurgeDone => step = "purge_rows" /\ UNCHANGED <<shown, today>>
        BY DEF PurgeDone, On, archive, given
      <3>3. ASSUME AtInbox, UNCHANGED <<cmd, today>>,
                   Environment \/ InboxDone \/ \E x \in dates : IndexRefused(x)
            PROVE  UNCHANGED shown
        BY <3>3 DEF Environment, NextDay, Publish, Restate, InboxDone, IndexRefused, archive
      <3> QED
        BY <2>1, <2>3, <2>5, <3>1, <3>2, <3>3, IntoInbox DEF PurgeIsOver
    <2> QED
      BY <2>4, <2>5
  <1>3. step' = "inbox" => \A x \in dates' : InWindow(x, today', Retention)
    <2> SUFFICES ASSUME step' = "inbox"
                 PROVE  \A x \in dates' : InWindow(x, today', Retention)
      OBVIOUS
    <2>1. CASE PurgeDone \/ ReconcileDone
      <3>1. EnterInbox(today')
        BY <2>1 DEF PurgeDone, ReconcileDone, given, EnterInbox
      <3> QED
        BY <3>1 DEF EnterInbox, Enter, DatesOf
    <2>2. CASE /\ AtInbox /\ UNCHANGED <<cmd, today>>
               /\ Environment \/ InboxDone \/ \E x \in dates : WriteIndex(x) \/ IndexRefused(x)
      <3>1. step = "inbox" /\ dates' \subseteq dates
        BY <2>2 DEF Environment, NextDay, Publish, Restate, InboxDone, WriteIndex, IndexRefused, Finish,
                    Enter, On, counter
      <3> QED
        BY <2>2, <3>1 DEF Indexed
    <2> QED
      BY <2>1, <2>2, IntoInbox DEF AtInbox
  <1>4. AtInbox' /\ Never({"index"}) =>
            \A d \in Docs : InWindow(DeliveredOn[d], today', Retention) =>
                shown'[d] = IndexEntry[local'[d]] \/ DeliveredOn[d] \in dates'
    <2> SUFFICES ASSUME AtInbox', Never({"index"}), NEW d \in Docs,
                        InWindow(DeliveredOn[d], today', Retention)
                 PROVE  shown'[d] = IndexEntry[local'[d]] \/ DeliveredOn[d] \in dates'
      OBVIOUS
    <2>1. CASE PurgeDone \/ ReconcileDone
      <3>1. EnterInbox(today')
        BY <2>1 DEF PurgeDone, ReconcileDone, given, EnterInbox
      <3> QED
        BY <3>1 DEF EnterInbox, Enter, DatesOf
    <2>2. CASE /\ AtInbox /\ UNCHANGED <<cmd, today>>
               /\ Environment \/ InboxDone \/ \E x \in dates : WriteIndex(x) \/ IndexRefused(x)
      <3>1. local'[d] = local[d]
        BY <2>2, LocalInPurge DEF AtInbox, Finished, PurgeSteps
      <3>2. shown[d] = IndexEntry[local[d]] \/ DeliveredOn[d] \in dates
        BY <2>2 DEF Indexed
      <3>3. CASE Environment \/ InboxDone
        BY <3>1, <3>2, <3>3 DEF Environment, NextDay, Publish, Restate, InboxDone, Finish, Enter, On,
                                counter, archive
      <3>4. ASSUME NEW x \in dates, WriteIndex(x)
            PROVE  shown'[d] = IndexEntry[local'[d]] \/ DeliveredOn[d] \in dates'
        BY <3>1, <3>2, <3>4 DEF WriteIndex
      <3>5. ASSUME NEW x \in dates, IndexRefused(x)
            PROVE  FALSE
        BY <3>5 DEF IndexRefused, Fault, Never
      <3> QED
        BY <2>2, <3>3, <3>4, <3>5
    <2> QED
      BY <2>1, <2>2, IntoInbox
  <1>5. Finished' => dates' = {}
    <2>1. PurgeDone \/ ReconcileDone => step' = "inbox"
      BY DEF PurgeDone, ReconcileDone, EnterInbox, Enter
    <2>2. ASSUME Environment, AtInbox
          PROVE  Finished' => dates' = {}
      BY <2>2 DEF Environment, NextDay, Publish, Restate, counter, Finished, Indexed
    <2>3. InboxDone => dates' = {}
      BY DEF InboxDone, Finish, Enter
    <2>4. ASSUME NEW x \in dates, WriteIndex(x) \/ IndexRefused(x)
          PROVE  step' = "inbox"
      BY <2>4 DEF WriteIndex, IndexRefused, On
    <2> QED
      BY <2>1, <2>2, <2>3, <2>4, IntoInbox DEF AtInbox, Finished
  <1> QED
    BY <1>1, <1>2, <1>3, <1>4, <1>5 DEF Indexed, Never, Ageing

-----------------------------------------------------------------------------
(* What is recorded, and for whom.                                         *)

\* Rows are written a whole delivery at a time, and go together unless a file survives.
LEMMA RecordedWholeStep ==
    ASSUME Inductive, RecordedWhole, Next
    PROVE  RecordedWhole'
  <1> SUFFICES ASSUME Never({"unlink"})
               PROVE  /\ survivors' = {}
                      /\ \A d \in Docs : rows'[d] = {} \/ \E p \in Places : rows'[d] = FilesAt(p)
    BY DEF RecordedWhole, Never, FilesAt
  <1> USE DEF Inductive, TypeOK
  <1>1. survivors = {}
    BY DEF RecordedWhole
  <1>2. survivors' = {}
    BY <1>1, SurvivorsMove DEF Never
  <1>3. ASSUME NEW d \in Docs, rows'[d] # rows[d]
        PROVE  rows'[d] = {} \/ \E p \in Places : rows'[d] = FilesAt(p)
    <2>1. CASE ForgetRemoved(d) \/ ForgetPurged(d)
      BY <1>1, <2>1 DEF ForgetRemoved, ForgetPurged
    <2>2. CASE RecordFiles(d)
      BY <2>2 DEF RecordFiles, On, Files, PlacedIsOnDisk
    <2>3. ASSUME NEW p \in Places, NEW same \in BOOLEAN, Place(d, p, same) PROVE FALSE
      BY <1>3, <2>3 DEF Place, manifest
    <2> QED
      BY <1>3, <2>1, <2>2, <2>3, RowsMove
  <1> QED
    BY <1>2, <1>3 DEF RecordedWhole

\* A document is only flagged by a merge, and the rows of a flagged one only go as it is enacted.
LEMMA FlaggedMoves ==
    ASSUME Inductive, Next, NEW d \in Docs
    PROVE  /\ local'[d] \in Flagged /\ local'[d] # local[d] => MergeRow(d)
           /\ local[d] \in Flagged /\ rows'[d] # rows[d] =>
                  /\ step \in {"enact", "enact_again"} /\ step' = step /\ todo' = todo \ {d}
                  /\ rows'[d] = survivors
  <1> USE DEF Inductive, TypeOK, Flagged
  <1>1. ASSUME local'[d] \in Flagged, local'[d] # local[d] PROVE MergeRow(d)
    BY <1>1, LocalMoves
    DEF ResolveRecovered, Settle, StartDownload, MarkAvailable, ArchiveFails, Condemn, FetchBudget,
        FetchCaptcha, PurgeRow
  <1>2. ASSUME local[d] \in Flagged, rows'[d] # rows[d]
        PROVE  ForgetRemoved(d) /\ step \in {"enact", "enact_again"}
    <2>1. ASSUME RecordFiles(d) PROVE FALSE
      BY <1>2, <2>1 DEF RecordFiles, On, Flight, FetchesInOrder, Head
    <2>2. ASSUME ForgetPurged(d) PROVE FALSE
      BY <1>2, <2>2 DEF ForgetPurged, On, Flight, ForgetsPurged, Oldest
    <2>3. ASSUME NEW p \in Places, NEW same \in BOOLEAN, Place(d, p, same) PROVE FALSE
      BY <1>2, <2>3 DEF Place, manifest
    <2>4. ForgetRemoved(d)
      BY <1>2, <2>1, <2>2, <2>3, RowsMove
    <2>5. step # "resolve"
      BY <1>2, <2>4 DEF ForgetRemoved, Head, Flight, ResolvesInFlight, InState
    <2> QED
      BY <2>4, <2>5 DEF ForgetRemoved, Control, AtItsPoint
  <1> QED
    BY <1>1, <1>2 DEF ForgetRemoved, Done

\* Enacting takes the rows of every flagged document, and only a merge flags more.
LEMMA EnactedStep ==
    ASSUME Inductive, Enacted, Next
    PROVE  Enacted'
  <1> USE DEF Inductive, TypeOK
  <1> DEFINE Clear(d) == rows[d] = {} \/ Met("unlink")
  <1>1. survivors' # {} => Met("unlink")'
    <2>1. CASE survivors' \subseteq survivors
      <3>1. survivors # {} => Met("unlink")
        BY DEF Enacted
      <3> QED
        BY <2>1, <3>1, MetStays
    <2> QED
      BY <2>1, SurvivorsMove
  <1>2. ASSUME NEW d \in Docs, local'[d] \in Flagged, ~MergeRow(d), Clear(d)
        PROVE  Clear(d)'
    <2>1. CASE Met("unlink")
      BY <2>1, MetStays
    <2>2. CASE rows[d] = {} /\ rows'[d] # rows[d]
      <3>1. rows'[d] = survivors /\ survivors # {}
        BY <1>2, <2>2, FlaggedMoves
      <3>2. Met("unlink")
        BY <3>1 DEF Enacted
      <3> QED
        BY <3>2, MetStays
    <2> QED
      BY <1>2, <2>1, <2>2
  <1>3. ASSUME step' \in {"enact", "enact_again"}, NEW d \in Docs, local'[d] \in Flagged
        PROVE  Clear(d)' \/ d \in todo'
    <2>1. CASE ResolveDone \/ MergeDone
      BY <1>3, <2>1 DEF ResolveDone, MergeDone, Enter, InState, manifest
    <2>2. CASE step = step'
      <3>1. ~MergeRow(d)
        BY <1>3, <2>2 DEF MergeRow, On
      <3>2. local[d] \in Flagged
        BY <1>3, <3>1, FlaggedMoves
      <3>3. CASE Clear(d)
        BY <1>2, <1>3, <3>1, <3>3
      <3>4. CASE d \in todo /\ rows[d] # {} /\ d \notin todo'
        <4>1. ForgetRemoved(d)
          BY <1>3, <2>2, <3>4, TodoInEnact
        <4>2. rows'[d] = survivors
          BY <4>1 DEF ForgetRemoved
        <4>3. survivors # {} => Met("unlink")
          BY DEF Enacted
        <4> QED
          BY <4>2, <4>3, MetStays
      <3>5. d \in todo \/ Clear(d)
        BY <1>3, <2>2, <3>2 DEF Enacted, InState
      <3> QED
        BY <3>3, <3>4, <3>5
    <2> QED
      BY <1>3, <2>1, <2>2, StepsInOrder
  <1>4. ASSUME step' \in {"sweep", "fetch"} \/ ((step' \in PurgeSteps \/ Finished') /\ cmd' \in Runs),
               NEW d \in Docs, local'[d] \in Flagged
        PROVE  Clear(d)'
    <2>1. step # "merge"
      BY <1>4, StepsInOrder, AtInboxFrom DEF PurgeSteps, EnactDone, On, ReconcileDone, Finished
    <2>2. ~MergeRow(d) /\ local[d] \in Flagged
      BY <1>4, <2>1, FlaggedMoves DEF MergeRow, On
    <2>3. Clear(d)
      <3>1. CASE EnactDone
        BY <2>2, <3>1 DEF EnactDone, Enacted, InState
      <3>2. CASE step \in {"sweep", "fetch"}
        BY <2>2, <3>2 DEF Enacted, InState
      <3>3. CASE (step \in PurgeSteps \/ Finished) /\ cmd \in Runs
        BY <2>2, <3>3 DEF Enacted, InState
      <3>4. EnactDone \/ step \in {"sweep", "fetch"} \/ ((step \in PurgeSteps \/ Finished) /\ cmd \in Runs)
        <4>1. CASE step' \in {"sweep", "fetch"}
          BY <4>1, StepsInOrder
        <4>2. CASE step' \in PurgeSteps /\ cmd' \in Runs
          <5>1. ASSUME NEW c \in Commands, Begin(c) PROVE FALSE
            BY <4>2, <5>1 DEF Begin, Enter, PurgeSteps, Runs
          <5>2. ~ReconcileDone
            BY <4>2 DEF ReconcileDone, Runs
          <5>3. step # "idle"
            BY <4>2, <5>1, IdleStays DEF PurgeSteps, Environment, NextDay, Publish, Restate, counter
          <5> QED
            BY <4>2, <5>2, <5>3, StepsInOrder
        <4>3. CASE Finished' /\ cmd' \in Runs
          BY <4>3, AtInboxFrom DEF PurgeSteps
        <4> QED
          BY <1>4, <4>1, <4>2, <4>3
      <3> QED
        BY <3>1, <3>2, <3>3, <3>4
    <2> QED
      BY <1>2, <1>4, <2>2, <2>3
  <1>5. ASSUME step' = "merge", NEW d \in Docs, local'[d] \in Flagged, d \in todo'
        PROVE  Clear(d)'
    <2>1. CASE Sweep
      <3>1. step = "sweep" /\ UNCHANGED <<local, rows>>
        BY <2>1 DEF Sweep, On, manifest
      <3>2. Clear(d)
        BY <1>5, <3>1 DEF Enacted, InState
      <3> QED
        BY <3>1, <3>2, MetStays
    <2>2. CASE step = "merge"
      <3>1. ~MergeRow(d) /\ d \in todo
        BY <1>5, <2>2, TodoInMerge
      <3>2. local[d] \in Flagged /\ Clear(d)
        BY <1>5, <2>2, <3>1, FlaggedMoves DEF Enacted, InState
      <3> QED
        BY <1>2, <1>5, <3>1, <3>2
    <2> QED
      BY <1>5, <2>1, <2>2, StepsInOrder
  <1> QED
    BY <1>1, <1>3, <1>4, <1>5 DEF Enacted, InState

\* What is marked purged is forgotten by the next step, unless the process dies between them.
LEMMA ForgottenStep ==
    ASSUME Inductive, Forgotten, Next
    PROVE  Forgotten'
  <1> USE DEF Inductive, TypeOK
  <1> SUFFICES ASSUME Never({"crash"}), NEW d \in Docs, local'[d] = "purged"
               PROVE  rows'[d] = {} \/ (at' = "forget" /\ Oldest(d)')
    BY DEF Forgotten, InState, Never
  <1>1. CASE local[d] # "purged"
    <2>1. PurgeRow(d)
      <3>1. ASSUME MergeRow(d) PROVE FALSE
        <4>1. listing[d] \in SourceStatus
          BY <3>1 DEF MergeRow, On, Head, Control, MergesListed
        <4>2. local'[d] = Merge(local[d], listing[d], d \in wanted)
          BY <3>1 DEF MergeRow
        <4> QED
          BY <1>1, <4>1, <4>2 DEF Merge, MergeActive, MergeFlagged, FlagFor, SourceStatus
      <3> QED
        BY <1>1, <3>1, LocalMoves
        DEF ResolveRecovered, Settle, StartDownload, MarkAvailable, ArchiveFails, Condemn, FetchBudget,
            FetchCaptcha
    <2> QED
      BY <1>1, <2>1 DEF PurgeRow, At, Oldest
  <1>2. CASE local[d] = "purged" /\ rows[d] = {}
    <2>1. ASSUME ForgetRemoved(d) PROVE FALSE
      BY <1>2, <2>1 DEF ForgetRemoved, Head, Control, AtItsPoint, Flight, ResolvesInFlight, EnactsFlags,
                        InState, Flagged
    <2>2. ASSUME RecordFiles(d) PROVE FALSE
      BY <1>2, <2>2 DEF RecordFiles, On, Flight, FetchesInOrder, Head
    <2>3. ASSUME ForgetPurged(d) PROVE rows'[d] = {}
      BY <2>3 DEF ForgetPurged
    <2>4. ASSUME NEW p \in Places, NEW same \in BOOLEAN, Place(d, p, same) PROVE rows'[d] = {}
      BY <1>2, <2>4 DEF Place, manifest
    <2> QED
      BY <1>2, <2>1, <2>2, <2>3, <2>4, RowsMove
  <1>3. CASE local[d] = "purged" /\ at = "forget" /\ Oldest(d)
    <2>1. step = "purge_rows" /\ step \in PurgeSteps
      BY <1>3 DEF Control, AtItsPoint, PurgeSteps
    <2>2. CASE Environment
      BY <1>3, <2>2 DEF Environment, NextDay, Publish, Restate, counter, Oldest
    <2>3. ASSUME NEW e \in Docs, ForgetPurged(e)
          PROVE  rows'[d] = {}
      <3>1. e = d
        BY <1>3, <2>3, OldestIsUnique DEF ForgetPurged
      <3> QED
        BY <2>3, <3>1 DEF ForgetPurged
    <2>4. Environment \/ \E e \in Docs : ForgetPurged(e)
      BY <1>3, <2>1, InPurge
      DEF Crash, Fault, Never, PurgeDirsDone, PurgeIndexesDone, PurgeDone, InboxDone, PurgeRow, PurgeDate,
          RemoveDirectory, RemoveIndex, WriteIndex, RemoveFile, RemoveDirectoryFails, IndexRefused, On
    <2> QED
      BY <2>2, <2>3, <2>4
  <1> QED
    BY <1>1, <1>2, <1>3 DEF Forgotten, InState

-----------------------------------------------------------------------------
(* Withdrawals, and the budget.                                            *)

\* No step of a command moves the calendar or the source.
LEMMA WorldMoves ==
    ASSUME Next
    PROVE  Environment \/ UNCHANGED world
  <1>1. CASE Boundary
    BY <1>1 DEF Boundary, ResolveDone, EnactDone, ReconcileDone, Sweep, MergeDone, FetchDone,
                PurgeDirsDone, PurgeIndexesDone, PurgeDone, InboxDone
  <1>2. CASE Failure
    BY <1>2 DEF Failure, Crash, SweepInterrupted, SweepCaptcha, ArchiveFails, DownloadFails,
                ContractBroken, FetchBudget, FetchCaptcha, UnlinkFails, RemoveDirectoryFails,
                IndexRefused
  <1>3. ASSUME NEW e \in Docs, MergeRow(e) \/ PurgeRow(e) \/ ForgetPurged(e) \/ Reconcile(e) \/ Fetch(e)
        PROVE  UNCHANGED world
    BY <1>3 DEF MergeRow, PurgeRow, ForgetPurged, Reconcile, ResolveRecovered, ResolveInterrupted,
                ChargeInterrupted, EnactFlag, ForgetRemoved, Settle, Unlink, Fetch, StartDownload,
                RecordFiles, MarkAvailable, NowhereToLand, Condemn, ClearTarget, Place
  <1>4. ASSUME NEW x \in dates, PurgeDate(x)
        PROVE  UNCHANGED world
    BY <1>4 DEF PurgeDate, RemoveDirectory, RemoveIndex, WriteIndex, RemoveFile
  <1>5. ASSUME NEW c \in Commands, Begin(c)
        PROVE  UNCHANGED world
    BY <1>5 DEF Begin
  <1> QED
    BY <1>1, <1>2, <1>3, <1>4, <1>5 DEF Next, Progress

\* A flag comes from a listing, and the listing from a source that takes no withdrawal back.
LEMMA StaysWithdrawnStep ==
    ASSUME Inductive, StaysWithdrawn, Next
    PROVE  StaysWithdrawn'
  <1> USE DEF Inductive, TypeOK
  <1> DEFINE Withdrawn == {"inactive", "cancelled"}
  <1> SUFFICES ASSUME ~Reinstates, NEW d \in Docs
               PROVE  /\ local'[d] \in Flagged => source'[d] \in Withdrawn
                      /\ listing'[d] \in Withdrawn => source'[d] \in Withdrawn
                      /\ step' = "merge" /\ d \in todo' /\ local'[d] \in Flagged => listing'[d] # "active"
    BY DEF StaysWithdrawn
  <1>1. source[d] \in Withdrawn => source'[d] \in Withdrawn
    BY WorldMoves DEF Environment, NextDay, Publish, Restate, world, SourceStatus, Unpublished
  <1>2. ASSUME local'[d] \in Flagged PROVE source'[d] \in Withdrawn
    <2>1. CASE local[d] \in Flagged
      BY <1>1, <2>1 DEF StaysWithdrawn
    <2>2. CASE local[d] \notin Flagged
      <3>1. MergeRow(d)
        BY <1>2, <2>2, FlaggedMoves
      <3>2. /\ listing[d] \in SourceStatus
            /\ local'[d] = Merge(local[d], listing[d], d \in wanted)
        BY <3>1 DEF MergeRow, On, Head, Control, MergesListed
      <3>3. listing[d] # "active"
        BY <1>2, <2>2, <3>2 DEF Merge, MergeActive, Flagged
      <3> QED
        BY <1>1, <3>2, <3>3 DEF StaysWithdrawn, SourceStatus
    <2> QED
      BY <2>1, <2>2
  <1>3. ASSUME listing'[d] \in Withdrawn PROVE source'[d] \in Withdrawn
    <2>1. CASE listing'[d] = listing[d]
      BY <1>1, <1>3, <2>1 DEF StaysWithdrawn
    <2>2. CASE listing'[d] # listing[d]
      BY <1>1, <1>3, <2>2, ListingMoves
    <2> QED
      BY <2>1, <2>2
  <1>4. ASSUME step' = "merge", d \in todo', local'[d] \in Flagged PROVE listing'[d] # "active"
    <2>1. CASE Sweep
      <3>1. local'[d] = local[d] /\ step = "sweep"
        BY <2>1 DEF Sweep, On, manifest
      <3>2. source[d] \in Withdrawn
        BY <1>4, <3>1 DEF StaysWithdrawn
      <3>3. listing'[d] \in {source[d], "unlisted"}
        BY <2>1 DEF Sweep
      <3> QED
        BY <3>2, <3>3
    <2>2. CASE step = "merge"
      <3>1. ~MergeRow(d) /\ d \in todo
        BY <1>4, <2>2, TodoInMerge
      <3>2. listing[d] # "active"
        BY <1>4, <2>2, <3>1, FlaggedMoves DEF StaysWithdrawn
      <3>3. ~Sweep
        BY <2>2 DEF Sweep, On
      <3> QED
        BY <3>2, <3>3, ListingMoves
    <2> QED
      BY <1>4, <2>1, <2>2, StepsInOrder
  <1> QED
    BY <1>2, <1>3, <1>4

\* Who is charged is being downloaded, or was when the last command died.
LEMMA ChargedIsInFlight ==
    ASSUME Inductive, NEW d \in Docs, Charging(d)
    PROVE  /\ local[d] = "downloading" /\ UNCHANGED local
           /\ at' \in {"settle", "condemn"}
  BY DEF Inductive, Flight, ResolvesInFlight, FetchesInOrder, Charging, ChargeInterrupted, DownloadFails,
         NowhereToLand, ContractBroken, On, At, Head, InState

\* A document is queued with budget, charged only while it is downloaded, and settled right after.
LEMMA HasBudgetStep ==
    ASSUME Inductive, StaysWithdrawn, HasBudget, Next
    PROVE  HasBudget'
  <1> USE DEF Inductive, TypeOK
  <1> SUFFICES ASSUME ~Reinstates, NEW d \in Docs
               PROVE  /\ local'[d] \in {Unknown, "skipped", "discovered"} => failures'[d] < MaxAttempts
                      /\ step' = "fetch" /\ at' \notin {"settle", "condemn"} /\ local'[d] = "downloading" =>
                             failures'[d] < MaxAttempts
    BY DEF HasBudget
  <1>1. CASE failures'[d] # failures[d]
    BY <1>1, FailuresMove, ChargedIsInFlight DEF Unknown
  <1>2. ASSUME failures'[d] = failures[d], local'[d] \in {Unknown, "skipped", "discovered"},
               local'[d] # local[d]
        PROVE  failures[d] < MaxAttempts
    <2>1. CASE Settle(d)
      BY <1>2, <2>1, ConstantsAssumption DEF Settle, Unknown, ConstantsAssumption
    <2>2. CASE MergeRow(d)
      <3>1. /\ listing[d] \in SourceStatus /\ step = "merge" /\ d \in todo
            /\ local'[d] = Merge(local[d], listing[d], d \in wanted)
        BY <2>2 DEF MergeRow, On, Head, Control, MergesListed
      <3>2. local[d] \in {Unknown, "skipped", "discovered", "deactivated"}
            /\ (local[d] = "deactivated" => listing[d] = "active")
        BY <1>2, <3>1
        DEF Merge, MergeActive, MergeFlagged, FlagFor, Requeueable, SourceStatus, Unknown
      <3>3. local[d] # "deactivated"
        BY <3>1, <3>2 DEF StaysWithdrawn, Flagged
      <3> QED
        BY <3>2, <3>3 DEF HasBudget
    <2>3. CASE ArchiveFails(d) \/ FetchBudget(d) \/ FetchCaptcha(d)
      <3>1. step = "fetch" /\ at \in {"download", "clearing", "placed"} /\ Head(d)
        BY <2>3 DEF ArchiveFails, FetchBudget, FetchCaptcha, On
      <3>2. local[d] = "downloading"
        BY <3>1 DEF Flight, FetchesInOrder
      <3> QED
        BY <3>1, <3>2 DEF HasBudget
    <2> QED
      BY <1>2, <2>1, <2>2, <2>3, LocalMoves
      DEF ResolveRecovered, StartDownload, MarkAvailable, Condemn, PurgeRow, Unknown
  <1>3. ASSUME failures'[d] = failures[d],
               step' = "fetch", at' \notin {"settle", "condemn"}, local'[d] = "downloading"
        PROVE  failures[d] < MaxAttempts
    <2>1. CASE local[d] # "downloading"
      <3>1. ~MergeRow(d)
        BY <1>3 DEF MergeRow, On, Done
      <3>2. StartDownload(d)
        BY <1>3, <2>1, <3>1, LocalMoves
        DEF ResolveRecovered, Settle, MarkAvailable, ArchiveFails, Condemn, FetchBudget, FetchCaptcha, PurgeRow
      <3>3. local[d] = "discovered"
        BY <2>1, <3>2 DEF StartDownload, On, Head, Flight, FetchesInOrder
      <3> QED
        BY <3>3 DEF HasBudget
    <2>2. CASE local[d] = "downloading" /\ step = "fetch"
      <3>1. ASSUME at \in {"settle", "condemn"} PROVE FALSE
        <4>1. PICK e \in Docs : Settle(e) \/ Condemn(e)
          BY <1>3, <3>1, PointsAreLeft
          DEF Environment, NextDay, Publish, Restate, counter, Crash, Finish, Enter
        <4>2. e = d
          BY <2>2, <4>1, HeadIsUnique DEF Settle, Condemn, Flight, FetchesInOrder
        <4> QED
          BY <1>3, <4>1, <4>2 DEF Settle, Condemn
      <3> QED
        BY <2>2, <3>1 DEF HasBudget
    <2>3. CASE local[d] = "downloading" /\ step # "fetch"
      <3>1. step = "enact_again"
        BY <1>3, <2>3, StepsInOrder
      <3> QED
        BY <2>3, <3>1 DEF Flight, NoneInFlight, InState
    <2> QED
      BY <2>1, <2>2, <2>3
  <1> QED
    BY <1>1, <1>2, <1>3 DEF HasBudget

-----------------------------------------------------------------------------
(* Files and rows.                                                         *)

\* In a fetch, the head is what is being downloaded.
LEMMA HeadIsInFlight ==
    ASSUME Inductive, NEW d \in Docs, step = "fetch", at # "loop"
    PROVE  Head(d) <=> local[d] = "downloading"
  BY DEF Inductive, Flight, FetchesInOrder

\* Where nothing dies, the fetch ends with nothing in flight.
LEMMA InFlightStep ==
    ASSUME Inductive, Tidy, Never({"crash", "hash", "unlink"}), Next, step' # "fetch", NEW d \in Docs
    PROVE  local'[d] # "downloading"
  <1> USE DEF Inductive, TypeOK
  <1> SUFFICES ASSUME local'[d] = "downloading" PROVE FALSE
    OBVIOUS
  <1>1. local[d] = "downloading"
    <2>1. ASSUME MergeRow(d), local[d] # "downloading" PROVE FALSE
      <3>1. PICK s \in LocalState \union {Unknown} :
                local' = [local EXCEPT ![d] = s] /\ (s \in {"downloading", "available"} => s = local[d])
        BY <2>1, MergeRowResult DEF Control
      <3> QED
        BY <2>1, <3>1
    <2> QED
      BY <2>1, LocalMoves DEF ResolveRecovered, Settle, StartDownload, MarkAvailable, ArchiveFails, Condemn,
                              FetchBudget, FetchCaptcha, PurgeRow, On, At
  <1>2. step = "fetch"
    BY <1>1 DEF Tidy, InState
  <1>3. ~Crash /\ ~FetchDone
    BY <1>1, <1>2 DEF Crash, Fault, Never, FetchDone, On, Flight, FetchesInOrder
  <1>4. PICK e \in Docs : FetchBudget(e) \/ FetchCaptcha(e)
    BY <1>2, <1>3, PointsAreLeft
  <1>5. e = d
    BY <1>1, <1>2, <1>4, HeadIsInFlight, HeadIsUnique DEF FetchBudget, FetchCaptcha, On
  <1> QED
    BY <1>4, <1>5 DEF FetchBudget, FetchCaptcha

\* Whoever is queued has nothing recorded, and gets rows only with its delivery.
LEMMA RowsOfQueuedStep ==
    ASSUME Inductive, RecordedWhole, Enacted, Tidy, Never({"crash", "hash", "unlink"}), Next, NEW d \in Docs
    PROVE  /\ local'[d] \in {Unknown, "skipped", "discovered"} => rows'[d] = {}
           /\ local'[d] = "downloading" => rows'[d] = {} \/ at' = "recorded"
  <1> USE DEF Inductive, TypeOK, Unknown
  <1>1. CASE rows'[d] # rows[d]
    <2>1. CASE ForgetRemoved(d) \/ ForgetPurged(d)
      BY <2>1 DEF ForgetRemoved, ForgetPurged, RecordedWhole, Never
    <2>2. CASE RecordFiles(d)
      BY <2>2, HeadIsInFlight DEF RecordFiles, On, At
    <2>3. ASSUME NEW p \in Places, NEW same \in BOOLEAN, Place(d, p, same) PROVE FALSE
      BY <1>1, <2>3 DEF Place, manifest
    <2> QED
      BY <1>1, <2>1, <2>2, <2>3, RowsMove
  <1>2. CASE rows'[d] = rows[d] /\ local'[d] # local[d]
    <2>1. CASE Settle(d)
      <3>1. local[d] = "downloading" /\ at = "settle"
        BY <2>1, HeadIsInFlight DEF Settle, Control, AtItsPoint, Head, Flight, ResolvesInFlight, InState
      <3> QED
        BY <1>2, <2>1, <3>1 DEF Tidy, Settle
    <2>2. CASE MergeRow(d)
      <3>1. /\ listing[d] \in SourceStatus /\ step = "merge" /\ d \in todo
            /\ local'[d] = Merge(local[d], listing[d], d \in wanted)
        BY <2>2 DEF MergeRow, On, Head, Control, MergesListed
      <3>2. local'[d] # "downloading"
            /\ (local'[d] \in {Unknown, "skipped", "discovered"} =>
                    local[d] \in {Unknown, "skipped", "discovered", "deactivated"})
        BY <1>2, <3>1 DEF Merge, MergeActive, MergeFlagged, FlagFor, Requeueable, SourceStatus
      <3>3. local[d] = "deactivated" => rows[d] = {}
        BY <3>1 DEF Enacted, InState, Flagged, Met, Never
      <3> QED
        BY <1>2, <3>2, <3>3 DEF Tidy
    <2>3. CASE ArchiveFails(d) \/ FetchBudget(d) \/ FetchCaptcha(d)
      <3>1. step = "fetch" /\ at \in {"download", "clearing"} /\ Head(d) /\ local'[d] = "discovered"
        BY <2>3 DEF ArchiveFails, FetchBudget, FetchCaptcha, On, Fault, Never
      <3> QED
        BY <1>2, <3>1, HeadIsInFlight DEF Tidy
    <2>4. CASE StartDownload(d)
      <3>1. local[d] = "discovered"
        BY <1>2, <2>4 DEF StartDownload, On, Head, Flight, FetchesInOrder
      <3> QED
        BY <1>2, <2>4, <3>1 DEF Tidy, StartDownload
    <2> QED
      BY <1>2, <2>1, <2>2, <2>3, <2>4, LocalMoves DEF ResolveRecovered, MarkAvailable, Condemn, PurgeRow
  <1>3. CASE rows'[d] = rows[d] /\ local'[d] = local[d]
    <2>1. ASSUME at = "recorded", local[d] = "downloading" PROVE at' = "recorded"
      <3>1. ASSUME NEW e \in Docs, MarkAvailable(e) PROVE FALSE
        <4>1. e = d
          BY <2>1, <3>1, HeadIsInFlight, HeadIsUnique DEF MarkAvailable, On
        <4> QED
          BY <1>3, <2>1, <3>1, <4>1 DEF MarkAvailable
      <3>2. ~Crash
        BY DEF Crash, Fault, Never
      <3> QED
        BY <2>1, <3>1, <3>2, PointsAreLeft DEF Environment, NextDay, Publish, Restate, counter
    <2> QED
      BY <1>3, <2>1 DEF Tidy
  <1> QED
    BY <1>1, <1>2, <1>3

\* Files come with the delivery at hand and are recorded next; rows go after their files.
LEMMA FilesAndRowsStep ==
    ASSUME Inductive, RecordedWhole, Emptied, Marked, Tidy, Never({"crash", "hash", "unlink"}), Next,
           NEW d \in Docs
    PROVE  \/ disk'[d] \subseteq rows'[d]
           \/ at' = "placed" /\ Head(d)' /\ disk'[d] \subseteq FilesAt(landed')
  <1> USE DEF Inductive, TypeOK
  <1>1. CASE disk[d] \subseteq rows[d] /\ ~(disk'[d] \subseteq disk[d])
    <2>1. PICK p \in Places, same \in BOOLEAN : Place(d, p, same)
      BY <1>1, DiskGrows
    <2>2. rows[d] = {}
      <3>1. step = "fetch" /\ at \in {"download", "clearing"} /\ Head(d)
        BY <2>1 DEF Place
      <3> QED
        BY <3>1, HeadIsInFlight DEF Tidy
    <2>3. at' = "placed" /\ landed' = p /\ Head(d) /\ UNCHANGED todo /\ disk'[d] = disk[d] \union FilesAt(p)
      BY <2>1 DEF Place, At
    <2> QED
      BY <1>1, <2>2, <2>3 DEF Head
  <1>2. CASE disk[d] \subseteq rows[d] /\ disk'[d] \subseteq disk[d]
    <2>1. CASE ForgetRemoved(d)
      <3>1. survivors = {}
        BY DEF RecordedWhole, Never
      <3> QED
        BY <1>2, <2>1, <3>1 DEF ForgetRemoved
    <2>2. CASE RecordFiles(d)
      <3>1. rows[d] = {}
        BY <2>2, HeadIsInFlight DEF RecordFiles, On, Tidy
      <3> QED
        BY <1>2, <3>1
    <2>3. CASE ForgetPurged(d)
      <3>1. step = "purge_rows" /\ d \in todo
        BY <2>3 DEF ForgetPurged, On, Oldest
      <3>2. disk[d] = {}
        BY <3>1 DEF Emptied, Marked
      <3> QED
        BY <1>2, <3>2
    <2>4. CASE rows'[d] = rows[d]
      BY <1>2, <2>4
    <2>5. ASSUME NEW p \in Places, NEW same \in BOOLEAN, Place(d, p, same) PROVE rows'[d] = rows[d]
      BY <2>5 DEF Place, manifest
    <2> QED
      BY <2>1, <2>2, <2>3, <2>4, <2>5, RowsMove
  <1>3. CASE at = "placed" /\ Head(d) /\ disk[d] \subseteq FilesAt(landed)
    <2>1. CASE Environment
      <3>1. UNCHANGED <<at, todo, disk, landed>>
        BY <2>1 DEF Environment, NextDay, Publish, Restate, counter, archive, scratch
      <3> QED
        BY <1>3, <3>1 DEF Head
    <2>2. ASSUME NEW e \in Docs, RecordFiles(e)
          PROVE  disk'[d] \subseteq rows'[d]
      <3>1. e = d
        BY <1>3, <2>2, HeadIsUnique DEF RecordFiles
      <3> QED
        BY <1>3, <2>2, <3>1 DEF RecordFiles
    <2>3. ~Crash /\ \A e \in Docs : ~ArchiveFails(e)
      BY <1>3 DEF Crash, ArchiveFails, Fault, Never
    <2> QED
      BY <1>3, <2>1, <2>2, <2>3, PointsAreLeft
  <1> QED
    BY <1>1, <1>2, <1>3 DEF Tidy

\* The three together.
LEMMA TidyStep ==
    ASSUME Inductive, RecordedWhole, Enacted, Emptied, Marked, Tidy, Next
    PROVE  Tidy'
  <1> SUFFICES ASSUME Never({"crash", "hash", "unlink"})
               PROVE  /\ step' # "fetch" => \A d \in Docs : local'[d] # "downloading"
                      /\ \A d \in Docs :
                          /\ local'[d] \in {Unknown, "skipped", "discovered"} => rows'[d] = {}
                          /\ local'[d] = "downloading" => rows'[d] = {} \/ at' = "recorded"
                          /\ \/ disk'[d] \subseteq rows'[d]
                             \/ at' = "placed" /\ Head(d)' /\ disk'[d] \subseteq FilesAt(landed')
    BY DEF Tidy, Never, InState, FilesAt
  <1> QED
    BY InFlightStep, RowsOfQueuedStep, FilesAndRowsStep

\* A tidy archive has a name free for every download, so nothing is charged but the document's own
\* failures.
LEMMA FreeStep ==
    ASSUME Inductive, Tidy, Free, Next
    PROVE  Free'
  <1> SUFFICES ASSUME Never({"crash", "hash", "unlink", "document", "contract"})
               PROVE  /\ \A d \in Docs : failures'[d] = 0 /\ local'[d] # "failed"
                      /\ at' \notin {"charge", "settle", "condemn"}
    BY DEF Free, Never
  <1> USE DEF Inductive, TypeOK
  <1>1. Never({"crash", "hash", "unlink"})
    BY DEF Never
  <1>2. step = "resolve" => todo = {}
    BY <1>1 DEF Tidy, Flight, ResolvesInFlight
  <1>3. ASSUME NEW d \in Docs, Charging(d) PROVE FALSE
    <2>1. CASE ChargeInterrupted(d)
      BY <1>2, <2>1 DEF ChargeInterrupted, On, Head
    <2>2. CASE DownloadFails(d) \/ ContractBroken(d)
      BY <2>2 DEF DownloadFails, ContractBroken, Fault, Never
    <2>3. CASE NowhereToLand(d)
      <3>1. at = "download" /\ local[d] = "downloading" /\ \A p \in Places : ~Usable(d, p)
        BY <2>3, HeadIsInFlight DEF NowhereToLand, On
      <3>2. disk[d] = {}
        BY <1>1, <3>1 DEF Tidy
      <3>3. PICK p \in Places : TRUE
        BY ConstantsAssumption DEF ConstantsAssumption
      <3> QED
        BY <3>1, <3>2, <3>3 DEF Usable
    <2> QED
      BY <1>3, <2>1, <2>2, <2>3 DEF Charging
  <1>4. ASSUME NEW d \in Docs PROVE failures'[d] = 0
    BY <1>3, FailuresMove DEF Free
  <1>5. ASSUME NEW d \in Docs, local'[d] = "failed" PROVE FALSE
    <2>1. local[d] # "failed" /\ at \notin {"settle", "condemn"}
      BY DEF Free
    <2>2. CASE MergeRow(d)
      <3>1. listing[d] \in SourceStatus /\ local'[d] = Merge(local[d], listing[d], d \in wanted)
        BY <2>2 DEF MergeRow, On, Head, Control, MergesListed
      <3> QED
        BY <1>5, <2>1, <3>1
        DEF Merge, MergeActive, MergeFlagged, FlagFor, SourceStatus
    <2> QED
      BY <1>5, <2>1, <2>2, LocalMoves
      DEF ResolveRecovered, Settle, StartDownload, MarkAvailable, ArchiveFails, Condemn, FetchBudget,
          FetchCaptcha, PurgeRow, On
  <1>6. at' \notin {"charge", "settle", "condemn"}
    <2>1. ASSUME NEW d \in Docs, ForgetRemoved(d), step = "resolve" PROVE FALSE
      BY <1>2, <2>1 DEF ForgetRemoved, Head
    <2> QED
      BY <1>3, <2>1, PointsAreLeft DEF Free
  <1> QED
    BY <1>4, <1>5, <1>6

-----------------------------------------------------------------------------
(* The invariant holds.                                                    *)

\* An empty manifest and an empty archive keep every promise.
LEMMA InitPromises == Init => Promises
  <1> SUFFICES ASSUME Init PROVE Promises
    OBVIOUS
  <1> USE DEF Init, Finished, AtInbox, PurgeIsOver, PurgeSteps, InState, Flagged, Unknown
  <1>1. AvailableStays /\ Emptied /\ Marked /\ AgedOut /\ Indexed
    BY DEF AvailableStays, Emptied, Marked, AgedOut, Indexed
  <1>2. RecordedWhole /\ Enacted /\ Forgotten
    BY DEF RecordedWhole, Enacted, Forgotten
  <1>3. StaysWithdrawn /\ HasBudget /\ Tidy /\ Free
    BY ConstantsAssumption DEF StaysWithdrawn, HasBudget, Tidy, Free, Unlisted, ConstantsAssumption
  <1> QED
    BY <1>1, <1>2, <1>3 DEF Promises

\* A step that changes nothing keeps them.
LEMMA StutterPromises ==
    ASSUME Promises, UNCHANGED vars
    PROVE  Promises'
  <1> USE DEF Promises, vars, world, manifest, archive, given, counter, scratch, Ageing, Finished, AtInbox,
              PurgeIsOver, Met, InState, Retired
  <1>1. AvailableStays' /\ Emptied' /\ Marked' /\ AgedOut' /\ Indexed'
    BY DEF AvailableStays, Intact, Emptied, Marked, AgedOut, Indexed
  <1>2. RecordedWhole' /\ Enacted' /\ Forgotten'
    BY DEF RecordedWhole, Enacted, Forgotten, Oldest
  <1>3. StaysWithdrawn' /\ HasBudget' /\ Tidy' /\ Free'
    BY DEF StaysWithdrawn, HasBudget, Tidy, Free, Head
  <1> QED
    BY <1>1, <1>2, <1>3

\* Every step keeps every promise.
LEMMA PromisesStep == Inductive /\ Promises /\ [Next]_vars => Promises'
  BY AvailableStaysStep, EmptiedStep, MarkedStep, AgedOutStep, IndexedStep, RecordedWholeStep,
     EnactedStep, ForgottenStep, StaysWithdrawnStep, HasBudgetStep, TidyStep, FreeStep,
     StutterPromises
  DEF Promises

\* The promises hold in every reachable state.
LEMMA PromisesAreKept == Spec => []Promises
  BY InductiveInvariance, InitPromises, PromisesStep, PTL DEF Spec

-----------------------------------------------------------------------------
(* The theorems.                                                           *)

\* The manifest refuses no move the commands ask of it: wherever a command or a download was
\* interrupted, a document is found in a state its next move is legal from (repo.py 257-282).
THEOREM MovesAreAccepted == Spec => MovesAreLegal
  <1>1. ASSUME Inductive, Promises, [Next]_vars
        PROVE  [\A d \in Docs : local'[d] # local[d] =>
                  IF local[d] = Unknown THEN local'[d] \in {"discovered", "skipped"}
                                        ELSE Legal(local[d], local'[d])]_vars
    BY <1>1, MoveIsLegal DEF Promises
  <1> QED
    BY <1>1, InductiveInvariance, PromisesAreKept, PTL DEF Spec, MovesAreLegal

\* After a purge that went the whole way, expired days have no file and no live row left,
\* a directory that refused to go excepted (purge.py: directories first, rows last, and only the
\* rows of the directories that went).
THEOREM PurgeIsThorough == Spec => []AgedOutIsGone
  <1>1. Promises => AgedOutIsGone
    BY DEF Promises, AgedOut, AgedOutIsGone, PurgeIsOver, AtInbox, Ageing, Retired, Met
  <1> QED
    BY PromisesAreKept, <1>1, PTL

\* After a command that went the whole way, the indexes say of every document what the manifest
\* says, and every link leads to intact files (inbox.py, written after the purge).
THEOREM IndexesAreTrue == Spec => []IndexTellsTruth
  <1>1. ASSUME Inductive, Promises, Finished, "index" \notin Faults, NEW d \in Docs
        PROVE  IndexedTruly(d)
    <2> USE DEF Promises, Indexed, PurgeIsOver, AtInbox
    <2>1. cmd # "reconcile" /\ Expired(DeliveredOn[d], today) => shown[d] = "absent"
      BY <1>1 DEF Ageing
    <2>2. ASSUME InWindow(DeliveredOn[d], today, Retention)
          PROVE  shown[d] = IndexEntry[local[d]] /\ (shown[d] = "link" => rows[d] # {} /\ Intact(d))
      <3>1. shown[d] = IndexEntry[local[d]]
        BY <1>1, <2>2 DEF Never
      <3>2. shown[d] = "link" => local[d] = "available"
        BY <1>1, <3>1 DEF Inductive, TypeOK, IndexEntry
      <3>3. ~Expired(DeliveredOn[d], today)
        BY <1>1, <2>2, WindowIsNotExpired, ConstantsAssumption DEF Inductive, TypeOK, ConstantsAssumption
      <3> QED
        BY <1>1, <3>1, <3>2, <3>3 DEF AvailableStays
    <2> QED
      BY <2>1, <2>2 DEF IndexedTruly
  <1>2. Inductive /\ Promises => IndexTellsTruth
    BY <1>1 DEF IndexTellsTruth
  <1> QED
    BY InductiveInvariance, PromisesAreKept, <1>2, PTL

\* A file survives its removal only as long as the removal lasts, and one that does is of the
\* document at the head of the loop.
LEMMA SurvivorsAreAtHand ==
    ASSUME Inductive, Next, survivors # {} => at = "unlink", survivors' # {}
    PROVE  at' = "unlink" /\ UNCHANGED <<step, todo>>
  <1> USE DEF Inductive, Control, AtItsPoint, On, scratch, counter
  <1>1. CASE Environment \/ \E c \in Commands : Begin(c)
    BY <1>1 DEF Environment, NextDay, Publish, Restate, Begin
  <1>2. ASSUME Boundary PROVE FALSE
    BY <1>2 DEF Boundary, ResolveDone, EnactDone, ReconcileDone, Sweep, MergeDone, FetchDone,
                PurgeDirsDone, PurgeIndexesDone, PurgeDone, InboxDone, Finish
  <1>3. CASE Failure
    BY <1>3 DEF Failure, Crash, SweepInterrupted, SweepCaptcha, ArchiveFails, DownloadFails,
                ContractBroken, FetchBudget, FetchCaptcha, UnlinkFails, RemoveDirectoryFails,
                IndexRefused, Finish
  <1>4. ASSUME NEW e \in Docs, MergeRow(e) \/ PurgeRow(e) \/ ForgetPurged(e) \/ Fetch(e)
        PROVE  FALSE
    BY <1>4 DEF MergeRow, PurgeRow, ForgetPurged, Fetch, StartDownload, RecordFiles, MarkAvailable,
                NowhereToLand, Condemn, ClearTarget, Place
  <1>5. ASSUME NEW e \in Docs, Reconcile(e)
        PROVE  at' = "unlink" /\ UNCHANGED <<step, todo>>
    BY <1>5 DEF Reconcile, ResolveRecovered, ResolveInterrupted, ChargeInterrupted, EnactFlag,
                ForgetRemoved, Settle, Unlink
  <1>6. ASSUME NEW x \in dates, PurgeDate(x)
        PROVE  FALSE
    BY <1>6 DEF PurgeDate, RemoveDirectory, RemoveIndex, WriteIndex, RemoveFile
  <1> QED
    BY <1>1, <1>2, <1>3, <1>4, <1>5, <1>6 DEF Next, Progress

\* What the enacting of flags leaves recorded is what refused to go in it: the history keeps it from
\* the refusal to the end of the fetch.
Refused ==
    /\ survivors # {} => at = "unlink"
    /\ step \in {"enact", "enact_again"} =>
           \A d \in Docs : Head(d) => survivors \subseteq refused[d]
    /\ step \in {"enact", "enact_again"} =>
           \A d \in Docs : local[d] \in Flagged => d \in todo \/ rows[d] \subseteq refused[d]
    /\ step = "fetch" => \A d \in Docs : local[d] \in Flagged => rows[d] \subseteq refused[d]

\* Every step of a command, and what the history makes of it.
LEMMA RefusedStep ==
    ASSUME Inductive, Refused, Next, Remember
    PROVE  Refused'
  <1> USE DEF Inductive, TypeOK
  <1>1. survivors' # {} => at' = "unlink" /\ UNCHANGED <<step, todo>>
    BY SurvivorsAreAtHand DEF Refused
  <1>2. ASSUME step' \in {step, "fetch"}, NEW d \in Docs
        PROVE  refused[d] \subseteq refused'[d] /\ (Head(d) => survivors' \subseteq refused'[d])
    BY <1>2 DEF Remember
  <1>3. ASSUME step' \in {"enact", "enact_again"}, NEW d \in Docs, Head(d)'
        PROVE  survivors' \subseteq refused'[d]
    <2>1. CASE survivors' = {}
      BY <2>1
    <2>2. CASE survivors' # {}
      <3>1. UNCHANGED <<step, todo>>
        BY <1>1, <2>2
      <3>2. Head(d)
        BY <1>3, <3>1 DEF Head
      <3> QED
        BY <1>2, <3>1, <3>2
    <2> QED
      BY <2>1, <2>2
  <1>4. ASSUME step' \in {"enact", "enact_again"}, NEW d \in Docs, local'[d] \in Flagged
        PROVE  d \in todo' \/ rows'[d] \subseteq refused'[d]
    <2>1. CASE ResolveDone \/ MergeDone
      BY <1>4, <2>1 DEF ResolveDone, MergeDone, Enter, InState, manifest
    <2>2. CASE step = step'
      <3>1. local[d] \in Flagged
        BY <1>4, <2>2, FlaggedMoves DEF MergeRow, On
      <3>2. refused[d] \subseteq refused'[d]
        BY <1>2, <2>2
      <3>3. CASE d \in todo /\ d \notin todo' /\ rows[d] # {}
        <4>1. ForgetRemoved(d)
          BY <1>4, <2>2, <3>3, TodoInEnact
        <4>2. Head(d) /\ rows'[d] = survivors
          BY <4>1 DEF ForgetRemoved
        <4> QED
          BY <1>4, <2>2, <3>2, <4>2 DEF Refused
      <3>4. CASE rows[d] \subseteq refused[d]
        <4>1. CASE rows'[d] = rows[d]
          BY <3>2, <3>4, <4>1
        <4>2. CASE rows'[d] # rows[d]
          <5>1. ForgetRemoved(d)
            BY <1>4, <2>2, <3>1, <4>2, FlaggedMoves, RowsMove
            DEF RecordFiles, ForgetPurged, Place, On
          <5>2. Head(d) /\ rows'[d] = survivors
            BY <5>1 DEF ForgetRemoved
          <5> QED
            BY <1>4, <2>2, <3>2, <5>2 DEF Refused
        <4> QED
          BY <4>1, <4>2
      <3>5. d \in todo \/ rows[d] \subseteq refused[d]
        BY <1>4, <2>2, <3>1 DEF Refused
      <3> QED
        BY <3>3, <3>4, <3>5
    <2> QED
      BY <1>4, <2>1, <2>2, StepsInOrder
  <1>5. ASSUME step' = "fetch", NEW d \in Docs, local'[d] \in Flagged
        PROVE  rows'[d] \subseteq refused'[d]
    <2>1. step = "fetch" \/ (EnactDone /\ step = "enact_again")
      BY <1>5, StepsInOrder
    <2>2. local[d] \in Flagged
      BY <1>5, <2>1, FlaggedMoves DEF MergeRow, On
    <2>3. rows'[d] = rows[d]
      <3>1. CASE step = "fetch"
        BY <2>2, <3>1, FlaggedMoves
      <3>2. CASE EnactDone
        BY <3>2 DEF EnactDone, manifest
      <3> QED
        BY <2>1, <3>1, <3>2
    <2>4. rows[d] \subseteq refused[d]
      BY <2>1, <2>2 DEF Refused, EnactDone
    <2> QED
      BY <1>2, <1>5, <2>3, <2>4
  <1> QED
    BY <1>1, <1>3, <1>4, <1>5 DEF Refused

\* By the time a run fetches, of a withdrawn document nothing is recorded but what refused to go as
\* this run enacted its flag - whatever an earlier run was killed between, or could not remove
\* (run.py enacts before the sweep and again after it).
THEOREM FlagsComeFirst == HistorySpec => []FlagsEnactedBeforeFetch
  <1>1. HistorySpec => Spec
    <2>1. [Next /\ Remember]_allVars => [Next]_vars
      BY DEF allVars
    <2> QED
      BY <2>1, PTL DEF HistorySpec, HistoryInit, Spec
  <1>2. HistoryInit => Refused
    BY DEF HistoryInit, Init, Refused
  <1>3. Inductive /\ Refused /\ [Next /\ Remember]_allVars => Refused'
    <2>1. ASSUME Refused, UNCHANGED allVars PROVE Refused'
      BY <2>1 DEF Refused, allVars, vars, manifest, counter, scratch, Head
    <2> QED
      BY <2>1, RefusedStep
  <1>4. Refused => FlagsEnactedBeforeFetch
    BY DEF Refused, FlagsEnactedBeforeFetch, InState
  <1> QED
    BY <1>1, <1>2, <1>3, <1>4, InductiveInvariance, PTL DEF HistorySpec

\* As long as no unlink fails, what is available is a whole delivery (repo.record_files writes
\* the rows of a delivery at once, and only after its rename).
THEOREM AvailabilityIsWhole ==
    ASSUME Never({"unlink"})
    PROVE  Spec => []AvailableIsWhole
  <1>1. Promises => AvailableIsWhole
    BY DEF Promises, RecordedWhole, AvailableStays, AvailableIsWhole, InState
  <1> QED
    BY PromisesAreKept, <1>1, PTL

\* As long as nothing dies, a purged document has forgotten its files when the command is over
\* (purge.py forgets right after it marks).
THEOREM PurgingForgets ==
    ASSUME Never({"crash"})
    PROVE  Spec => []PurgedForgetsFiles
  <1>1. Inductive /\ Promises => PurgedForgetsFiles
    BY DEF Promises, Forgotten, PurgedForgetsFiles, Finished, Inductive, Control, AtItsPoint
  <1> QED
    BY InductiveInvariance, PromisesAreKept, <1>1, PTL

\* Where the source takes no withdrawal back, whoever is queued has budget left: a document that
\* spent it is never queued again (fetch.py settles, discover.py requeues skipped ones only).
THEOREM QueueHasBudget ==
    ASSUME ~Reinstates
    PROVE  Spec => []QueuedHasBudget
  <1>1. Promises => QueuedHasBudget
    BY DEF Promises, HasBudget, QueuedHasBudget, InState
  <1> QED
    BY PromisesAreKept, <1>1, PTL

\* As long as nothing dies, no unlink fails and what lands can be hashed, a run that finished has
\* left no file of a flagged document (reconcile.enact_flags, and fetch.py's order of writes).
THEOREM WithdrawalIsThorough ==
    ASSUME Never({"crash", "hash", "unlink"})
    PROVE  Spec => []WithdrawnIsGone
  <1>1. ASSUME Inductive, Promises, Finished, cmd \in Runs, NEW d \in InState(Flagged)
        PROVE  disk[d] = {}
    <2>1. rows[d] = {}
      BY <1>1 DEF Promises, Enacted, Met, Never
    <2>2. at # "placed"
      BY <1>1 DEF Finished, Inductive, Control, AtItsPoint
    <2> QED
      BY <1>1, <2>1, <2>2 DEF Promises, Tidy, InState
  <1>2. Inductive /\ Promises => WithdrawnIsGone
    BY <1>1 DEF WithdrawnIsGone, Runs
  <1> QED
    BY InductiveInvariance, PromisesAreKept, <1>2, PTL

\* Under the same conditions nothing that refuses the run or the archive - a captcha, the request
\* budget, a full disk, a listing that fails - is charged to a document (fetch.py's handlers).
THEOREM RefusalsCostNothing ==
    ASSUME Never({"hash", "unlink"})
    PROVE  Spec => []RefusalsAreFree
  <1>1. Promises => RefusalsAreFree
    BY DEF Promises, Free, RefusalsAreFree, Never
  <1> QED
    BY PromisesAreKept, <1>1, PTL

-----------------------------------------------------------------------------
(* The merge and the queue: a sweep is merged once, a queue worked off.    *)

\* What refuses the run or the archive, and puts a document back untried.
Refusals == {"budget", "transient", "oserror", "hash"}

\* A run that went the whole way and was refused nothing has tried everybody in the queue: who is
\* left there was charged, and is there for another attempt (run.py, fetch.py 144-197).
QueueIsWorkedOff ==
    Finished /\ cmd \in Runs /\ Never(Refusals) => \A d \in InState({"discovered"}) : failures[d] > 0

\* When a merge is over, the listing has nothing left to say: merged again, by a run that was
\* interrupted or by the next window that covers the same days, it would change nothing.
SweepIsMerged ==
    [][MergeDone => \A d \in Docs : listing[d] \in SourceStatus =>
          Merge(local[d], listing[d], d \in wanted) = local[d]]_vars

\* From the fetch on, who is queued has its turn ahead or was charged, and whoever is to be
\* settled was charged first.
Worked ==
    Never(Refusals) => \A d \in Docs :
        /\ step = "fetch" /\ local[d] = "discovered" => d \in todo \/ failures[d] > 0
        /\ step = "fetch" /\ at = "settle" /\ local[d] = "downloading" => failures[d] > 0
        /\ (step \in PurgeSteps \/ Finished) /\ cmd \in Runs /\ local[d] = "discovered" =>
               failures[d] > 0

\* What was merged is where one more merge would leave it.
Merged ==
    step = "merge" => \A d \in Docs \ todo : listing[d] \in SourceStatus =>
        Merge(local[d], listing[d], d \in wanted) = local[d]

\* Merging one row twice is merging it once.
LEMMA MergeIsIdempotent ==
    ASSUME NEW c \in LocalState \union {Unknown}, NEW s \in SourceStatus, NEW w \in BOOLEAN
    PROVE  Merge(Merge(c, s, w), s, w) = Merge(c, s, w)
  BY DEF Merge, MergeActive, MergeFlagged, FlagFor, LocalState, Unknown, SourceStatus,
         Requeueable, Legal, Transitions

\* Nobody is charged less than before.
LEMMA FailuresGrow ==
    ASSUME Inductive, Next, NEW d \in Docs
    PROVE  /\ failures'[d] >= failures[d]
           /\ Charging(d) => failures'[d] > 0
  <1>1. Charging(d) => failures'[d] = failures[d] + 1
    BY DEF Charging, ChargeInterrupted, DownloadFails, NowhereToLand, ContractBroken, Inductive, TypeOK
  <1> QED
    BY <1>1, FailuresMove DEF Inductive, TypeOK

\* A fetch passes a document only when it was downloading it.
LEMMA TodoInFetch ==
    ASSUME Inductive, Next, step = "fetch", step' = "fetch", NEW d \in todo, d \notin todo'
    PROVE  local[d] = "downloading"
  <1> USE DEF Inductive, TypeOK, On, counter, Control, AtItsPoint
  <1>1. CASE Environment \/ \E c \in Commands : Begin(c)
    BY <1>1 DEF Environment, NextDay, Publish, Restate, Begin
  <1>2. CASE Boundary
    BY <1>2 DEF Boundary, ResolveDone, EnactDone, ReconcileDone, Sweep, MergeDone, FetchDone,
                PurgeDirsDone, PurgeIndexesDone, PurgeDone, InboxDone, EnterPurge, Enter
  <1>3. ASSUME NEW e \in Docs, at # "loop", Head(e), todo' = todo \ {e}
        PROVE  local[d] = "downloading"
    BY <1>3, HeadIsInFlight
  <1>4. CASE Failure
    <2>1. ASSUME NEW e \in Docs, ArchiveFails(e) PROVE local[d] = "downloading"
      BY <2>1, <1>3 DEF ArchiveFails, Done
    <2> QED
      BY <1>4, <2>1 DEF Failure, Crash, SweepInterrupted, SweepCaptcha, DownloadFails,
                ContractBroken, FetchBudget, FetchCaptcha, UnlinkFails, RemoveDirectoryFails,
                IndexRefused, Finish, Enter, EnterPurge, At
  <1>5. ASSUME NEW e \in Docs, MergeRow(e) \/ PurgeRow(e) \/ ForgetPurged(e)
        PROVE  FALSE
    BY <1>5 DEF MergeRow, PurgeRow, ForgetPurged
  <1>6. ASSUME NEW e \in Docs, Reconcile(e)
        PROVE  local[d] = "downloading"
    <2>1. Settle(e)
      BY <1>6 DEF Reconcile, ResolveRecovered, ResolveInterrupted, ChargeInterrupted, EnactFlag,
                ForgetRemoved, Settle, Unlink
    <2> QED
      BY <2>1, <1>3 DEF Settle, Done
  <1>7. ASSUME NEW e \in Docs, Fetch(e)
        PROVE  local[d] = "downloading"
    <2>1. MarkAvailable(e) \/ Condemn(e)
      BY <1>7 DEF Fetch, StartDownload, RecordFiles, MarkAvailable, NowhereToLand, Condemn,
                ClearTarget, Place, At
    <2> QED
      BY <2>1, <1>3 DEF MarkAvailable, Condemn, Done
  <1>8. ASSUME NEW x \in dates, PurgeDate(x)
        PROVE  FALSE
    BY <1>8 DEF PurgeDate, RemoveDirectory, RemoveIndex, WriteIndex, RemoveFile
  <1> QED
    BY <1>1, <1>2, <1>4, <1>5, <1>6, <1>7, <1>8 DEF Next, Progress

\* Where nothing refuses the run, a captcha aside, who comes to the queue was merged into it, or was
\* charged and settled.
LEMMA IntoQueue ==
    ASSUME Inductive, Worked, Next, Never(Refusals), NEW d \in Docs,
           local[d] # "discovered", local'[d] = "discovered"
    PROVE  \/ step = "fetch" /\ step' = "fetch" /\ failures'[d] > 0
           \/ step' \in {"resolve", "merge"}
           \/ step' = "idle" /\ ~Finished'
  <1> USE DEF Inductive, TypeOK
  <1>1. Settle(d) \/ MergeRow(d) \/ FetchCaptcha(d)
    BY LocalMoves DEF ResolveRecovered, StartDownload, MarkAvailable, ArchiveFails, Condemn,
                      FetchBudget, PurgeRow, Never, Refusals, Fault
  <1>2. CASE Settle(d)
    <2>1. step \in {"resolve", "fetch"} /\ step' = step /\ UNCHANGED failures /\ at = "settle" /\ Head(d)
      BY <1>2 DEF Settle, Done, Control, AtItsPoint
    <2>2. step = "fetch" => local[d] = "downloading"
      BY <2>1, HeadIsInFlight
    <2> QED
      BY <2>1, <2>2 DEF Worked
  <1>3. CASE MergeRow(d)
    BY <1>3 DEF MergeRow, On, Done
  <1>4. CASE FetchCaptcha(d)
    BY <1>4 DEF FetchCaptcha, Finish, Enter, Finished
  <1> QED
    BY <1>1, <1>2, <1>3, <1>4

\* A sweep is followed by its merge, or by the purge where the source refused it.
LEMMA OutOfSweep ==
    ASSUME Inductive, Next, step = "sweep", step' # "sweep"
    PROVE  Sweep \/ SweepInterrupted \/ step' = "idle"
  <1> USE DEF Inductive, Control, AtItsPoint, On, counter
  <1>1. CASE Environment \/ \E c \in Commands : Begin(c)
    BY <1>1 DEF Environment, NextDay, Publish, Restate, Begin
  <1>2. CASE Boundary
    BY <1>2 DEF Boundary, ResolveDone, EnactDone, ReconcileDone, MergeDone, FetchDone,
                PurgeDirsDone, PurgeIndexesDone, PurgeDone, InboxDone
  <1>3. CASE Failure
    BY <1>3 DEF Failure, Crash, SweepCaptcha, ArchiveFails, DownloadFails, ContractBroken,
                FetchBudget, FetchCaptcha, UnlinkFails, RemoveDirectoryFails, IndexRefused,
                Finish, Enter
  <1>4. ASSUME NEW e \in Docs, MergeRow(e) \/ PurgeRow(e) \/ ForgetPurged(e) \/ Reconcile(e) \/ Fetch(e)
        PROVE  FALSE
    BY <1>4 DEF MergeRow, PurgeRow, ForgetPurged, Reconcile, ResolveRecovered, ResolveInterrupted,
                ChargeInterrupted, EnactFlag, ForgetRemoved, Settle, Unlink, Fetch, StartDownload,
                RecordFiles, MarkAvailable, NowhereToLand, Condemn, ClearTarget, Place
  <1>5. ASSUME NEW x \in dates, PurgeDate(x)
        PROVE  FALSE
    BY <1>5 DEF PurgeDate, RemoveDirectory, RemoveIndex, WriteIndex, RemoveFile
  <1> QED
    BY <1>1, <1>2, <1>3, <1>4, <1>5 DEF Next, Progress

\* A fetch ends with its queue behind it, and nobody comes to the queue between then and the end.
LEMMA WorkedStep ==
    ASSUME Inductive, Worked, Next
    PROVE  Worked'
  <1> USE DEF Inductive, TypeOK
  <1> SUFFICES ASSUME Never(Refusals), NEW d \in Docs
               PROVE  /\ step' = "fetch" /\ local'[d] = "discovered" => d \in todo' \/ failures'[d] > 0
                      /\ step' = "fetch" /\ at' = "settle" /\ local'[d] = "downloading" => failures'[d] > 0
                      /\ (step' \in PurgeSteps \/ Finished') /\ cmd' \in Runs /\ local'[d] = "discovered" =>
                             failures'[d] > 0
    BY DEF Worked
  <1>0. failures[d] > 0 => failures'[d] > 0
    <2>1. failures[d] \in Nat /\ failures'[d] \in Nat
      BY FailuresMove DEF Charging, ChargeInterrupted, DownloadFails, NowhereToLand, ContractBroken
    <2> QED
      BY <2>1, FailuresGrow
  <1>1. ASSUME step' = "fetch", local'[d] = "discovered", d \notin todo'
        PROVE  failures'[d] > 0
    <2>1. CASE local[d] # "discovered"
      BY <1>1, <2>1, IntoQueue
    <2>2. CASE local[d] = "discovered" /\ step = "fetch"
      BY <1>1, <2>2, <1>0, TodoInFetch DEF Worked
    <2>3. CASE local[d] = "discovered" /\ step # "fetch"
      <3>1. EnactDone /\ step = "enact_again"
        BY <1>1, <2>3, StepsInOrder
      <3> QED
        BY <1>1, <2>3, <3>1 DEF EnactDone, Enter, InState
    <2> QED
      BY <2>1, <2>2, <2>3
  <1>2. ASSUME step' = "fetch", at' = "settle", local'[d] = "downloading"
        PROVE  failures'[d] > 0
    <2>1. step = "fetch"
      BY <1>2, StepsInOrder DEF EnactDone, Enter
    <2>2. CASE at = "settle"
      <3>1. local[d] = "downloading"
        BY <1>2, <2>1, <2>2, LocalMoves
        DEF ResolveRecovered, Settle, MergeRow, StartDownload, MarkAvailable, ArchiveFails, Condemn,
            FetchBudget, FetchCaptcha, PurgeRow, On
      <3> QED
        BY <2>1, <2>2, <3>1, <1>0 DEF Worked
    <2>3. CASE at # "settle"
      <3>1. PICK e \in Docs : Charging(e)
        BY <1>2, <2>1, <2>3, PointsAreLeft
      <3>2. e = d
        BY <1>2, <3>1, ChargedIsInFlight DEF Flight, OneInFlight, InState
      <3> QED
        BY <3>1, <3>2, FailuresGrow
    <2> QED
      BY <2>2, <2>3
  <1>3. ASSUME step' \in PurgeSteps \/ Finished', cmd' \in Runs, local'[d] = "discovered"
        PROVE  failures'[d] > 0
    <2>1. local[d] = "discovered"
      BY <1>3, IntoQueue DEF PurgeSteps, Finished
    <2>2. CASE (step \in PurgeSteps \/ Finished) /\ UNCHANGED cmd
      BY <1>3, <2>1, <2>2, <1>0 DEF Worked
    <2>3. CASE Finished'
      BY <2>2, <2>3, AtInboxFrom DEF PurgeSteps
    <2>4. CASE step' \in PurgeSteps /\ step \in PurgeSteps
      BY <2>2, <2>4, StepsInOrder DEF PurgeSteps
    <2>5. CASE step' \in PurgeSteps /\ step \notin PurgeSteps
      <3>1. step \in {"idle", "sweep", "fetch"}
        <4>1. ~ReconcileDone
          BY <1>3 DEF ReconcileDone, Runs
        <4> QED
          BY <2>5, <4>1, StepsInOrder
      <3>2. step # "idle"
        BY <1>3, <2>5, IdleStays
        DEF Environment, NextDay, Publish, Restate, Begin, Runs, Enter, PurgeSteps, counter
      <3>3. step # "sweep"
        BY <2>5, OutOfSweep DEF Sweep, SweepInterrupted, Enter, Never, Refusals, Fault, PurgeSteps
      <3>4. FetchDone
        BY <2>5, <3>1, <3>2, <3>3, PointsAreLeft
        DEF Crash, FetchCaptcha, FetchBudget, Never, Refusals, Fault, Finish, Enter, PurgeSteps
      <3> QED
        BY <2>1, <3>4, <1>0 DEF FetchDone, On, Worked
    <2> QED
      BY <1>3, <2>3, <2>4, <2>5
  <1> QED
    BY <1>1, <1>2, <1>3

\* In a merge the listing stays what it was, and a row is merged when the loop passes it.
LEMMA MergeKeepsListing ==
    ASSUME Inductive, Next, step = "merge", step' = "merge"
    PROVE  /\ UNCHANGED <<listing, wanted>>
           /\ \A d \in Docs : ~MergeRow(d) => local'[d] = local[d] /\ (d \in todo => d \in todo')
  <1> USE DEF Inductive, TypeOK, Control, AtItsPoint, On, counter, given, scratch, manifest
  <1>1. CASE Environment \/ \E c \in Commands : Begin(c)
    BY <1>1 DEF Environment, NextDay, Publish, Restate, Begin
  <1>2. CASE Boundary
    BY <1>2 DEF Boundary, ResolveDone, EnactDone, ReconcileDone, Sweep, MergeDone, FetchDone,
                PurgeDirsDone, PurgeIndexesDone, PurgeDone, InboxDone, Enter
  <1>3. CASE Failure
    BY <1>3 DEF Failure, Crash, SweepInterrupted, SweepCaptcha, ArchiveFails, DownloadFails,
                ContractBroken, FetchBudget, FetchCaptcha, UnlinkFails, RemoveDirectoryFails,
                IndexRefused, Finish, Enter
  <1>4. ASSUME NEW e \in Docs, Reconcile(e) \/ PurgeRow(e) \/ ForgetPurged(e) \/ Fetch(e)
        PROVE  FALSE
    BY <1>4 DEF Reconcile, ResolveRecovered, ResolveInterrupted, ChargeInterrupted, EnactFlag,
                ForgetRemoved, Settle, Unlink, PurgeRow, ForgetPurged, Fetch, StartDownload, RecordFiles,
                MarkAvailable, NowhereToLand, Condemn, ClearTarget, Place
  <1>5. ASSUME NEW e \in Docs, MergeRow(e)
        PROVE  /\ UNCHANGED <<listing, wanted>>
               /\ \A d \in Docs : d # e => local'[d] = local[d] /\ (d \in todo => d \in todo')
    BY <1>5 DEF MergeRow, Done
  <1>6. ASSUME NEW x \in dates, PurgeDate(x)
        PROVE  FALSE
    BY <1>6 DEF PurgeDate, RemoveDirectory, RemoveIndex, WriteIndex, RemoveFile
  <1> QED
    BY <1>1, <1>2, <1>3, <1>4, <1>5, <1>6 DEF Next, Progress

\* A merge takes the listing row by row and leaves nothing of it behind.
LEMMA MergedStep ==
    ASSUME Inductive, Merged, Next
    PROVE  Merged'
  <1> USE DEF Inductive, TypeOK
  <1> SUFFICES ASSUME step' = "merge", NEW d \in Docs, d \notin todo', listing'[d] \in SourceStatus
               PROVE  Merge(local'[d], listing'[d], d \in wanted') = local'[d]
    BY DEF Merged
  <1>1. CASE step # "merge"
    <2>1. Sweep
      BY <1>1, StepsInOrder
    <2> QED
      BY <2>1 DEF Sweep, Enter, SourceStatus
  <1>2. CASE step = "merge"
    <2>1. UNCHANGED <<listing, wanted>>
      BY <1>2, MergeKeepsListing
    <2>2. CASE MergeRow(d)
      <3> DEFINE want == d \in wanted
      <3>1. local'[d] = Merge(local[d], listing[d], want) /\ want \in BOOLEAN
        BY <2>2 DEF MergeRow
      <3> HIDE DEF want
      <3>2. Merge(Merge(local[d], listing[d], want), listing[d], want) = Merge(local[d], listing[d], want)
        BY <2>1, <3>1, MergeIsIdempotent
      <3>3. want = (d \in wanted')
        BY <2>1 DEF want
      <3> QED
        BY <2>1, <3>1, <3>2, <3>3
    <2>3. CASE ~MergeRow(d)
      <3>1. d \notin todo /\ local'[d] = local[d]
        BY <1>2, <2>3, MergeKeepsListing
      <3> QED
        BY <1>2, <2>1, <3>1 DEF Merged
    <2> QED
      BY <2>2, <2>3
  <1> QED
    BY <1>1, <1>2

\* Nothing waits in the queue untried after a run that was refused nothing, whatever failed, died
\* or was withdrawn before it (fetch.py empties the queue it found; run.py fetches after the merge).
THEOREM QueuesAreWorkedOff == Spec => []QueueIsWorkedOff
  <1>1. Init => Worked
    BY DEF Init, Worked, Unknown, PurgeSteps, Finished
  <1>2. Worked /\ UNCHANGED vars => Worked'
    BY DEF Worked, vars, manifest, counter, given, Finished
  <1>3. Inductive /\ Worked /\ [Next]_vars => Worked'
    BY <1>2, WorkedStep
  <1>4. Worked => QueueIsWorkedOff
    BY DEF Worked, QueueIsWorkedOff, InState
  <1> QED
    BY <1>1, <1>3, <1>4, InductiveInvariance, PTL DEF Spec

\* A listing that was merged leaves nothing for a second merge of it: windows may overlap, and an
\* interrupted run may be repeated, without a document moving twice (discover.py 203-240).
THEOREM SweepsAreMerged == Spec => SweepIsMerged
  <1>1. Init => Merged
    BY DEF Init, Merged
  <1>2. Merged /\ UNCHANGED vars => Merged'
    BY DEF Merged, vars, manifest, counter, given, scratch
  <1>3. Inductive /\ Merged /\ [Next]_vars => Merged'
    BY <1>2, MergedStep
  <1>4. ASSUME Merged, [Next]_vars
        PROVE  [MergeDone => \A d \in Docs : listing[d] \in SourceStatus =>
                   Merge(local[d], listing[d], d \in wanted) = local[d]]_vars
    BY <1>4 DEF Merged, MergeDone, On
  <1> QED
    BY <1>1, <1>3, <1>4, InductiveInvariance, PTL DEF Spec, SweepIsMerged

-----------------------------------------------------------------------------
(* The commands implement the shelf.                                       *)

HasCopy(d) == rows[d] # {} /\ Intact(d)

\* A step that moves a document in the manifest moves nothing else of any document.
LEMMA LocalMovesAlone ==
    ASSUME Inductive, Next, NEW d \in Docs, local'[d] # local[d]
    PROVE  /\ UNCHANGED <<day, rows, disk, altered>>
           /\ \A e \in Docs \ {d} : local'[e] = local[e]
  BY LocalMoves
  DEF Inductive, TypeOK, world, archive, ResolveRecovered, Settle, MergeRow, StartDownload, MarkAvailable,
      ArchiveFails, Condemn, FetchBudget, FetchCaptcha, PurgeRow

\* A step that makes or unmakes a copy does so for one document and moves nothing else.
LEMMA CopiesMoveAlone ==
    ASSUME Inductive, Next, NEW d \in Docs, HasCopy(d)' # HasCopy(d)
    PROVE  /\ UNCHANGED <<day, local>>
           /\ \A e \in Docs \ {d} : HasCopy(e)' = HasCopy(e)
           /\ HasCopy(d)' => local[d] \notin {"available", "purged"}
  <1> USE DEF Inductive, TypeOK, HasCopy, Intact, world, archive, manifest
  <1>1. CASE ForgetRemoved(d)
    <2>1. local[d] \in {"downloading"} \union Flagged
      BY <1>1 DEF ForgetRemoved, Head, Control, AtItsPoint, Flight, ResolvesInFlight, EnactsFlags, InState
    <2> QED
      BY <1>1, <2>1 DEF ForgetRemoved, Flagged
  <1>2. CASE RecordFiles(d)
    BY <1>2, HeadIsInFlight DEF RecordFiles, On
  <1>3. ASSUME NEW p \in Places, NEW same \in BOOLEAN, Place(d, p, same)
        PROVE  /\ UNCHANGED <<day, local>>
               /\ \A e \in Docs \ {d} : HasCopy(e)' = HasCopy(e)
               /\ HasCopy(d)' => local[d] \notin {"available", "purged"}
    <2>1. local[d] = "downloading"
      <3>1. step = "fetch" /\ at # "loop" /\ Head(d)
        BY <1>3 DEF Place
      <3> QED
        BY <3>1, HeadIsInFlight
    <2> QED
      BY <1>3, <2>1 DEF Place
  <1>4. CASE ForgetPurged(d)
    BY <1>4 DEF ForgetPurged
  <1>5. CASE ~(disk[d] \subseteq disk'[d]) /\ rows'[d] = rows[d] /\ altered'[d] = altered[d]
    <2>1. PICK f \in AllFiles : Unlink(d, f) \/ ClearTarget(d, f) \/ \E x \in dates : RemoveFile(x, d, f)
      BY <1>5, DiskShrinks
    <2>2. /\ UNCHANGED <<day, local, rows, altered>>
          /\ disk' = [disk EXCEPT ![d] = @ \ {f}]
      BY <2>1 DEF Unlink, ClearTarget, RemoveFile
    <2> QED
      BY <2>2
  <1>6. \/ ForgetRemoved(d) \/ RecordFiles(d) \/ ForgetPurged(d)
        \/ \E p \in Places, same \in BOOLEAN : Place(d, p, same)
        \/ ~(disk[d] \subseteq disk'[d]) /\ rows'[d] = rows[d] /\ altered'[d] = altered[d]
    <2>1. CASE rows'[d] = rows[d] /\ altered'[d] = altered[d]
      BY <2>1, DiskGrows
    <2> QED
      BY <2>1, RowsMove
  <1> QED
    BY <1>1, <1>2, <1>3, <1>4, <1>5, <1>6

\* The shelf's own words, in the watcher's.
Shelved == [d \in Docs |-> OnShelf[local[d]]]
Copies == {d \in Docs : HasCopy(d)}

\* A move of one row moves that document on the shelf, and no copy.
LEMMA ShelfMove ==
    ASSUME Inductive, Next, NEW d \in Docs, local'[d] # local[d]
    PROVE  /\ UNCHANGED <<day, Copies>>
           /\ Shelved' = [Shelved EXCEPT ![d] = OnShelf[local'[d]]]
  <1>1. UNCHANGED <<day, rows, disk, altered>> /\ \A e \in Docs \ {d} : local'[e] = local[e]
    BY LocalMovesAlone
  <1>2. UNCHANGED Copies
    BY <1>1 DEF Copies, HasCopy, Intact
  <1>3. Shelved' = [Shelved EXCEPT ![d] = OnShelf[local'[d]]]
    <2>1. Shelved' = [e \in Docs |-> OnShelf[local'[e]]]
      BY DEF Shelved
    <2>2. [Shelved EXCEPT ![d] = OnShelf[local'[d]]]
              = [e \in Docs |-> IF e = d THEN OnShelf[local'[d]] ELSE OnShelf[local[e]]]
      BY Zenon DEF Shelved
    <2>3. \A e \in Docs : OnShelf[local'[e]] = IF e = d THEN OnShelf[local'[d]] ELSE OnShelf[local[e]]
      BY <1>1
    <2> QED
      BY <2>1, <2>2, <2>3, Zenon
  <1> QED
    BY <1>1, <1>2, <1>3

\* What a move of the manifest is on the shelf.
LEMMA MoveOnShelf ==
    ASSUME Inductive, Promises, Next, NEW d \in Docs, local'[d] # local[d]
    PROVE  \/ OnShelf[local'[d]] = OnShelf[local[d]]
           \/ OnShelf[local[d]] = "absent" /\ OnShelf[local'[d]] = "held" /\ HasCopy(d)
           \/ OnShelf[local[d]] \in {"absent", "held"} /\ OnShelf[local'[d]] = "demoted"
           \/ OnShelf[local[d]] \in {"absent", "held", "demoted"} /\ OnShelf[local'[d]] = "cancelled"
           \/ OnShelf[local[d]] = "demoted" /\ OnShelf[local'[d]] = "absent"
           \/ /\ OnShelf[local[d]] \in {"absent", "held", "demoted", "cancelled"}
              /\ OnShelf[local'[d]] = "retired" /\ ~HasCopy(d)
              /\ Expired(DeliveredOn[d], day)
  <1> USE DEF Inductive, TypeOK, OnShelf, LocalState, Unknown
  <1>1. CASE ResolveRecovered(d)
    BY <1>1 DEF ResolveRecovered, On, Head, Flight, ResolvesInFlight, InState, HasCopy
  <1>2. CASE MarkAvailable(d)
    <2>1. local[d] = "downloading" /\ at = "recorded" /\ Head(d) /\ d \in todo
      BY <1>2, HeadIsInFlight DEF MarkAvailable, On, Head
    <2>2. rows[d] = FilesAt(landed) /\ altered[d] = {} /\ FilesAt(landed) \subseteq disk[d]
      BY <2>1 DEF Files, PlacedIsOnDisk
    <2>3. HasCopy(d)
      BY <2>2, DeliveryIsNotEmpty DEF HasCopy, Intact
    <2> QED
      BY <1>2, <2>1, <2>3 DEF MarkAvailable
  <1>3. CASE Settle(d)
    <2>1. local[d] = "downloading"
      BY <1>3, HeadIsInFlight DEF Settle, Control, AtItsPoint, Head, Flight, ResolvesInFlight, InState
    <2> QED
      BY <1>3, <2>1 DEF Settle
  <1>4. CASE StartDownload(d)
    BY <1>4 DEF StartDownload, On, Head, Flight, FetchesInOrder
  <1>5. CASE ArchiveFails(d) \/ Condemn(d) \/ FetchBudget(d) \/ FetchCaptcha(d)
    <2>1. local[d] = "downloading" /\ local'[d] \in {"discovered", "failed"}
      BY <1>5, HeadIsInFlight DEF ArchiveFails, Condemn, FetchBudget, FetchCaptcha, On
    <2> QED
      BY <2>1
  <1>6. CASE MergeRow(d)
    <2>1. /\ listing[d] \in SourceStatus
          /\ local'[d] = Merge(local[d], listing[d], d \in wanted)
      BY <1>6 DEF MergeRow, On, Head, Control, MergesListed
    <2>2. CASE listing[d] = "active"
      BY <2>1, <2>2 DEF Merge, MergeActive, Requeueable
    <2>3. CASE listing[d] = "inactive"
      <3>1. local'[d] = "deactivated" /\ local[d] # Unknown /\ Legal(local[d], "deactivated")
        BY <2>1, <2>3 DEF Merge, MergeFlagged, FlagFor
      <3>2. local[d] \in {"discovered", "downloading", "available", "skipped", "failed"}
        BY <3>1 DEF Legal, Transitions
      <3> QED
        BY <3>1, <3>2
    <2>4. CASE listing[d] = "cancelled"
      <3>1. local'[d] = "cancelled" /\ local[d] # Unknown /\ Legal(local[d], "cancelled")
        BY <2>1, <2>4 DEF Merge, MergeFlagged, FlagFor
      <3>2. local[d] \in {"discovered", "downloading", "available", "skipped", "failed", "deactivated"}
        BY <3>1 DEF Legal, Transitions
      <3> QED
        BY <3>1, <3>2
    <2> QED
      BY <2>1, <2>2, <2>3, <2>4 DEF SourceStatus
  <1>7. CASE PurgeRow(d)
    <2>1. step = "purge_rows" /\ d \in todo /\ local'[d] = "purged"
      BY <1>7 DEF PurgeRow, On, Oldest
    <2>2. d \in Ageing /\ disk[d] = {}
      BY <2>1 DEF Promises, Marked, Emptied
    <2>3. ~HasCopy(d)
      BY <2>2 DEF HasCopy, Intact
    <2>4. Expired(DeliveredOn[d], day)
      BY <2>2, ConstantsAssumption DEF Ageing, Expired, Control, PurgesExpired, ConstantsAssumption
    <2> QED
      BY <2>1, <2>3, <2>4
  <1> QED
    BY <1>1, <1>2, <1>3, <1>4, <1>5, <1>6, <1>7, LocalMoves

\* Every step of the watcher is a step of the shelf, or none.
LEMMA StepOnShelf ==
    ASSUME Inductive, Promises, Inductive', Promises', Next
    PROVE  ShelfOf!ShelfNext \/ UNCHANGED ShelfOf!shelfVars
  <1> USE DEF ShelfOf!ShelfNext, ShelfOf!ShelfStep, ShelfOf!shelfVars, ShelfOf!Move, Inductive, TypeOK
  <1>1. CASE \E d \in Docs : local'[d] # local[d]
    <2>1. PICK d \in Docs : local'[d] # local[d]
      BY <1>1
    <2>2. /\ UNCHANGED <<day, Copies>>
          /\ Shelved' = [Shelved EXCEPT ![d] = OnShelf[local'[d]]]
          /\ Shelved[d] = OnShelf[local[d]]
      BY <2>1, ShelfMove DEF Shelved
    <2>3. CASE OnShelf[local'[d]] = OnShelf[local[d]]
      <3>1. UNCHANGED Shelved
        BY <2>2, <2>3 DEF Shelved
      <3> QED
        BY <2>2, <3>1 DEF Shelved, Copies, HasCopy
    <2>4. CASE OnShelf[local[d]] = "absent" /\ OnShelf[local'[d]] = "held" /\ HasCopy(d)
      <3>1. ShelfOf!TakeIn(d)
        BY <2>2, <2>4 DEF ShelfOf!TakeIn, Shelved, Copies, HasCopy
      <3> QED
        BY <3>1
    <2>5. CASE OnShelf[local[d]] \in {"absent", "held"} /\ OnShelf[local'[d]] = "demoted"
      <3>1. ShelfOf!Demote(d)
        BY <2>2, <2>5 DEF ShelfOf!Demote, Shelved, Copies, HasCopy
      <3> QED
        BY <3>1
    <2>6. CASE OnShelf[local[d]] \in {"absent", "held", "demoted"} /\ OnShelf[local'[d]] = "cancelled"
      <3>1. ShelfOf!Cancel(d)
        BY <2>2, <2>6 DEF ShelfOf!Cancel, Shelved, Copies, HasCopy
      <3> QED
        BY <3>1
    <2>7. CASE OnShelf[local[d]] = "demoted" /\ OnShelf[local'[d]] = "absent"
      <3>1. ShelfOf!Reinstate(d)
        BY <2>2, <2>7 DEF ShelfOf!Reinstate, Shelved, Copies, HasCopy
      <3> QED
        BY <3>1
    <2>8. CASE /\ OnShelf[local[d]] \in {"absent", "held", "demoted", "cancelled"}
               /\ OnShelf[local'[d]] = "retired" /\ ~HasCopy(d)
               /\ Expired(DeliveredOn[d], day)
      <3>1. ShelfOf!Retire(d)
        BY <2>2, <2>8 DEF ShelfOf!Retire, ShelfOf!Aged, Expired, Shelved, Copies, HasCopy
      <3> QED
        BY <3>1
    <2> QED
      BY <2>1, <2>3, <2>4, <2>5, <2>6, <2>7, <2>8, MoveOnShelf
  <1>2. CASE \E d \in Docs : HasCopy(d)' # HasCopy(d)
    <2>1. PICK d \in Docs : HasCopy(d)' # HasCopy(d)
      BY <1>2
    <2>2. /\ UNCHANGED <<day, local>>
          /\ \A e \in Docs \ {d} : HasCopy(e)' = HasCopy(e)
          /\ HasCopy(d)' => local[d] \notin {"available", "purged"}
      BY <2>1, CopiesMoveAlone
    <2>3. UNCHANGED Shelved /\ Shelved[d] = OnShelf[local[d]]
      BY <2>2 DEF Shelved
    <2>4. CASE HasCopy(d)'
      <3>1. Copies' = Copies \union {d}
        BY <2>2, <2>4 DEF Copies
      <3>2. Shelved[d] \notin {"held", "retired"}
        BY <2>2, <2>3, <2>4 DEF OnShelf, LocalState, Unknown
      <3>3. ShelfOf!Make(d)
        BY <2>2, <2>3, <3>1, <3>2 DEF ShelfOf!Make, Shelved, Copies, HasCopy
      <3> QED
        BY <3>3
    <2>5. CASE ~HasCopy(d)'
      <3>1. Copies' = Copies \ {d}
        BY <2>2, <2>5 DEF Copies
      <3>2. Shelved[d] = "held" => local'[d] = "available"
        BY <2>2, <2>3 DEF OnShelf, LocalState, Unknown
      <3>3. Shelved[d] = "held" => Expired(DeliveredOn[d], day)
        <4>1. ASSUME Shelved[d] = "held" PROVE Expired(DeliveredOn[d], today')
          BY <2>5, <3>2, <4>1 DEF Promises, AvailableStays, HasCopy
        <4>2. today' <= day
          BY <2>2 DEF Control, PurgesExpired
        <4> QED
          BY <2>2, <4>1, <4>2, ConstantsAssumption DEF Expired, ConstantsAssumption
      <3>4. ShelfOf!Lose(d)
        BY <2>2, <2>3, <3>1, <3>3 DEF ShelfOf!Lose, ShelfOf!Aged, Expired, Shelved, Copies, HasCopy
      <3> QED
        BY <3>4
    <2> QED
      BY <2>4, <2>5
  <1>3. CASE \A d \in Docs : local'[d] = local[d] /\ HasCopy(d)' = HasCopy(d)
    <2>1. UNCHANGED <<Shelved, Copies>>
      BY <1>3 DEF Shelved, Copies
    <2>2. day' = day \/ day' = day + 1
      BY WorldMoves DEF Environment, NextDay, Publish, Restate, world
    <2> QED
      BY <2>1, <2>2 DEF ShelfOf!Tick, Shelved, Copies, HasCopy
  <1> QED
    BY <1>1, <1>2, <1>3

\* The commands implement the shelf: what is held has a copy, a promised copy goes only with its
\* expired day, and neither a cancellation nor a purge is taken back (repo.transition's table,
\* fetch.py, reconcile.py and purge.py together).
THEOREM WatcherImplementsShelf == Spec => ImplementsShelf
  <1>1. Init => ShelfOf!ShelfInit
    BY DEF Init, ShelfOf!ShelfInit, OnShelf, LocalState, Unknown
  <1>2. Inductive /\ Promises /\ Inductive' /\ Promises' /\ [Next]_vars
            => [ShelfOf!ShelfNext]_(ShelfOf!shelfVars)
    <2>1. ASSUME UNCHANGED vars PROVE UNCHANGED ShelfOf!shelfVars
      BY <2>1 DEF vars, world, manifest, archive, ShelfOf!shelfVars, Intact
    <2> QED
      BY <2>1, StepOnShelf
  <1> QED
    BY InductiveInvariance, PromisesAreKept, <1>1, <1>2, PTL DEF Spec, ImplementsShelf, ShelfOf!ShelfSpec
=============================================================================
