--------------------------- MODULE WatcherProofs ---------------------------
(***************************************************************************)
(* Proofs about module Watcher, for every set of documents and every value *)
(* of its constants.  Inductive is shown to hold initially and to survive  *)
(* every step, one conjunct group at a time: types, the program counter,   *)
(* the downloads in flight, the files on disk.  The theorems follow from   *)
(* it.                                                                     *)
(***************************************************************************)
EXTENDS WatcherInvariant, FiniteSetTheorems, WellFoundedInduction, TLAPS

-----------------------------------------------------------------------------
(* Helpers.                                                                *)

\* A loop over a queue has one next document: the queue order (in_state) is strict.
LEMMA HeadIsUnique ==
    ASSUME NEW d \in Docs, NEW e \in Docs, Head(d), Head(e)
    PROVE  d = e
  BY ConstantsAssumption DEF Head, Newer, ConstantsAssumption

\* The same for the order purge works in (delivered_before).
LEMMA OldestIsUnique ==
    ASSUME NEW d \in Docs, NEW e \in Docs, Oldest(d), Oldest(e)
    PROVE  d = e
  BY ConstantsAssumption DEF Oldest, Older, ConstantsAssumption

\* A delivery has at least one file.
LEMMA DeliveryIsNotEmpty ==
    ASSUME NEW p
    PROVE  FilesAt(p) # {}
  <1>1. PICK m \in Members : TRUE
    BY ConstantsAssumption DEF ConstantsAssumption
  <1>2. <<p, m>> \in {p} \X Members
    BY <1>1
  <1> QED
    BY <1>2 DEF FilesAt

\* Merging a row of the listing (discover.merge) never starts a download and never calls
\* a document available that was not.
LEMMA MergeResult ==
    ASSUME NEW c \in LocalState \union {Unknown}, NEW s \in SourceStatus, NEW w \in BOOLEAN
    PROVE  /\ Merge(c, s, w) \in LocalState \union {Unknown}
           /\ Merge(c, s, w) \in {"downloading", "available"} => Merge(c, s, w) = c
  BY DEF Merge, MergeActive, MergeFlagged, FlagFor, LocalState, Unknown, SourceStatus,
         Requeueable

\* The same of the step: what one MergeRow writes in local.
LEMMA MergeRowResult ==
    ASSUME TypeOK, MergesListed, NEW d \in Docs, MergeRow(d)
    PROVE  \E s \in LocalState \union {Unknown} :
               /\ local' = [local EXCEPT ![d] = s]
               /\ s \in {"downloading", "available"} => s = local[d]
  <1>1. listing[d] \in SourceStatus /\ local[d] \in LocalState \union {Unknown}
    BY DEF MergeRow, On, Head, MergesListed, TypeOK
  <1>2. (d \in wanted) \in BOOLEAN
    OBVIOUS
  <1> DEFINE s == Merge(local[d], listing[d], d \in wanted)
  <1>3. /\ s \in LocalState \union {Unknown}
        /\ s \in {"downloading", "available"} => s = local[d]
    BY <1>1, <1>2, MergeResult
  <1>4. local' = [local EXCEPT ![d] = s]
    BY DEF MergeRow
  <1> QED
    BY <1>3, <1>4

\* An index says of a document one of the four things it can say (inbox).
LEMMA IndexEntryResult ==
    ASSUME NEW s \in LocalState \union {Unknown}
    PROVE  IndexEntry[s] \in {"absent", "link", "cancelled", "failed"}
  BY DEF IndexEntry

-----------------------------------------------------------------------------
(* The invariant is inductive.                                             *)

\* Every step keeps the types.
LEMMA TypeStep ==
    ASSUME Inductive, Next
    PROVE  TypeOK'
  <1> USE DEF Inductive, Control, Flight, Files, TypeOK, vars, world, manifest, archive, given,
              counter, scratch
  <1>1. CASE NextDay
    BY <1>1 DEF NextDay
  <1>2. ASSUME NEW d \in Docs, Publish(d) PROVE TypeOK'
    BY <1>2 DEF Publish, SourceStatus
  <1>3. ASSUME NEW d \in Docs, NEW s \in SourceStatus, Restate(d, s) PROVE TypeOK'
    BY <1>3 DEF Restate
  <1>4. ASSUME NEW c \in Commands, Begin(c) PROVE TypeOK'
    BY <1>4, ConstantsAssumption
      DEF Begin, EnterPurge, Enter, InState, DatesOf, Steps, Points, ConstantsAssumption
  <1>5. ASSUME NEW d \in Docs, ResolveRecovered(d) PROVE TypeOK'
    BY <1>5 DEF ResolveRecovered, Done, LocalState, Points
  <1>6. ASSUME NEW d \in Docs, ResolveInterrupted(d) PROVE TypeOK'
    BY <1>6 DEF ResolveInterrupted, At, Points
  <1>7. ASSUME NEW d \in Docs, ChargeInterrupted(d) PROVE TypeOK'
    BY <1>7 DEF ChargeInterrupted, At, Points
  <1>8. ASSUME NEW d \in Docs, EnactFlag(d) PROVE TypeOK'
    BY <1>8 DEF EnactFlag, Done, At, Points
  <1>9. ASSUME NEW d \in Docs, ForgetRemoved(d) PROVE TypeOK'
    BY <1>9 DEF ForgetRemoved, Done, At, Points
  <1>10. ASSUME NEW d \in Docs, Settle(d) PROVE TypeOK'
    BY <1>10 DEF Settle, Done, Points, LocalState
  <1>11. ASSUME NEW d \in Docs, NEW f \in AllFiles, Unlink(d, f) PROVE TypeOK'
    BY <1>11 DEF Unlink
  <1>12. ASSUME NEW d \in Docs, MergeRow(d) PROVE TypeOK'
    <2>1. local' \in [Docs -> LocalState \union {Unknown}]
      BY <1>12, MergeRowResult
    <2> QED
      BY <1>12, <2>1 DEF MergeRow, Done, Points
  <1>13. ASSUME NEW d \in Docs, StartDownload(d) PROVE TypeOK'
    BY <1>13 DEF StartDownload, At, Points, LocalState
  <1>14. ASSUME NEW d \in Docs, RecordFiles(d) PROVE TypeOK'
    BY <1>14 DEF RecordFiles, At, Points, On, PlacedIsOnDisk, FilesAt, AllFiles
  <1>15. ASSUME NEW d \in Docs, MarkAvailable(d) PROVE TypeOK'
    BY <1>15 DEF MarkAvailable, Done, Points, LocalState, NoPlace
  <1>16. ASSUME NEW d \in Docs, NowhereToLand(d) PROVE TypeOK'
    BY <1>16 DEF NowhereToLand, At, Points
  <1>17. ASSUME NEW d \in Docs, Condemn(d) PROVE TypeOK'
    BY <1>17 DEF Condemn, Done, Points, LocalState
  <1>18. ASSUME NEW d \in Docs, NEW f \in AllFiles, ClearTarget(d, f) PROVE TypeOK'
    BY <1>18 DEF ClearTarget, At, Points, AllFiles
  <1>19. ASSUME NEW d \in Docs, NEW p \in Places, NEW same \in BOOLEAN, Place(d, p, same)
         PROVE TypeOK'
    BY <1>19 DEF Place, At, Points, FilesAt, AllFiles
  <1>20. ASSUME NEW d \in Docs, PurgeRow(d) PROVE TypeOK'
    BY <1>20 DEF PurgeRow, Done, At, Points, LocalState
  <1>21. ASSUME NEW d \in Docs, ForgetPurged(d) PROVE TypeOK'
    BY <1>21 DEF ForgetPurged, Done, Points
  <1>22. ASSUME NEW x \in dates, RemoveDirectory(x) PROVE TypeOK'
    BY <1>22 DEF RemoveDirectory
  <1>23. ASSUME NEW x \in dates, RemoveIndex(x) PROVE TypeOK'
    BY <1>23 DEF RemoveIndex
  <1>24. ASSUME NEW x \in dates, WriteIndex(x) PROVE TypeOK'
    BY <1>24, IndexEntryResult DEF WriteIndex
  <1>25. ASSUME NEW x \in dates, NEW d \in Docs, NEW f \in disk[d], RemoveFile(x, d, f)
         PROVE TypeOK'
    BY <1>25 DEF RemoveFile
  <1>26. CASE ResolveDone
    BY <1>26 DEF ResolveDone, Enter, InState, Steps, Points
  <1>27. CASE EnactDone
    BY <1>27 DEF EnactDone, Enter, InState, Steps, Points
  <1>28. CASE ReconcileDone
    BY <1>28, ConstantsAssumption
      DEF ReconcileDone, EnterInbox, Enter, DatesOf, Steps, Points, ConstantsAssumption
  <1>29. CASE Sweep
    <2>1. PICK watched \in WatchLists :
            LET seen == {d \in watched : /\ source[d] # Unpublished
                                         /\ InWindow(DeliveredOn[d], today, SweepDays)}
            IN  /\ listing' = [d \in Docs |-> IF d \in seen THEN source[d] ELSE "unlisted"]
                /\ Enter("merge", seen, {})
      BY <1>29 DEF Sweep
    <2> DEFINE seen == {d \in watched : /\ source[d] # Unpublished
                                        /\ InWindow(DeliveredOn[d], today, SweepDays)}
    <2>2. seen \in SUBSET Docs /\ \A d \in seen : source[d] \in SourceStatus
      BY ConstantsAssumption DEF ConstantsAssumption
    <2>3. listing' = [d \in Docs |-> IF d \in seen THEN source[d] ELSE "unlisted"]
      BY <2>1
    <2>4. step' = "merge" /\ at' = "loop" /\ todo' = seen /\ dates' = {}
      BY <2>1 DEF Enter
    <2> HIDE DEF seen
    <2>5. listing' \in [Docs -> SourceStatus \union {"unlisted"}]
      BY <2>2, <2>3
    <2> QED
      BY <1>29, <2>2, <2>4, <2>5 DEF Sweep, Steps, Points
  <1>30. CASE MergeDone
    BY <1>30 DEF MergeDone, Enter, InState, Steps, Points, Unlisted
  <1>31. CASE FetchDone
    BY <1>31, ConstantsAssumption
      DEF FetchDone, EnterPurge, Enter, DatesOf, Steps, Points, ConstantsAssumption
  <1>32. CASE PurgeDirsDone
    BY <1>32, ConstantsAssumption
      DEF PurgeDirsDone, Enter, DatesOf, Steps, Points, ConstantsAssumption
  <1>33. CASE PurgeIndexesDone
    BY <1>33 DEF PurgeIndexesDone, Enter, InState, Steps, Points
  <1>34. CASE PurgeDone
    BY <1>34, ConstantsAssumption
      DEF PurgeDone, EnterInbox, Enter, DatesOf, Steps, Points, ConstantsAssumption
  <1>35. CASE InboxDone
    BY <1>35 DEF InboxDone, Finish, Unlisted, NoPlace, Enter, Steps, Points
  <1>36. CASE Crash
    BY <1>36 DEF Crash, Finish, Fault, Unlisted, NoPlace, Enter, Steps, Points
  <1>37. CASE SweepInterrupted
    BY <1>37, ConstantsAssumption
      DEF SweepInterrupted, Fault, EnterPurge, Enter, DatesOf, Steps, Points,
          ConstantsAssumption
  <1>38. CASE SweepCaptcha
    BY <1>38 DEF SweepCaptcha, Finish, Fault, Unlisted, NoPlace, Enter, Steps, Points
  <1>39. ASSUME NEW d \in Docs, ArchiveFails(d) PROVE TypeOK'
    BY <1>39 DEF ArchiveFails, Fault, Done, Points, LocalState, NoPlace
  <1>40. ASSUME NEW d \in Docs, DownloadFails(d) PROVE TypeOK'
    BY <1>40 DEF DownloadFails, Fault, At, Points
  <1>41. ASSUME NEW d \in Docs, ContractBroken(d) PROVE TypeOK'
    BY <1>41 DEF ContractBroken, Fault, At, Points
  <1>42. ASSUME NEW d \in Docs, FetchBudget(d) PROVE TypeOK'
    <2>1. local' \in [Docs -> LocalState \union {Unknown}] /\ faults' \in Nat
      BY <1>42 DEF FetchBudget, Fault, LocalState
    <2>2. EnterPurge(today)
      BY <1>42 DEF FetchBudget
    <2>3. step' \in Steps /\ at' \in Points /\ todo' \in SUBSET Docs /\ dates' \in SUBSET Nat
      BY <2>2, ConstantsAssumption
      DEF EnterPurge, Enter, DatesOf, Steps, Points, ConstantsAssumption
    <2> QED
      BY <1>42, <2>1, <2>3 DEF FetchBudget
  <1>43. ASSUME NEW d \in Docs, FetchCaptcha(d) PROVE TypeOK'
    BY <1>43 DEF FetchCaptcha, Finish, Fault, Unlisted, NoPlace, Enter, Steps, Points,
                 LocalState
  <1>44. ASSUME NEW d \in Docs, NEW f \in AllFiles, UnlinkFails(d, f) PROVE TypeOK'
    BY <1>44 DEF UnlinkFails, Fault
  <1>45. ASSUME NEW x \in dates, RemoveDirectoryFails(x) PROVE TypeOK'
    BY <1>45 DEF RemoveDirectoryFails, Fault
  <1>46. ASSUME NEW x \in dates, IndexRefused(x) PROVE TypeOK'
    BY <1>46 DEF IndexRefused, Fault
  <1> QED
    BY <1>1, <1>2, <1>3, <1>4, <1>5, <1>6, <1>7, <1>8, <1>9, <1>10, <1>11, <1>12, <1>13, <1>14,
       <1>15, <1>16, <1>17, <1>18, <1>19, <1>20, <1>21, <1>22, <1>23, <1>24, <1>25, <1>26,
       <1>27, <1>28, <1>29, <1>30, <1>31, <1>32, <1>33, <1>34, <1>35, <1>36, <1>37, <1>38,
       <1>39, <1>40, <1>41, <1>42, <1>43, <1>44, <1>45, <1>46
    DEF Next, Environment, Progress, Reconcile, Fetch, PurgeDate, Boundary, Failure

\* Every step leaves the program counter at a point its command goes through, with an
\* unexpired day out of purge's reach.
LEMMA ControlStep ==
    ASSUME Inductive, Next
    PROVE  Control'
  <1> USE DEF Inductive, Control, AtItsPoint, CommandSteps, MergesListed, PurgesExpired,
              PurgeSteps,
              TypeOK, world, manifest, archive, given, counter, scratch
  <1>1. CASE NextDay
    BY <1>1 DEF NextDay
  <1>2. ASSUME NEW d \in Docs, Publish(d) PROVE Control'
    BY <1>2 DEF Publish
  <1>3. ASSUME NEW d \in Docs, NEW s \in SourceStatus, Restate(d, s) PROVE Control'
    BY <1>3 DEF Restate
  <1>4. ASSUME NEW c \in Commands, Begin(c) PROVE Control'
    BY <1>4, ConstantsAssumption
      DEF Begin, On, EnterPurge, Enter, InState, DatesOf, Expired, ConstantsAssumption
  <1>5. ASSUME NEW d \in Docs, ResolveRecovered(d) PROVE Control'
    BY <1>5 DEF ResolveRecovered, On, Done
  <1>6. ASSUME NEW d \in Docs, ResolveInterrupted(d) PROVE Control'
    BY <1>6 DEF ResolveInterrupted, On, At
  <1>7. ASSUME NEW d \in Docs, ChargeInterrupted(d) PROVE Control'
    BY <1>7 DEF ChargeInterrupted, On, At
  <1>8. ASSUME NEW d \in Docs, EnactFlag(d) PROVE Control'
    BY <1>8 DEF EnactFlag, On, Done, At
  <1>9. ASSUME NEW d \in Docs, ForgetRemoved(d) PROVE Control'
    BY <1>9 DEF ForgetRemoved, On, Done, At
  <1>10. ASSUME NEW d \in Docs, Settle(d) PROVE Control'
    BY <1>10 DEF Settle, On, Done
  <1>11. ASSUME NEW d \in Docs, NEW f \in AllFiles, Unlink(d, f) PROVE Control'
    BY <1>11 DEF Unlink, On
  <1>12. ASSUME NEW d \in Docs, MergeRow(d) PROVE Control'
    BY <1>12 DEF MergeRow, On, Done
  <1>13. ASSUME NEW d \in Docs, StartDownload(d) PROVE Control'
    BY <1>13 DEF StartDownload, On, At
  <1>14. ASSUME NEW d \in Docs, RecordFiles(d) PROVE Control'
    BY <1>14 DEF RecordFiles, On, At
  <1>15. ASSUME NEW d \in Docs, MarkAvailable(d) PROVE Control'
    BY <1>15 DEF MarkAvailable, On, Done
  <1>16. ASSUME NEW d \in Docs, NowhereToLand(d) PROVE Control'
    BY <1>16 DEF NowhereToLand, On, At
  <1>17. ASSUME NEW d \in Docs, Condemn(d) PROVE Control'
    BY <1>17 DEF Condemn, On, Done
  <1>18. ASSUME NEW d \in Docs, NEW f \in AllFiles, ClearTarget(d, f) PROVE Control'
    BY <1>18 DEF ClearTarget, On, At
  <1>19. ASSUME NEW d \in Docs, NEW p \in Places, NEW same \in BOOLEAN, Place(d, p, same)
         PROVE Control'
    BY <1>19 DEF Place, On, At
  <1>20. ASSUME NEW d \in Docs, PurgeRow(d) PROVE Control'
    BY <1>20 DEF PurgeRow, On, Done, At
  <1>21. ASSUME NEW d \in Docs, ForgetPurged(d) PROVE Control'
    BY <1>21 DEF ForgetPurged, On, Done
  <1>22. ASSUME NEW x \in dates, RemoveDirectory(x) PROVE Control'
    BY <1>22 DEF RemoveDirectory, On
  <1>23. ASSUME NEW x \in dates, RemoveIndex(x) PROVE Control'
    BY <1>23 DEF RemoveIndex, On
  <1>24. ASSUME NEW x \in dates, WriteIndex(x) PROVE Control'
    BY <1>24 DEF WriteIndex, On
  <1>25. ASSUME NEW x \in dates, NEW d \in Docs, NEW f \in disk[d], RemoveFile(x, d, f)
         PROVE Control'
    BY <1>25 DEF RemoveFile, On
  <1>26. CASE ResolveDone
    BY <1>26 DEF ResolveDone, On, Enter, InState
  <1>27. CASE EnactDone
    BY <1>27 DEF EnactDone, On, Enter, InState
  <1>28. CASE ReconcileDone
    BY <1>28, ConstantsAssumption
      DEF ReconcileDone, On, EnterInbox, Enter, DatesOf, ConstantsAssumption
  <1>29. CASE Sweep
    BY <1>29, ConstantsAssumption DEF Sweep, On, Enter, ConstantsAssumption, SourceStatus
  <1>30. CASE MergeDone
    BY <1>30 DEF MergeDone, On, Enter, InState
  <1>31. CASE FetchDone
    BY <1>31, ConstantsAssumption
      DEF FetchDone, On, EnterPurge, Enter, DatesOf, Expired, ConstantsAssumption
  <1>32. CASE PurgeDirsDone
    BY <1>32, ConstantsAssumption DEF PurgeDirsDone, On, Enter, DatesOf, ConstantsAssumption
  <1>33. CASE PurgeIndexesDone
    BY <1>33 DEF PurgeIndexesDone, On, Enter, InState
  <1>34. CASE PurgeDone
    BY <1>34, ConstantsAssumption
      DEF PurgeDone, On, EnterInbox, Enter, DatesOf, ConstantsAssumption
  <1>35. CASE InboxDone
    BY <1>35 DEF InboxDone, On, Finish, Enter
  <1>36. CASE Crash
    BY <1>36 DEF Crash, On, Finish, Fault, Enter
  <1>37. CASE SweepInterrupted
    BY <1>37, ConstantsAssumption
      DEF SweepInterrupted, On, Fault, EnterPurge, Enter, DatesOf, Expired, ConstantsAssumption
  <1>38. CASE SweepCaptcha
    BY <1>38 DEF SweepCaptcha, On, Finish, Fault, Enter
  <1>39. ASSUME NEW d \in Docs, ArchiveFails(d) PROVE Control'
    BY <1>39 DEF ArchiveFails, On, Fault, Done
  <1>40. ASSUME NEW d \in Docs, DownloadFails(d) PROVE Control'
    BY <1>40 DEF DownloadFails, On, Fault, At
  <1>41. ASSUME NEW d \in Docs, ContractBroken(d) PROVE Control'
    BY <1>41 DEF ContractBroken, On, Fault, At
  <1>42. ASSUME NEW d \in Docs, FetchBudget(d) PROVE Control'
    BY <1>42, ConstantsAssumption
      DEF FetchBudget, On, Fault, EnterPurge, Enter, DatesOf, Expired, ConstantsAssumption
  <1>43. ASSUME NEW d \in Docs, FetchCaptcha(d) PROVE Control'
    BY <1>43 DEF FetchCaptcha, On, Finish, Fault, Enter
  <1>44. ASSUME NEW d \in Docs, NEW f \in AllFiles, UnlinkFails(d, f) PROVE Control'
    BY <1>44 DEF UnlinkFails, On, Fault
  <1>45. ASSUME NEW x \in dates, RemoveDirectoryFails(x) PROVE Control'
    BY <1>45 DEF RemoveDirectoryFails, On, Fault
  <1>46. ASSUME NEW x \in dates, IndexRefused(x) PROVE Control'
    BY <1>46 DEF IndexRefused, On, Fault
  <1> QED
    BY <1>1, <1>2, <1>3, <1>4, <1>5, <1>6, <1>7, <1>8, <1>9, <1>10, <1>11, <1>12, <1>13, <1>14,
       <1>15, <1>16, <1>17, <1>18, <1>19, <1>20, <1>21, <1>22, <1>23, <1>24, <1>25, <1>26,
       <1>27, <1>28, <1>29, <1>30, <1>31, <1>32, <1>33, <1>34, <1>35, <1>36, <1>37, <1>38,
       <1>39, <1>40, <1>41, <1>42, <1>43, <1>44, <1>45, <1>46
    DEF Next, Environment, Progress, Reconcile, Fetch, PurgeDate, Boundary, Failure

\* Every step keeps at most one download in flight, the head's, where the command has one.
LEMMA FlightStep ==
    ASSUME Inductive, Next
    PROVE  Flight'
  <1> USE DEF Inductive, Control, AtItsPoint, CommandSteps, PurgeSteps, InState, Finished,
              Flagged, Head, Oldest, Flight, OneInFlight, ResolvesInFlight,
    FetchesInOrder, NoneInFlight, EnactsFlags, ForgetsPurged, TypeOK, world, manifest, archive,
    given, counter, scratch
  <1>1. CASE NextDay
    BY <1>1 DEF NextDay
  <1>2. ASSUME NEW d \in Docs, Publish(d) PROVE Flight'
    BY <1>2 DEF Publish
  <1>3. ASSUME NEW d \in Docs, NEW s \in SourceStatus, Restate(d, s) PROVE Flight'
    BY <1>3 DEF Restate
  <1>4. ASSUME NEW c \in Commands, Begin(c) PROVE Flight'
    BY <1>4 DEF Begin, On, EnterPurge, Enter
  <1>5. ASSUME NEW d \in Docs, ResolveRecovered(d) PROVE Flight'
    BY <1>5, HeadIsUnique DEF ResolveRecovered, On, Done
  <1>6. ASSUME NEW d \in Docs, ResolveInterrupted(d) PROVE Flight'
    BY <1>6, HeadIsUnique DEF ResolveInterrupted, On, At
  <1>7. ASSUME NEW d \in Docs, ChargeInterrupted(d) PROVE Flight'
    BY <1>7, HeadIsUnique DEF ChargeInterrupted, On, At
  <1>8. ASSUME NEW d \in Docs, EnactFlag(d) PROVE Flight'
    BY <1>8, HeadIsUnique DEF EnactFlag, On, Done, At
  <1>9. ASSUME NEW d \in Docs, ForgetRemoved(d) PROVE Flight'
    BY <1>9, HeadIsUnique DEF ForgetRemoved, On, Done, At
  <1>10. ASSUME NEW d \in Docs, Settle(d) PROVE Flight'
    BY <1>10, HeadIsUnique DEF Settle, On, Done
  <1>11. ASSUME NEW d \in Docs, NEW f \in AllFiles, Unlink(d, f) PROVE Flight'
    BY <1>11, HeadIsUnique DEF Unlink, On
  <1>12. ASSUME NEW d \in Docs, MergeRow(d) PROVE Flight'
    <2>1. PICK s : /\ local' = [local EXCEPT ![d] = s]
                   /\ s \in {"downloading", "available"} => s = local[d]
      BY <1>12, MergeRowResult
    <2>2. \A e \in Docs : local[e] # "downloading"
      BY <1>12 DEF MergeRow, On
    <2>3. \A e \in Docs : local'[e] # "downloading"
      BY <2>1, <2>2
    <2> QED
      BY <1>12, <2>3 DEF MergeRow, On, Done
  <1>13. ASSUME NEW d \in Docs, StartDownload(d) PROVE Flight'
    BY <1>13, HeadIsUnique DEF StartDownload, On, At
  <1>14. ASSUME NEW d \in Docs, RecordFiles(d) PROVE Flight'
    BY <1>14, HeadIsUnique DEF RecordFiles, On, At
  <1>15. ASSUME NEW d \in Docs, MarkAvailable(d) PROVE Flight'
    BY <1>15, HeadIsUnique DEF MarkAvailable, On, Done
  <1>16. ASSUME NEW d \in Docs, NowhereToLand(d) PROVE Flight'
    BY <1>16, HeadIsUnique DEF NowhereToLand, On, At
  <1>17. ASSUME NEW d \in Docs, Condemn(d) PROVE Flight'
    BY <1>17, HeadIsUnique DEF Condemn, On, Done
  <1>18. ASSUME NEW d \in Docs, NEW f \in AllFiles, ClearTarget(d, f) PROVE Flight'
    BY <1>18, HeadIsUnique DEF ClearTarget, On, At
  <1>19. ASSUME NEW d \in Docs, NEW p \in Places, NEW same \in BOOLEAN, Place(d, p, same)
         PROVE Flight'
    BY <1>19, HeadIsUnique DEF Place, On, At
  <1>20. ASSUME NEW d \in Docs, PurgeRow(d) PROVE Flight'
    BY <1>20, OldestIsUnique DEF PurgeRow, On, Done, At
  <1>21. ASSUME NEW d \in Docs, ForgetPurged(d) PROVE Flight'
    BY <1>21, OldestIsUnique DEF ForgetPurged, On, Done
  <1>22. ASSUME NEW x \in dates, RemoveDirectory(x) PROVE Flight'
    BY <1>22 DEF RemoveDirectory, On
  <1>23. ASSUME NEW x \in dates, RemoveIndex(x) PROVE Flight'
    BY <1>23 DEF RemoveIndex, On
  <1>24. ASSUME NEW x \in dates, WriteIndex(x) PROVE Flight'
    BY <1>24 DEF WriteIndex, On
  <1>25. ASSUME NEW x \in dates, NEW d \in Docs, NEW f \in disk[d], RemoveFile(x, d, f)
         PROVE Flight'
    BY <1>25 DEF RemoveFile, On
  <1>26. CASE ResolveDone
    BY <1>26 DEF ResolveDone, On, Enter
  <1>27. CASE EnactDone
    BY <1>27 DEF EnactDone, On, Enter
  <1>28. CASE ReconcileDone
    BY <1>28 DEF ReconcileDone, On, EnterInbox, Enter
  <1>29. CASE Sweep
    BY <1>29 DEF Sweep, On, Enter
  <1>30. CASE MergeDone
    BY <1>30 DEF MergeDone, On, Enter
  <1>31. CASE FetchDone
    BY <1>31 DEF FetchDone, On, EnterPurge, Enter
  <1>32. CASE PurgeDirsDone
    BY <1>32 DEF PurgeDirsDone, On, Enter
  <1>33. CASE PurgeIndexesDone
    BY <1>33 DEF PurgeIndexesDone, On, Enter
  <1>34. CASE PurgeDone
    BY <1>34 DEF PurgeDone, On, EnterInbox, Enter
  <1>35. CASE InboxDone
    BY <1>35 DEF InboxDone, On, Finish, Enter
  <1>36. CASE Crash
    BY <1>36 DEF Crash, On, Finish, Enter
  <1>37. CASE SweepInterrupted
    BY <1>37 DEF SweepInterrupted, On, EnterPurge, Enter
  <1>38. CASE SweepCaptcha
    BY <1>38 DEF SweepCaptcha, On, Finish, Enter
  <1>39. ASSUME NEW d \in Docs, ArchiveFails(d) PROVE Flight'
    BY <1>39, HeadIsUnique DEF ArchiveFails, On, Done
  <1>40. ASSUME NEW d \in Docs, DownloadFails(d) PROVE Flight'
    BY <1>40, HeadIsUnique DEF DownloadFails, On, At
  <1>41. ASSUME NEW d \in Docs, ContractBroken(d) PROVE Flight'
    BY <1>41, HeadIsUnique DEF ContractBroken, On, At
  <1>42. ASSUME NEW d \in Docs, FetchBudget(d) PROVE Flight'
    BY <1>42, HeadIsUnique DEF FetchBudget, On, EnterPurge, Enter
  <1>43. ASSUME NEW d \in Docs, FetchCaptcha(d) PROVE Flight'
    BY <1>43, HeadIsUnique DEF FetchCaptcha, On, Finish, Enter
  <1>44. ASSUME NEW d \in Docs, NEW f \in AllFiles, UnlinkFails(d, f) PROVE Flight'
    BY <1>44, HeadIsUnique DEF UnlinkFails, On
  <1>45. ASSUME NEW x \in dates, RemoveDirectoryFails(x) PROVE Flight'
    BY <1>45 DEF RemoveDirectoryFails, On
  <1>46. ASSUME NEW x \in dates, IndexRefused(x) PROVE Flight'
    BY <1>46 DEF IndexRefused, On
  <1> QED
    BY <1>1, <1>2, <1>3, <1>4, <1>5, <1>6, <1>7, <1>8, <1>9, <1>10, <1>11, <1>12, <1>13, <1>14,
       <1>15, <1>16, <1>17, <1>18, <1>19, <1>20, <1>21, <1>22, <1>23, <1>24, <1>25, <1>26,
       <1>27, <1>28, <1>29, <1>30, <1>31, <1>32, <1>33, <1>34, <1>35, <1>36, <1>37, <1>38,
       <1>39, <1>40, <1>41, <1>42, <1>43, <1>44, <1>45, <1>46
    DEF Next, Environment, Progress, Reconcile, Fetch, PurgeDate, Boundary, Failure

\* Every step keeps the files of what is available: a download is called available only
\* after it was placed and recorded, and no loop that removes files meets an available document
\* whose day has not expired.
LEMMA FilesStep ==
    ASSUME Inductive, Next
    PROVE  Files'
  <1> USE DEF Inductive, Control, AtItsPoint, PurgesExpired, Expired, InState, Flagged, Head,
              Oldest, Flight, ResolvesInFlight,
    FetchesInOrder, EnactsFlags, ForgetsPurged, Files, PlacedIsOnDisk, AvailableIsOnDisk,
    Intact, TypeOK, world, manifest, archive, given, counter, scratch
  <1>1. CASE NextDay
    BY <1>1, ConstantsAssumption DEF NextDay, ConstantsAssumption
  <1>2. ASSUME NEW d \in Docs, Publish(d) PROVE Files'
    BY <1>2 DEF Publish
  <1>3. ASSUME NEW d \in Docs, NEW s \in SourceStatus, Restate(d, s) PROVE Files'
    BY <1>3 DEF Restate
  <1>4. ASSUME NEW c \in Commands, Begin(c) PROVE Files'
    BY <1>4 DEF Begin, On, EnterPurge, Enter
  <1>5. ASSUME NEW d \in Docs, ResolveRecovered(d) PROVE Files'
    BY <1>5, HeadIsUnique DEF ResolveRecovered, On, Done
  <1>6. ASSUME NEW d \in Docs, ResolveInterrupted(d) PROVE Files'
    BY <1>6, HeadIsUnique DEF ResolveInterrupted, On, At
  <1>7. ASSUME NEW d \in Docs, ChargeInterrupted(d) PROVE Files'
    BY <1>7, HeadIsUnique DEF ChargeInterrupted, On, At
  <1>8. ASSUME NEW d \in Docs, EnactFlag(d) PROVE Files'
    BY <1>8, HeadIsUnique DEF EnactFlag, On, Done, At
  <1>9. ASSUME NEW d \in Docs, ForgetRemoved(d) PROVE Files'
    BY <1>9, HeadIsUnique DEF ForgetRemoved, On, Done, At
  <1>10. ASSUME NEW d \in Docs, Settle(d) PROVE Files'
    BY <1>10, HeadIsUnique DEF Settle, On, Done
  <1>11. ASSUME NEW d \in Docs, NEW f \in AllFiles, Unlink(d, f) PROVE Files'
    BY <1>11, HeadIsUnique DEF Unlink, On
  <1>12. ASSUME NEW d \in Docs, MergeRow(d) PROVE Files'
    <2>1. \A e \in Docs : local'[e] = "available" => local[e] = "available"
      BY <1>12, MergeRowResult
    <2> QED
      BY <1>12, <2>1 DEF MergeRow, On, Done
  <1>13. ASSUME NEW d \in Docs, StartDownload(d) PROVE Files'
    BY <1>13, HeadIsUnique DEF StartDownload, On, At
  <1>14. ASSUME NEW d \in Docs, RecordFiles(d) PROVE Files'
    BY <1>14, HeadIsUnique DEF RecordFiles, On, At, FilesAt, AllFiles
  <1>15. ASSUME NEW d \in Docs, MarkAvailable(d) PROVE Files'
    <2>1. rows[d] = FilesAt(landed) /\ altered[d] = {} /\ FilesAt(landed) \subseteq disk[d]
      BY <1>15 DEF MarkAvailable, On
    <2>2. FilesAt(landed) # {}
      BY DeliveryIsNotEmpty
    <2>3. rows[d] # {} /\ Intact(d)
      BY <2>1, <2>2
    <2> QED
      BY <1>15, <2>3 DEF MarkAvailable, On, Done
  <1>16. ASSUME NEW d \in Docs, NowhereToLand(d) PROVE Files'
    BY <1>16, HeadIsUnique DEF NowhereToLand, On, At
  <1>17. ASSUME NEW d \in Docs, Condemn(d) PROVE Files'
    BY <1>17, HeadIsUnique DEF Condemn, On, Done
  <1>18. ASSUME NEW d \in Docs, NEW f \in AllFiles, ClearTarget(d, f) PROVE Files'
    BY <1>18, HeadIsUnique DEF ClearTarget, On, At, FilesAt, AllFiles
  <1>19. ASSUME NEW d \in Docs, NEW p \in Places, NEW same \in BOOLEAN, Place(d, p, same)
         PROVE Files'
    BY <1>19, HeadIsUnique DEF Place, On, At, FilesAt, AllFiles
  <1>20. ASSUME NEW d \in Docs, PurgeRow(d) PROVE Files'
    BY <1>20, OldestIsUnique DEF PurgeRow, On, Done, At
  <1>21. ASSUME NEW d \in Docs, ForgetPurged(d) PROVE Files'
    BY <1>21, OldestIsUnique DEF ForgetPurged, On, Done
  <1>22. ASSUME NEW x \in dates, RemoveDirectory(x) PROVE Files'
    BY <1>22 DEF RemoveDirectory, On
  <1>23. ASSUME NEW x \in dates, RemoveIndex(x) PROVE Files'
    BY <1>23 DEF RemoveIndex, On
  <1>24. ASSUME NEW x \in dates, WriteIndex(x) PROVE Files'
    BY <1>24 DEF WriteIndex, On
  <1>25. ASSUME NEW x \in dates, NEW d \in Docs, NEW f \in disk[d], RemoveFile(x, d, f)
         PROVE Files'
    BY <1>25, ConstantsAssumption DEF RemoveFile, On, ConstantsAssumption
  <1>26. CASE ResolveDone
    BY <1>26 DEF ResolveDone, On, Enter
  <1>27. CASE EnactDone
    BY <1>27 DEF EnactDone, On, Enter
  <1>28. CASE ReconcileDone
    BY <1>28 DEF ReconcileDone, On, EnterInbox, Enter
  <1>29. CASE Sweep
    BY <1>29 DEF Sweep, On, Enter
  <1>30. CASE MergeDone
    BY <1>30 DEF MergeDone, On, Enter
  <1>31. CASE FetchDone
    BY <1>31 DEF FetchDone, On, EnterPurge, Enter
  <1>32. CASE PurgeDirsDone
    BY <1>32 DEF PurgeDirsDone, On, Enter
  <1>33. CASE PurgeIndexesDone
    BY <1>33 DEF PurgeIndexesDone, On, Enter
  <1>34. CASE PurgeDone
    BY <1>34 DEF PurgeDone, On, EnterInbox, Enter
  <1>35. CASE InboxDone
    BY <1>35 DEF InboxDone, On, Finish, Enter
  <1>36. CASE Crash
    BY <1>36 DEF Crash, On, Finish, Enter
  <1>37. CASE SweepInterrupted
    BY <1>37 DEF SweepInterrupted, On, EnterPurge, Enter
  <1>38. CASE SweepCaptcha
    BY <1>38 DEF SweepCaptcha, On, Finish, Enter
  <1>39. ASSUME NEW d \in Docs, ArchiveFails(d) PROVE Files'
    BY <1>39, HeadIsUnique DEF ArchiveFails, On, Done
  <1>40. ASSUME NEW d \in Docs, DownloadFails(d) PROVE Files'
    BY <1>40, HeadIsUnique DEF DownloadFails, On, At
  <1>41. ASSUME NEW d \in Docs, ContractBroken(d) PROVE Files'
    BY <1>41, HeadIsUnique DEF ContractBroken, On, At
  <1>42. ASSUME NEW d \in Docs, FetchBudget(d) PROVE Files'
    BY <1>42, HeadIsUnique DEF FetchBudget, On, EnterPurge, Enter
  <1>43. ASSUME NEW d \in Docs, FetchCaptcha(d) PROVE Files'
    BY <1>43, HeadIsUnique DEF FetchCaptcha, On, Finish, Enter
  <1>44. ASSUME NEW d \in Docs, NEW f \in AllFiles, UnlinkFails(d, f) PROVE Files'
    BY <1>44, HeadIsUnique DEF UnlinkFails, On
  <1>45. ASSUME NEW x \in dates, RemoveDirectoryFails(x) PROVE Files'
    BY <1>45 DEF RemoveDirectoryFails, On
  <1>46. ASSUME NEW x \in dates, IndexRefused(x) PROVE Files'
    BY <1>46 DEF IndexRefused, On
  <1> QED
    BY <1>1, <1>2, <1>3, <1>4, <1>5, <1>6, <1>7, <1>8, <1>9, <1>10, <1>11, <1>12, <1>13, <1>14,
       <1>15, <1>16, <1>17, <1>18, <1>19, <1>20, <1>21, <1>22, <1>23, <1>24, <1>25, <1>26,
       <1>27, <1>28, <1>29, <1>30, <1>31, <1>32, <1>33, <1>34, <1>35, <1>36, <1>37, <1>38,
       <1>39, <1>40, <1>41, <1>42, <1>43, <1>44, <1>45, <1>46
    DEF Next, Environment, Progress, Reconcile, Fetch, PurgeDate, Boundary, Failure

\* An empty manifest and an empty archive satisfy the invariant.
LEMMA InitInductive == Init => Inductive
  <1> SUFFICES ASSUME Init PROVE Inductive
    OBVIOUS
  <1> USE DEF Init
  <1>1. TypeOK
    BY DEF TypeOK, LocalState, Commands, Steps, Points, Unlisted, NoPlace
  <1>2. Control
    BY DEF Control, AtItsPoint, CommandSteps, MergesListed, PurgesExpired
  <1>3. Flight
    BY DEF Flight, OneInFlight, ResolvesInFlight, FetchesInOrder, NoneInFlight, EnactsFlags,
           ForgetsPurged, InState, Finished, Unknown, PurgeSteps
  <1>4. Files
    BY DEF Files, PlacedIsOnDisk, AvailableIsOnDisk, Unknown
  <1> QED
    BY <1>1, <1>2, <1>3, <1>4 DEF Inductive

\* A step that changes nothing keeps the invariant.
LEMMA StutterInductive ==
    ASSUME Inductive, UNCHANGED vars
    PROVE  Inductive'
  <1> USE DEF vars, world, manifest, archive, given, counter, scratch
  <1>1. TypeOK'
    BY DEF Inductive, TypeOK
  <1>2. Control'
    BY DEF Inductive, Control, AtItsPoint, CommandSteps, MergesListed, PurgesExpired
  <1>3. Flight'
    BY DEF Inductive, Flight, OneInFlight, ResolvesInFlight, FetchesInOrder, NoneInFlight,
           EnactsFlags, ForgetsPurged, InState, Finished, Head, Oldest
  <1>4. Files'
    BY DEF Inductive, Files, PlacedIsOnDisk, AvailableIsOnDisk, Intact, Head
  <1> QED
    BY <1>1, <1>2, <1>3, <1>4 DEF Inductive

-----------------------------------------------------------------------------
(* The theorems.                                                           *)

\* The inductive invariant holds in every reachable state of the watcher's commands.
THEOREM InductiveInvariance == Spec => []Inductive
  <1>1. Inductive /\ [Next]_vars => Inductive'
    BY TypeStep, ControlStep, FlightStep, FilesStep, StutterInductive DEF Inductive
  <1> QED
    BY InitInductive, <1>1, PTL DEF Spec

\* Every variable keeps its type: in particular a row is always in one of the states
\* repo.py knows, and only recorded files of the document itself are ever recorded.
THEOREM TypeCorrectness == Spec => []TypeOK
  BY InductiveInvariance, PTL DEF Inductive

\* At most one document is downloading, across crashes, restarts and every command:
\* fetch.py takes the queue one by one and reconcile.py runs before any fetch.
THEOREM OneDownloadAtATime == Spec => []OneInFlight
  BY InductiveInvariance, PTL DEF Inductive, Flight

\* A document the manifest calls available has its recorded files intact on disk, or its
\* day has expired (fetch.py's order of writes, reconcile.py's evidence, purge.py's order).
THEOREM AvailabilityIsTrue == Spec => []AvailableIsOnDisk
  BY InductiveInvariance, PTL DEF Inductive, Files

\* No download is in flight between reconciling and fetching, nor after a run or a
\* reconcile that finished (reconcile.py, run.py).
THEOREM ReconciliationIsComplete == Spec => []NothingLeftInFlight
  <1>1. Inductive => NothingLeftInFlight
    BY DEF Inductive, Flight, NoneInFlight, NothingLeftInFlight
  <1> QED
    BY InductiveInvariance, <1>1, PTL

\* A document's files leave the disk in three ways only: unlinked by a removal, cleared
\* by a container's own re-delivery, or taken with their expired day.
LEMMA DiskShrinks ==
    ASSUME Inductive, Next, NEW d \in Docs, ~(disk[d] \subseteq disk'[d])
    PROVE  \E f \in AllFiles : \/ Unlink(d, f) \/ ClearTarget(d, f)
                              \/ \E x \in dates : RemoveFile(x, d, f)
  <1> USE DEF Inductive, TypeOK, archive
  <1>1. CASE Environment
    BY <1>1 DEF Environment, NextDay, Publish, Restate
  <1>2. CASE \E c \in Commands : Begin(c)
    BY <1>2 DEF Begin
  <1>3. CASE Boundary
    BY <1>3 DEF Boundary, ResolveDone, EnactDone, ReconcileDone, Sweep, MergeDone, FetchDone,
                PurgeDirsDone, PurgeIndexesDone, PurgeDone, InboxDone
  <1>4. CASE Failure
    BY <1>4 DEF Failure, Crash, SweepInterrupted, SweepCaptcha, ArchiveFails, DownloadFails,
                ContractBroken, FetchBudget, FetchCaptcha, UnlinkFails, RemoveDirectoryFails,
                IndexRefused
  <1>5. ASSUME NEW e \in Docs, MergeRow(e) \/ PurgeRow(e) \/ ForgetPurged(e)
        PROVE  FALSE
    BY <1>5 DEF MergeRow, PurgeRow, ForgetPurged
  <1>6. ASSUME NEW e \in Docs, Reconcile(e)
        PROVE  \E f \in AllFiles : Unlink(d, f)
    BY <1>6 DEF Reconcile, ResolveRecovered, ResolveInterrupted, ChargeInterrupted, EnactFlag,
                ForgetRemoved, Settle, Unlink
  <1>7. ASSUME NEW e \in Docs, Fetch(e)
        PROVE  \E f \in AllFiles : ClearTarget(d, f)
    BY <1>7 DEF Fetch, StartDownload, RecordFiles, MarkAvailable, NowhereToLand, Condemn,
                ClearTarget, Place
  <1>8. ASSUME NEW x \in dates, PurgeDate(x)
        PROVE  \E f \in AllFiles : RemoveFile(x, d, f)
    BY <1>8 DEF PurgeDate, RemoveDirectory, RemoveIndex, WriteIndex, RemoveFile
  <1> QED
    BY <1>1, <1>2, <1>3, <1>4, <1>5, <1>6, <1>7, <1>8 DEF Next, Progress

\* Files of an available document leave the disk only with their expired day (purge.py):
\* no removal, no re-delivery and no crash takes them.
THEOREM ArchiveIsKept == Spec => OnlyPurgeTakesAvailable
  <1>1. ASSUME Inductive, Next, NEW d \in Docs, local[d] = "available",
  ~(disk[d] \subseteq disk'[d])
        PROVE  Expired(DeliveredOn[d], day)
    <2>1. ASSUME NEW f \in AllFiles, Unlink(d, f) PROVE FALSE
      BY <1>1, <2>1 DEF Unlink, Head, InState, Flagged, Inductive, Control, AtItsPoint, Flight,
                        ResolvesInFlight, EnactsFlags
    <2>2. ASSUME NEW f \in AllFiles, ClearTarget(d, f) PROVE FALSE
      BY <1>1, <2>2 DEF ClearTarget, Head, Inductive, Flight, FetchesInOrder
    <2>3. ASSUME NEW f \in AllFiles, NEW x \in dates, RemoveFile(x, d, f)
          PROVE  Expired(DeliveredOn[d], day)
      BY <1>1, <2>3, ConstantsAssumption
      DEF RemoveFile, On, Expired, Inductive, TypeOK, Control, PurgesExpired,
          ConstantsAssumption
    <2> QED
      BY <1>1, <2>1, <2>2, <2>3, DiskShrinks
  <1>2. Inductive /\ [Next]_vars =>
          [\A d \in Docs : local[d] = "available" /\ ~(disk[d] \subseteq disk'[d])
                => Expired(DeliveredOn[d], day)]_vars
    BY <1>1
  <1> QED
    BY InductiveInvariance, <1>2, PTL DEF Spec, OnlyPurgeTakesAvailable

-----------------------------------------------------------------------------
(* Commands go forward.                                                    *)

(***************************************************************************)
(* A command goes forward: each of its steps leaves it fewer stages, or    *)
(* fewer documents in this loop, or fewer dates, or fewer points of the    *)
(* document in hand, or fewer files to remove.  No document is taken up    *)
(* twice by one loop and no step is entered twice by one command, whatever *)
(* fails, so no command goes on for ever behind the lock.                  *)
(***************************************************************************)
StagesLeft ==
    [s \in Steps |->
        CASE s = "resolve" -> 10 [] s = "enact" -> 9 [] s = "sweep" -> 8 [] s = "merge" -> 7
          [] s = "enact_again" -> 6 [] s = "fetch" -> 5 [] s = "purge_dirs" -> 4
          [] s = "purge_indexes" -> 3 [] s = "purge_rows" -> 2 [] s = "inbox" -> 1
          [] OTHER -> 0]

PointsLeft ==
    [p \in Points |->
        CASE p = "loop" -> 5
          [] p \in {"unlink", "download"} -> 4
          [] p \in {"charge", "clearing"} -> 3
          [] p \in {"settle", "condemn", "placed"} -> 2
          [] OTHER -> 1]

\* Files still there that the removal in hand has not given up on.
Abandoned == IF at = "unlink" THEN survivors ELSE {}
Unremoved == {x \in Docs \X AllFiles : x[2] \in disk[x[1]] \ Abandoned}

Smaller(S, T) == S \subseteq T /\ S # T

Advance ==
    \/ StagesLeft[step'] < StagesLeft[step]
    \/ /\ step' = step
       /\ \/ Smaller(todo', todo)
          \/ /\ todo' = todo
             /\ \/ Smaller(dates', dates)
                \/ /\ dates' = dates
                   /\ \/ PointsLeft[at'] < PointsLeft[at]
                      \/ at' = at /\ Smaller(Unremoved', Unremoved)

\* While a command runs, whatever is not the source's or the calendar's doing is an advance.
CommandsAdvance ==
    [][step # "idle" => UNCHANGED <<manifest, archive, given, counter, scratch, last, faults>>
                          \/ Advance]_vars

\* What StagesLeft and PointsLeft answer.
LEMMA StagesInOrder ==
    /\ StagesLeft["resolve"] = 10 /\ StagesLeft["enact"] = 9 /\ StagesLeft["sweep"] = 8
    /\ StagesLeft["merge"] = 7 /\ StagesLeft["enact_again"] = 6 /\ StagesLeft["fetch"] = 5
    /\ StagesLeft["purge_dirs"] = 4 /\ StagesLeft["purge_indexes"] = 3
    /\ StagesLeft["purge_rows"] = 2 /\ StagesLeft["inbox"] = 1 /\ StagesLeft["idle"] = 0
BY DEF StagesLeft, Steps

LEMMA PointsInOrder ==
    /\ PointsLeft["loop"] = 5 /\ PointsLeft["unlink"] = 4 /\ PointsLeft["download"] = 4
    /\ PointsLeft["charge"] = 3 /\ PointsLeft["clearing"] = 3
    /\ PointsLeft["settle"] = 2 /\ PointsLeft["condemn"] = 2 /\ PointsLeft["placed"] = 2
    /\ PointsLeft["recorded"] = 1 /\ PointsLeft["forget"] = 1
BY DEF PointsLeft, Points

\* What is over leaves no stage.
LEMMA FinishAdvances ==
    ASSUME Inductive, step # "idle", NEW how, Finish(how)
    PROVE  Advance
<1>1. step' = "idle"
  BY DEF Finish, Enter
<1>2. StagesLeft[step] > 0
  BY StagesInOrder DEF Inductive, TypeOK, Steps
<1>3. QED
  BY <1>1, <1>2, StagesInOrder DEF Advance

\* A document dealt with is out of its loop.
LEMMA DoneAdvances ==
    ASSUME NEW d \in todo, Done(d)
    PROVE  Advance
BY DEF Done, Advance, Smaller

\* A file removed, or given up on.
LEMMA RemovalAdvances ==
    ASSUME Inductive, NEW d \in Docs, NEW f \in disk[d] \ Abandoned, UNCHANGED counter,
           \/ disk' = [disk EXCEPT ![d] = @ \ {f}] /\ UNCHANGED survivors
           \/ at = "unlink" /\ survivors' = survivors \union {f} /\ UNCHANGED disk
    PROVE  Advance
<1> USE DEF Inductive, TypeOK
<1>1. f \in AllFiles /\ <<d, f>> \in Unremoved
  BY DEF Unremoved
<1>2. <<d, f>> \notin Unremoved'
  BY <1>1 DEF Unremoved, Abandoned, counter
<1>3. Unremoved' \subseteq Unremoved
  <2>1. \A e \in Docs : disk'[e] \subseteq disk[e]
    OBVIOUS
  <2>2. Abandoned \subseteq Abandoned'
    BY DEF Abandoned, counter
  <2> QED
    BY <2>1, <2>2 DEF Unremoved
<1>4. QED
  BY <1>1, <1>2, <1>3 DEF Advance, Smaller, counter

\* One lemma per group of steps.
LEMMA ReconcileAdvances ==
    ASSUME Inductive, NEW d \in Docs, Reconcile(d)
    PROVE  Advance
<1> USE PointsInOrder DEF Inductive, TypeOK
<1>1. CASE ResolveRecovered(d) \/ Settle(d)
  BY <1>1, DoneAdvances DEF ResolveRecovered, Settle, Head
<1>2. CASE ResolveInterrupted(d)
  BY <1>2 DEF ResolveInterrupted, At, On, Advance
<1>3. CASE ChargeInterrupted(d)
  BY <1>3 DEF ChargeInterrupted, At, On, Advance
<1>4. CASE EnactFlag(d)
  <2>1. CASE rows[d] = {}
    BY <1>4, <2>1, DoneAdvances DEF EnactFlag, Head
  <2>2. CASE rows[d] # {}
    BY <1>4, <2>2 DEF EnactFlag, At, Advance
  <2> QED
    BY <2>1, <2>2
<1>5. CASE ForgetRemoved(d)
  <2>1. CASE step = "resolve"
    BY <1>5, <2>1 DEF ForgetRemoved, At, Advance
  <2>2. CASE step # "resolve"
    BY <1>5, <2>2, DoneAdvances DEF ForgetRemoved, Head
  <2> QED
    BY <2>1, <2>2
<1>6. ASSUME NEW f \in AllFiles, Unlink(d, f)
      PROVE  Advance
  BY <1>6, RemovalAdvances DEF Unlink, Abandoned, counter, scratch
<1>7. QED
  BY <1>1, <1>2, <1>3, <1>4, <1>5, <1>6 DEF Reconcile

LEMMA FetchAdvances ==
    ASSUME Inductive, NEW d \in Docs, Fetch(d)
    PROVE  Advance
<1> USE PointsInOrder DEF Inductive, TypeOK
<1>1. CASE MarkAvailable(d) \/ Condemn(d)
  BY <1>1, DoneAdvances DEF MarkAvailable, Condemn, Head
<1>2. CASE StartDownload(d) \/ RecordFiles(d) \/ NowhereToLand(d)
  BY <1>2 DEF StartDownload, RecordFiles, NowhereToLand, At, On, Advance
<1>3. ASSUME NEW f \in AllFiles, ClearTarget(d, f)
      PROVE  Advance
  <2>1. CASE at = "download"
    BY <1>3, <2>1 DEF ClearTarget, At, Advance
  <2>2. CASE at = "clearing"
    BY <1>3, <2>2, RemovalAdvances DEF ClearTarget, Abandoned, At, counter
  <2> QED
    BY <1>3, <2>1, <2>2 DEF ClearTarget
<1>4. ASSUME NEW p \in Places, NEW same \in BOOLEAN, Place(d, p, same)
      PROVE  Advance
  <2>1. at \in {"download", "clearing"} /\ At("placed")
    BY <1>4 DEF Place
  <2> QED
    BY <2>1 DEF At, Advance
<1>5. QED
  BY <1>1, <1>2, <1>3, <1>4 DEF Fetch

LEMMA PurgeAdvances ==
    ASSUME Inductive, NEW x \in dates, PurgeDate(x)
    PROVE  Advance
<1> USE DEF Inductive, TypeOK
<1>1. CASE RemoveDirectory(x) \/ RemoveIndex(x) \/ WriteIndex(x)
  BY <1>1 DEF RemoveDirectory, RemoveIndex, WriteIndex, Advance, Smaller
<1>2. ASSUME NEW d \in Docs, NEW f \in disk[d], RemoveFile(x, d, f)
      PROVE  Advance
  BY <1>2, RemovalAdvances DEF RemoveFile, On, Abandoned, counter, scratch
<1>3. QED
  BY <1>1, <1>2 DEF PurgeDate

LEMMA RowAdvances ==
    ASSUME Inductive, NEW d \in Docs, MergeRow(d) \/ PurgeRow(d) \/ ForgetPurged(d)
    PROVE  Advance
<1> USE PointsInOrder DEF Inductive, TypeOK
<1>1. CASE MergeRow(d)
  BY <1>1, DoneAdvances DEF MergeRow, Head
<1>2. CASE PurgeRow(d)
  <2>1. CASE Legal(local[d], "purged")
    BY <1>2, <2>1 DEF PurgeRow, At, On, Advance
  <2>2. CASE ~Legal(local[d], "purged")
    BY <1>2, <2>2, DoneAdvances DEF PurgeRow, Oldest
  <2> QED
    BY <2>1, <2>2
<1>3. CASE ForgetPurged(d)
  BY <1>3, DoneAdvances DEF ForgetPurged, Oldest
<1>4. QED
  BY <1>1, <1>2, <1>3

LEMMA BoundaryAdvances ==
    ASSUME Inductive, Boundary
    PROVE  Advance
<1> USE StagesInOrder DEF Inductive, TypeOK
<1>1. CASE ResolveDone \/ EnactDone \/ ReconcileDone
  BY <1>1 DEF ResolveDone, EnactDone, ReconcileDone, Enter, EnterInbox, On, Advance
<1>2. CASE Sweep \/ MergeDone \/ FetchDone
  BY <1>2 DEF Sweep, MergeDone, FetchDone, Enter, EnterPurge, On, Advance
<1>3. CASE PurgeDirsDone \/ PurgeIndexesDone \/ PurgeDone
  BY <1>3 DEF PurgeDirsDone, PurgeIndexesDone, PurgeDone, Enter, EnterInbox, On, Advance
<1>4. CASE InboxDone
  BY <1>4, FinishAdvances DEF InboxDone, On
<1>5. QED
  BY <1>1, <1>2, <1>3, <1>4 DEF Boundary

LEMMA FailureAdvances ==
    ASSUME Inductive, Failure
    PROVE  Advance
<1> USE StagesInOrder, PointsInOrder DEF Inductive, TypeOK
<1>1. CASE Crash \/ SweepCaptcha
  BY <1>1, FinishAdvances DEF Crash, SweepCaptcha, On
<1>2. CASE SweepInterrupted
  BY <1>2 DEF SweepInterrupted, Enter, EnterPurge, On, Advance
<1>3. ASSUME NEW d \in Docs, ArchiveFails(d)
      PROVE  Advance
  BY <1>3, DoneAdvances DEF ArchiveFails, Head
<1>4. ASSUME NEW d \in Docs, DownloadFails(d) \/ ContractBroken(d)
      PROVE  Advance
  BY <1>4 DEF DownloadFails, ContractBroken, At, On, Advance
<1>5. ASSUME NEW d \in Docs, FetchBudget(d)
      PROVE  Advance
  BY <1>5 DEF FetchBudget, Enter, EnterPurge, On, Advance
<1>6. ASSUME NEW d \in Docs, FetchCaptcha(d)
      PROVE  Advance
  BY <1>6, FinishAdvances DEF FetchCaptcha, On
<1>7. ASSUME NEW d \in Docs, NEW f \in AllFiles, UnlinkFails(d, f)
      PROVE  Advance
  BY <1>7, RemovalAdvances DEF UnlinkFails, Abandoned, archive, counter
<1>8. ASSUME NEW x \in dates, RemoveDirectoryFails(x) \/ IndexRefused(x)
      PROVE  Advance
  BY <1>8 DEF RemoveDirectoryFails, IndexRefused, Advance, Smaller
<1>9. QED
  BY <1>1, <1>2, <1>3, <1>4, <1>5, <1>6, <1>7, <1>8 DEF Failure

\* Every step of every command, the failing ones included, goes down that order.
LEMMA CommandsGoForward == Spec => CommandsAdvance
<1> DEFINE A == step # "idle" =>
                  UNCHANGED <<manifest, archive, given, counter, scratch, last, faults>>
                    \/ Advance
<1>1. ASSUME Inductive, Next
      PROVE  A
  <2>1. CASE Environment
    BY <2>1 DEF Environment, NextDay, Publish, Restate
  <2>2. ASSUME NEW c \in Commands, Begin(c)
        PROVE  A
    BY <2>2 DEF Begin
  <2>3. CASE Progress
    BY <1>1, <2>3, ReconcileAdvances, FetchAdvances, RowAdvances, PurgeAdvances,
       BoundaryAdvances DEF Progress
  <2>4. CASE Failure
    BY <1>1, <2>4, FailureAdvances
  <2>5. QED
    BY <1>1, <2>1, <2>2, <2>3, <2>4 DEF Next
<1>2. ASSUME UNCHANGED vars
      PROVE  A
  BY <1>2 DEF vars
<1>3. QED
  BY <1>1, <1>2, InductiveInvariance, PTL DEF Spec, CommandsAdvance

(***************************************************************************)
(* The order a command goes down is well founded when there are finitely   *)
(* many documents and files: nothing can go down it for ever.              *)
(***************************************************************************)
PointRank == <<PointsLeft[at], Unremoved>>
DateRank  == <<dates, PointRank>>
LoopRank  == <<todo, DateRank>>
Rank      == <<StagesLeft[step], LoopRank>>

Removals    == Docs \X AllFiles
Below       == {p \in Nat \X Nat : p[1] < p[2]}
PointOrder  == LexPairOrdering(Below, StrictSubsetOrdering(Removals), Nat, SUBSET Removals)
PointRanks  == Nat \X (SUBSET Removals)
DateOrder   == LexPairOrdering(StrictSubsetOrdering(DatesOf(Docs)), PointOrder,
                               SUBSET DatesOf(Docs), PointRanks)
DateRanks   == (SUBSET DatesOf(Docs)) \X PointRanks
LoopOrder   == LexPairOrdering(StrictSubsetOrdering(Docs), DateOrder, SUBSET Docs, DateRanks)
LoopRanks   == (SUBSET Docs) \X DateRanks
RankOrder   == LexPairOrdering(Below, LoopOrder, Nat, LoopRanks)
Ranks       == Nat \X LoopRanks

\* The numbers below a number run out.
LEMMA BelowIsWellFounded == IsWellFoundedOn(Below, Nat)
<1>1. Below = OpToRel(<, Nat)
  BY Zenon DEF Below, OpToRel
<1>2. QED
  BY <1>1, NatLessThanWellFounded, Zenon

\* So do the subsets of a finite set, taken smaller and smaller.
LEMMA InclusionIsWellFounded ==
    ASSUME NEW S, IsFiniteSet(S)
    PROVE  IsWellFoundedOn(StrictSubsetOrdering(S), SUBSET S)
  BY FS_FiniteSubsetsOfFinite, FS_StrictSubsetOrderingWellFounded, Zenon

\* Finitely many documents have finitely many dates.
LEMMA DatesAreFinite ==
    ASSUME IsFiniteSet(Docs)
    PROVE  IsFiniteSet(DatesOf(Docs))
<1> DEFINE delivery == [d \in Docs |-> DeliveredOn[d]]
<1>1. delivery \in Surjection(Docs, DatesOf(Docs))
  BY DEF Surjection, DatesOf
<1>2. QED
  BY <1>1, FS_Surjection, Zenon

\* Halves of a pair that run out make pairs that do, level by level.
LEMMA RankOrderIsWellFounded ==
    ASSUME IsFiniteSet(Docs), IsFiniteSet(Places), IsFiniteSet(Members)
    PROVE  IsWellFoundedOn(RankOrder, Ranks)
<1>1. IsFiniteSet(Removals)
  <2>1. IsFiniteSet(Places \X Members)
    BY FS_Product, Zenon
  <2>2. IsFiniteSet(Docs \X (Places \X Members))
    BY <2>1, FS_Product, Zenon
  <2> QED
    BY <2>2 DEF Removals, AllFiles
<1>2. IsWellFoundedOn(PointOrder, PointRanks)
  <2>1. IsWellFoundedOn(StrictSubsetOrdering(Removals), SUBSET Removals)
    BY <1>1, InclusionIsWellFounded, Zenon
  <2> QED
    BY <2>1, BelowIsWellFounded, WFLexPairOrdering, Zenon DEF PointOrder, PointRanks
<1>3. IsWellFoundedOn(DateOrder, DateRanks)
  <2>1. IsWellFoundedOn(StrictSubsetOrdering(DatesOf(Docs)), SUBSET DatesOf(Docs))
    BY DatesAreFinite, InclusionIsWellFounded, Zenon
  <2> QED
    BY <1>2, <2>1, WFLexPairOrdering, Zenon DEF DateOrder, DateRanks
<1>4. IsWellFoundedOn(LoopOrder, LoopRanks)
  <2>1. IsWellFoundedOn(StrictSubsetOrdering(Docs), SUBSET Docs)
    BY InclusionIsWellFounded, Zenon
  <2> QED
    BY <1>3, <2>1, WFLexPairOrdering, Zenon DEF LoopOrder, LoopRanks
<1>5. QED
  BY <1>4, BelowIsWellFounded, WFLexPairOrdering, Zenon DEF RankOrder, Ranks

\* The dates a loop works through are delivery dates.
LEMMA DatesAreDelivered == Spec => [](dates \subseteq DatesOf(Docs))
<1> DEFINE D == dates \subseteq DatesOf(Docs)
<1>1. Init => D
  BY DEF Init
<1>2. ASSUME D, Next
      PROVE  D'
  <2>1. CASE Environment
    BY <1>2, <2>1 DEF Environment, NextDay, Publish, Restate, counter
  <2>2. ASSUME NEW c \in Commands, Begin(c)
        PROVE  D'
    BY <2>2 DEF Begin, Enter, EnterPurge, DatesOf
  <2>3. ASSUME NEW d \in Docs, Reconcile(d) \/ MergeRow(d) \/ Fetch(d) \/ PurgeRow(d) \/ ForgetPurged(d)
        PROVE  D'
    <3>1. UNCHANGED dates
      <4>1. CASE Reconcile(d)
        BY <4>1 DEF Reconcile, ResolveRecovered, ResolveInterrupted, ChargeInterrupted, EnactFlag,
           ForgetRemoved, Settle, Unlink, At, Done, counter
      <4>2. CASE MergeRow(d) \/ PurgeRow(d) \/ ForgetPurged(d)
        BY <4>2 DEF MergeRow, PurgeRow, ForgetPurged, At, Done
      <4>3. CASE Fetch(d)
        BY <4>3 DEF Fetch, StartDownload, RecordFiles, MarkAvailable, NowhereToLand, Condemn,
           ClearTarget, Place, At, Done
      <4> QED
        BY <2>3, <4>1, <4>2, <4>3
    <3> QED
      BY <1>2, <3>1
  <2>4. ASSUME NEW x \in dates, PurgeDate(x)
        PROVE  D'
    BY <1>2, <2>4 DEF PurgeDate, RemoveDirectory, RemoveIndex, WriteIndex, RemoveFile, counter
  <2>5. CASE Boundary
    BY <1>2, <2>5 DEF Boundary, ResolveDone, EnactDone, ReconcileDone, Sweep, MergeDone, FetchDone,
       PurgeDirsDone, PurgeIndexesDone, PurgeDone, InboxDone, Enter, EnterPurge, EnterInbox,
       Finish, DatesOf
  <2>6. CASE Failure
    BY <1>2, <2>6 DEF Failure, Crash, SweepInterrupted, SweepCaptcha, ArchiveFails, DownloadFails,
       ContractBroken, FetchBudget, FetchCaptcha, UnlinkFails, RemoveDirectoryFails, IndexRefused,
       Enter, EnterPurge, Finish, At, Done, DatesOf, counter
  <2>7. QED
    BY <1>2, <2>1, <2>2, <2>3, <2>4, <2>5, <2>6 DEF Next, Progress
<1>3. ASSUME D, UNCHANGED vars
      PROVE  D'
  BY <1>3 DEF vars, counter
<1>4. QED
  BY <1>1, <1>2, <1>3, PTL DEF Spec

\* What a command has left, level by level, is in its set.
Ranked ==
    /\ PointsLeft[at] \in Nat /\ Unremoved \in SUBSET Removals /\ PointRank \in PointRanks
    /\ dates \in SUBSET DatesOf(Docs) /\ DateRank \in DateRanks
    /\ todo \in SUBSET Docs /\ LoopRank \in LoopRanks
    /\ StagesLeft[step] \in Nat /\ Rank \in Ranks

LEMMA RankIsARank ==
    ASSUME TypeOK, dates \subseteq DatesOf(Docs)
    PROVE  Ranked
<1>1. StagesLeft[step] \in Nat /\ PointsLeft[at] \in Nat
  BY StagesInOrder, PointsInOrder DEF TypeOK, Steps, Points
<1>2. Unremoved \in SUBSET Removals /\ todo \in SUBSET Docs /\ dates \in SUBSET DatesOf(Docs)
  BY DEF TypeOK, Unremoved, Removals
<1>3. PointRank \in PointRanks
  BY <1>1, <1>2 DEF PointRank, PointRanks
<1>4. DateRank \in DateRanks
  BY <1>2, <1>3 DEF DateRank, DateRanks
<1>5. LoopRank \in LoopRanks
  BY <1>2, <1>4 DEF LoopRank, LoopRanks
<1>6. QED
  BY <1>1, <1>2, <1>3, <1>4, <1>5 DEF Ranked, Rank, Ranks

\* A pair is lower when its first half is, or when its second is and the first is the same.
LEMMA LowerPair ==
    ASSUME NEW R1, NEW R2, NEW S1, NEW S2,
           NEW a \in S1, NEW b \in S1, NEW x \in S2, NEW y \in S2,
           \/ <<a, b>> \in R1
           \/ a = b /\ <<x, y>> \in R2
    PROVE  <<<<a, x>>, <<b, y>>>> \in LexPairOrdering(R1, R2, S1, S2)
BY DEF LexPairOrdering

LEMMA LowerSet ==
    ASSUME NEW S, NEW T \in SUBSET S, NEW U \in SUBSET S, Smaller(T, U)
    PROVE  <<T, U>> \in StrictSubsetOrdering(S)
BY DEF Smaller, StrictSubsetOrdering

LEMMA LowerNumber ==
    ASSUME NEW m \in Nat, NEW n \in Nat, m < n
    PROVE  <<m, n>> \in Below
BY DEF Below

\* An advance goes down the order at one level and keeps the levels above.
LEMMA AdvanceLowersRank ==
    ASSUME Ranked, Ranked', Advance
    PROVE  <<Rank', Rank>> \in RankOrder
<1> USE DEF Ranked
<1>1. ASSUME \/ PointsLeft[at'] < PointsLeft[at]
             \/ at' = at /\ Smaller(Unremoved', Unremoved)
      PROVE  <<PointRank', PointRank>> \in PointOrder
  BY <1>1, LowerPair, LowerSet, LowerNumber DEF PointOrder, PointRank
<1>2. ASSUME \/ Smaller(dates', dates)
             \/ dates' = dates /\ <<PointRank', PointRank>> \in PointOrder
      PROVE  <<DateRank', DateRank>> \in DateOrder
  BY <1>2, LowerPair, LowerSet DEF DateOrder, DateRank
<1>3. ASSUME \/ Smaller(todo', todo)
             \/ todo' = todo /\ <<DateRank', DateRank>> \in DateOrder
      PROVE  <<LoopRank', LoopRank>> \in LoopOrder
  BY <1>3, LowerPair, LowerSet DEF LoopOrder, LoopRank
<1>4. CASE StagesLeft[step'] < StagesLeft[step]
  <2>1. <<StagesLeft[step'], StagesLeft[step]>> \in Below
    BY <1>4, LowerNumber
  <2> QED
    BY <2>1 DEF RankOrder, Rank, Ranks, LexPairOrdering
<1>5. CASE step' = step /\ <<LoopRank', LoopRank>> \in LoopOrder
  BY <1>5, LowerPair DEF RankOrder, Rank
<1>6. CASE step' = step /\ ~(<<LoopRank', LoopRank>> \in LoopOrder)
  BY <1>1, <1>2, <1>3, <1>4, <1>6 DEF Advance
<1>7. CASE step' # step
  BY <1>4, <1>7 DEF Advance
<1>8. QED
  BY <1>5, <1>6, <1>7

(***************************************************************************)
(* No command runs for ever.  With finitely many documents and files, each *)
(* step of a command (pipeline/steps.py and the loops it calls), failing   *)
(* or not, goes down an order nothing can go down for ever: no loop takes  *)
(* a document up again, whatever is refused, interrupted or put back.      *)
(***************************************************************************)
THEOREM NoCommandRunsForEver ==
    ASSUME IsFiniteSet(Docs), IsFiniteSet(Places), IsFiniteSet(Members)
    PROVE  /\ IsWellFoundedOn(RankOrder, Ranks)
           /\ Spec => /\ [](Rank \in Ranks)
                      /\ [][step # "idle" =>
                               UNCHANGED <<manifest, archive, given, counter, scratch, last, faults>>
                                 \/ <<Rank', Rank>> \in RankOrder]_vars
<1>1. Spec => []Ranked
  BY TypeCorrectness, DatesAreDelivered, RankIsARank, PTL
<1>2. Ranked => Rank \in Ranks
  BY DEF Ranked
<1>3. ASSUME Ranked, Ranked',
             [step # "idle" =>
                 UNCHANGED <<manifest, archive, given, counter, scratch, last, faults>> \/ Advance]_vars
      PROVE  [step # "idle" =>
                 UNCHANGED <<manifest, archive, given, counter, scratch, last, faults>>
                   \/ <<Rank', Rank>> \in RankOrder]_vars
  BY <1>3, AdvanceLowersRank
<1>4. Spec => /\ [](Rank \in Ranks)
              /\ [][step # "idle" =>
                       UNCHANGED <<manifest, archive, given, counter, scratch, last, faults>>
                         \/ <<Rank', Rank>> \in RankOrder]_vars
  BY <1>1, <1>2, <1>3, CommandsGoForward, PTL DEF CommandsAdvance
<1>5. QED
  BY <1>4, RankOrderIsWellFounded
=============================================================================
