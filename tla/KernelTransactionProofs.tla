----------------------- MODULE KernelTransactionProofs -----------------------
(* What KernelTransaction's runs check on small instances, proved for every *)
(* set of kernels, every start state and every number of user actions.      *)
EXTENDS KernelTransaction, TLAPS

LEMMA KindOf ==
    ASSUME NEW d, NEW k
    PROVE  Kind(d, k) \in Kinds
BY DEF Kind, Kinds

LEMMA ReadKernelsType ==
    ASSUME NEW h \in Nat, NEW d \in Disk
    PROVE  ReadKernels(h, d) \in Views
BY DEF ReadKernels, Views

LEMMA BuildTreeType ==
    ASSUME NEW v \in Views
    PROVE  BuildTree(v) \in Rows
<1>1. Fixed(v.disk) \in SUBSET Kernels
  BY DEF Fixed, Disk, Views
<1>2. [k \in Kernels |-> Kind(v.disk, k)] \in [Kernels -> Kinds]
  BY KindOf
<1> QED
  BY <1>1, <1>2 DEF BuildTree, Rows, Views

LEMMA MarkUpdatesType ==
    ASSUME NEW v \in Views
    PROVE  MarkUpdates(v) \in Views
BY DEF MarkUpdates, Views, Updates, Disk

LEMMA DiskChanges ==
    ASSUME NEW d \in Disk, NEW ks \in SUBSET Kernels
    PROVE  Added(d, ks) \in Disk /\ Dropped(d, ks) \in Disk
BY DEF Added, Dropped, Disk

LEMMA InitType == Init => TypeOK
<1> SUFFICES ASSUME Init PROVE TypeOK
  OBVIOUS
<1>1. DiskType
  BY KernelAssumption DEF Init, DiskType
<1>2. AlpmType
  <2>1. ReadKernels(1, disk) \in Views
    BY <1>1, ReadKernelsType DEF DiskType
  <2> QED
    BY <2>1, MarkUpdatesType DEF Init, AlpmType
<1>3. UiType
  BY <1>2, BuildTreeType DEF Init, UiType, AlpmType, UiPlaces, NoJob, Jobs
<1>4. WorkType
  BY <1>1 DEF Init, WorkType, DiskType, WorkPlaces
<1>5. SharedType
  BY DEF Init, SharedType, NoRaw
<1>6. HistType
  BY DEF Init, HistType
<1> QED
  BY <1>1, <1>2, <1>3, <1>4, <1>5, <1>6 DEF TypeOK

USE DEF uiVars, workVars, alpmVars, flagVars, diskVars, histVars, UserActs

LEMMA ClicksType ==
    ASSUME TypeOK, Clicks
    PROVE  TypeOK'
<1> USE DEF TypeOK
<1>1. ASSUME NEW k \in Kernels, Toggle(k) PROVE TypeOK'
  <2> DEFINE raw == Raw(k, tree.shown[k])
  <2>1. raw \in Raws
    BY DEF Raw, Raws
  <2>2. \A n \in Nat : RemoveOne(n) \in Nat /\ n + 1 \in Nat
    BY DEF RemoveOne
  <2>3. changes[raw] \in Nat
    BY <2>1 DEF SharedType
  <2>4. SharedType'
    BY <1>1, <2>1, <2>2, <2>3 DEF Toggle, SharedType
  <2>5. tree' \in Rows
    BY <1>1 DEF Toggle, UiType, Rows
  <2>6. UiType'
    BY <1>1, <2>5 DEF Toggle, UiType
  <2> QED
    BY <1>1, <2>4, <2>6 DEF Toggle, WorkType, AlpmType, DiskType, HistType
<1>2. ASSUME NEW k \in Kernels, AddRepo(k) PROVE TypeOK'
  <2>1. disk' \in Disk
    BY <1>2 DEF AddRepo, Disk, DiskType
  <2>2. UiType'
    BY <1>2 DEF AddRepo, UiType, UiPlaces
  <2>3. WorkType' /\ AlpmType' /\ SharedType' /\ HistType'
    BY <1>2 DEF AddRepo, WorkType, AlpmType, SharedType, HistType
  <2> QED
    BY <1>2, <2>1, <2>2, <2>3 DEF AddRepo, DiskType
<1>3. ASSUME NEW k \in Kernels, NEW op \in {"dir", "precompiled"},
             NEW then \in {"ready", "okcheck"}, StartJob(op, {k}, then), UserActs,
             dirRow' \in BOOLEAN
      PROVE  TypeOK'
  <2>1. job' \in Jobs
    BY <1>3 DEF StartJob, Jobs
  <2> QED
    BY <1>3, <2>1 DEF StartJob, UiType, UiPlaces, WorkType, AlpmType, SharedType, DiskType, HistType
<1>4. ASSUME NEW k \in Kernels, DirInstall(k) PROVE TypeOK'
  BY <1>3, <1>4 DEF DirInstall, UiType
<1>5. ASSUME NEW k \in Kernels, PrecompiledInstall(k) PROVE TypeOK'
  BY <1>3, <1>5 DEF PrecompiledInstall
<1>6. ASSUME NEW k \in Kernels, OtherPacman(k) PROVE TypeOK'
  BY <1>6, DiskChanges
    DEF OtherPacman, UiType, WorkType, AlpmType, SharedType, DiskType, HistType
<1>7. ASSUME NEW isDir \in BOOLEAN, SelectRow(isDir) PROVE TypeOK'
  BY <1>7 DEF SelectRow, UiType, WorkType, AlpmType, SharedType, DiskType, HistType
<1>8. CASE ExecuteClick
  BY <1>8 DEF ExecuteClick, UiType, UiPlaces, WorkType, AlpmType, SharedType, DiskType, HistType
<1>9. CASE RefreshClick
  BY <1>9 DEF RefreshClick, UiType, UiPlaces, WorkType, AlpmType, SharedType, DiskType, HistType
<1>10. CASE CloseClick
  BY <1>10 DEF CloseClick, UiType, UiPlaces, WorkType, AlpmType, SharedType, DiskType, HistType
<1> QED
  BY <1>1, <1>2, <1>4, <1>5, <1>6, <1>7, <1>8, <1>9, <1>10 DEF Clicks

LEMMA UiStepsType ==
    ASSUME TypeOK, UiSteps
    PROVE  TypeOK'
<1> USE DEF TypeOK
<1>1. CASE GateDecision \/ ExecuteStore \/ CloseStop \/ CloseRelease
  <2>1. CASE GateDecision
    BY <2>1 DEF GateDecision, UiPlaces, UiType, WorkType, AlpmType, SharedType, DiskType, HistType
  <2>2. CASE ExecuteStore
    BY <2>2 DEF ExecuteStore, UiPlaces, UiType, WorkType, AlpmType, SharedType, DiskType, HistType
  <2>3. CASE CloseStop
    BY <2>3, ZenonT(30) DEF CloseStop, LoopAfterClose, UiPlaces, UiType, WorkType, AlpmType, SharedType, DiskType, HistType
  <2>4. CASE CloseRelease
    BY <2>4 DEF CloseRelease, UiPlaces, UiType, WorkType, AlpmType, SharedType, DiskType, HistType
  <2> QED
    BY <1>1, <2>1, <2>2, <2>3, <2>4
<1>2. CASE ExecuteNotify
  <2>1. wpc' \in WorkPlaces
    BY <1>2 DEF ExecuteNotify, NotifiedPlace, WorkType, WorkPlaces
  <2> QED
    BY <1>2, <2>1 DEF ExecuteNotify, UiType, UiPlaces, WorkType, AlpmType, SharedType,
                      DiskType, HistType
<1>3. CASE CloseNotify
  <2>1. wpc' \in WorkPlaces
    BY <1>3 DEF CloseNotify, WorkType, WorkPlaces
  <2> QED
    BY <1>3, <2>1 DEF CloseNotify, UiType, UiPlaces, WorkType, AlpmType, SharedType,
                      DiskType, HistType
<1>4. CASE JobEnds
  <2>1. disk' \in Disk
    BY <1>4, DiskChanges DEF JobEnds, DiskType, UiType, Jobs
  <2>2. UiType'
    BY <1>4 DEF JobEnds, UiType, UiPlaces, Jobs, NoJob
  <2>3. WorkType' /\ AlpmType' /\ SharedType' /\ HistType'
    BY <1>4 DEF JobEnds, WorkType, AlpmType, SharedType, HistType
  <2> QED
    BY <1>4, <2>1, <2>2, <2>3 DEF JobEnds, DiskType
<1>5. CASE Reparse
  <2>1. AlpmType'
    <3>1. parses + 1 \in Nat /\ 0 \in Nat /\ live \subseteq Nat
      BY DEF AlpmType
    <3> QED
      BY <1>5, <3>1 DEF Reparse, AlpmType
  <2>2. UiType'
    BY <1>5 DEF Reparse, UiType, UiPlaces
  <2> QED
    BY <1>5, <2>1, <2>2 DEF Reparse, WorkType, SharedType, DiskType, HistType
<1>6. CASE Fetch
  <2>1. view' \in Views
    BY <1>6, ReadKernelsType DEF Fetch, AlpmType, DiskType
  <2> QED
    BY <1>6, <2>1 DEF Fetch, UiType, UiPlaces, WorkType, AlpmType, SharedType, DiskType, HistType
<1>7. CASE Rebuild
  <2>1. view' \in Views /\ tree' \in Rows
    BY <1>7, MarkUpdatesType, BuildTreeType DEF Rebuild, AlpmType
  <2> QED
    BY <1>7, <2>1, ZenonT(30) DEF Rebuild, UiType, UiPlaces, WorkType, AlpmType, SharedType, DiskType, HistType
<1>8. CASE Purge
  <2>1. tree' \in Rows
    BY <1>8 DEF Purge, UiType, Rows, Kinds
  <2>2. UiType'
    BY <1>8, <2>1 DEF Purge, UiType, UiPlaces
  <2> QED
    BY <1>8, <2>2 DEF Purge, WorkType, AlpmType, SharedType, DiskType, HistType
<1>9. CASE OkCheck
  BY <1>9 DEF OkCheck, UiType, UiPlaces, WorkType, AlpmType, SharedType, DiskType, HistType
<1> QED
  BY <1>1, <1>2, <1>3, <1>4, <1>5, <1>6, <1>7, <1>8, <1>9 DEF UiSteps

LEMMA WorkerStepsType ==
    ASSUME TypeOK, WorkerSteps \/ SpuriousWake
    PROVE  TypeOK'
<1> USE DEF TypeOK, Transacting, WorkPlaces
<1>1. CASE Loop \/ Acquire \/ Predicate \/ Sleep \/ CheckFlags \/ SetOk \/ Unlock \/ SpuriousWake
  <2>1. CASE Loop
    BY <2>1 DEF Loop, UiType, WorkType, AlpmType, SharedType, DiskType, HistType
  <2>2. CASE Acquire
    BY <2>2 DEF Acquire, UiType, WorkType, AlpmType, SharedType, DiskType, HistType
  <2>3. CASE Predicate
    BY <2>3 DEF Predicate, UiType, WorkType, AlpmType, SharedType, DiskType, HistType
  <2>4. CASE Sleep
    BY <2>4 DEF Sleep, UiType, WorkType, AlpmType, SharedType, DiskType, HistType
  <2>5. CASE CheckFlags
    BY <2>5 DEF CheckFlags, UiType, WorkType, AlpmType, SharedType, DiskType, HistType
  <2>6. CASE SetOk
    BY <2>6 DEF SetOk, UiType, WorkType, AlpmType, SharedType, DiskType, HistType
  <2>7. CASE Unlock
    BY <2>7 DEF Unlock, UiType, WorkType, AlpmType, SharedType, DiskType, HistType
  <2>8. CASE SpuriousWake
    BY <2>8 DEF SpuriousWake, UiType, WorkType, AlpmType, SharedType, DiskType, HistType
  <2> QED
    BY <1>1, <2>1, <2>2, <2>3, <2>4, <2>5, <2>6, <2>7, <2>8
<1>2. CASE CopyChanges
  BY <1>2, ZenonT(30) DEF CopyChanges, Listed, UiType, Rows, WorkType, AlpmType, SharedType, DiskType, HistType
<1>3. CASE Enlist
  <2>1. Installable(copied) \subseteq Kernels /\ Removable(copied) \subseteq Kernels
    BY DEF Installable, Removable, Selected
  <2> QED
    BY <1>3, <2>1 DEF Enlist, UiType, WorkType, AlpmType, SharedType, DiskType, HistType
<1>4. CASE StartInstall \/ StartRemove
  <2>1. CASE StartInstall
    BY <2>1 DEF StartInstall, PacmanStarts, UiType, WorkType, AlpmType, SharedType, DiskType, HistType
  <2>2. CASE StartRemove
    BY <2>2 DEF StartRemove, PacmanStarts, UiType, WorkType, AlpmType, SharedType, DiskType, HistType
  <2> QED
    BY <1>4, <2>1, <2>2
<1>5. CASE EndInstall \/ EndRemove
  <2>1. disk' \in Disk
    BY <1>5, DiskChanges DEF EndInstall, EndRemove, PacmanEnds, WorkType, DiskType
  <2>2. wpc' \in WorkPlaces /\ dbLock' = "free"
    BY <1>5 DEF EndInstall, EndRemove, PacmanEnds
  <2>3. UNCHANGED <<uiVars, copied, toInstall, toRemove, temp, changed, alpmVars, flagVars,
                    changes, histVars, acts>>
    BY <1>5 DEF EndInstall, EndRemove, PacmanEnds
  <2> QED
    BY <2>1, <2>2, <2>3 DEF UiType, WorkType, AlpmType, SharedType, DiskType, HistType
<1>6. CASE Probe
  <2>1. parses + 1 \in Nat /\ 0 \in Nat /\ live \subseteq Nat
    BY DEF AlpmType
  <2>2. AlpmType'
    BY <1>6, <2>1 DEF Probe, AlpmType
  <2>3. temp' \in [handle : Nat, disk : Disk]
    <3>1. temp' = [handle |-> parses + 1, disk |-> disk] \/ temp' = [handle |-> 0, disk |-> disk]
      BY <1>6 DEF Probe
    <3> QED
      BY <2>1, <3>1 DEF DiskType
  <2>4. changed' \in BOOLEAN
    BY <1>6 DEF Probe
  <2>5. WorkType'
    BY <1>6, <2>3, <2>4 DEF Probe, WorkType
  <2> QED
    BY <1>6, <2>2, <2>5 DEF Probe, UiType, SharedType, DiskType, HistType
<1>7. CASE Swap
  <2>1. ReadKernels(temp.handle, temp.disk) \in Views
    BY ReadKernelsType DEF WorkType
  <2>2. AlpmType'
    BY <1>7, <2>1 DEF Swap, NextHandle, NextView, AlpmType, WorkType
  <2> QED
    BY <1>7, <2>2 DEF Swap, UiType, WorkType, SharedType, DiskType, HistType
<1>8. CASE ClearLists \/ StopRunning
  <2>1. CASE ClearLists
    BY <2>1 DEF ClearLists, RemovalAfter, NoRaw, UiType, WorkType, AlpmType, SharedType, DiskType, HistType
  <2>2. CASE StopRunning
    BY <2>2, ZenonT(30) DEF StopRunning, RunningAfter, UiType, WorkType, AlpmType, SharedType, DiskType, HistType
  <2> QED
    BY <1>8, <2>1, <2>2
<1> QED
  BY <1>1, <1>2, <1>3, <1>4, <1>5, <1>6, <1>7, <1>8
    DEF WorkerSteps, WorkerStepsOut, WorkerTransaction

LEMMA TypeStep == TypeOK /\ [Next]_vars => TypeOK'
<1>1. ASSUME TypeOK, UNCHANGED vars PROVE TypeOK'
  BY <1>1 DEF vars, TypeOK, UiType, WorkType, AlpmType, SharedType, DiskType, HistType
<1> QED
  BY <1>1, ClicksType, UiStepsType, WorkerStepsType DEF Next

\* Every variable keeps its type, whatever the instance.
THEOREM TypeCorrect == Spec => []TypeOK
  BY InitType, TypeStep, PTL DEF Spec

LEMMA ClicksDiscipline ==
    ASSUME TypeOK, Discipline, Clicks
    PROVE  Discipline'
<1> USE DEF TypeOK, UiType, WorkType, SharedType, Discipline, WorkerHoldsLock, TransactionRuns, ListsEmptyOutside, DbLockOwned, RefreshWhileIdle, ClosedStops, Transacting
<1>1. ASSUME NEW k \in Kernels, Toggle(k) PROVE Discipline'
  BY <1>1 DEF Toggle
<1>2. ASSUME NEW k \in Kernels, AddRepo(k) PROVE Discipline'
  BY <1>2 DEF AddRepo
<1>3. ASSUME NEW k \in Kernels, DirInstall(k) PROVE Discipline'
  BY <1>3 DEF DirInstall, StartJob
<1>4. ASSUME NEW k \in Kernels, PrecompiledInstall(k) PROVE Discipline'
  BY <1>4 DEF PrecompiledInstall, StartJob
<1>5. ASSUME NEW k \in Kernels, OtherPacman(k) PROVE Discipline'
  BY <1>5 DEF OtherPacman
<1>6. ASSUME NEW isDir \in BOOLEAN, SelectRow(isDir) PROVE Discipline'
  BY <1>6 DEF SelectRow
<1>7. CASE ExecuteClick
  BY <1>7 DEF ExecuteClick
<1>8. CASE RefreshClick
  BY <1>8 DEF RefreshClick, RefreshAllowed
<1>9. CASE CloseClick
  BY <1>9 DEF CloseClick
<1> QED
  BY <1>1, <1>2, <1>3, <1>4, <1>5, <1>6, <1>7, <1>8, <1>9 DEF Clicks

LEMMA UiStepsDiscipline ==
    ASSUME TypeOK, Discipline, UiSteps
    PROVE  Discipline'
<1> USE DEF TypeOK, UiType, WorkType, SharedType, Discipline, WorkerHoldsLock, TransactionRuns, ListsEmptyOutside, DbLockOwned, RefreshWhileIdle, ClosedStops, Transacting
<1>1. CASE GateDecision
  BY <1>1 DEF GateDecision
<1>2. CASE ExecuteStore
  BY <1>2 DEF ExecuteStore
<1>3. CASE ExecuteNotify
  BY <1>3 DEF ExecuteNotify, NotifiedPlace
<1>4. CASE JobEnds
  BY <1>4 DEF JobEnds
<1>5. CASE Reparse
  BY <1>5 DEF Reparse, UiMayLock
<1>6. CASE Fetch
  BY <1>6 DEF Fetch, UiMayLock
<1>7. CASE Rebuild
  BY <1>7 DEF Rebuild
<1>8. CASE Purge
  BY <1>8 DEF Purge
<1>9. CASE OkCheck
  BY <1>9 DEF OkCheck
<1>10. CASE CloseStop
  BY <1>10 DEF CloseStop, LoopAfterClose
<1>11. CASE CloseNotify
  BY <1>11 DEF CloseNotify
<1>12. CASE CloseRelease
  BY <1>12 DEF CloseRelease
<1> QED
  BY <1>1, <1>2, <1>3, <1>4, <1>5, <1>6, <1>7, <1>8, <1>9, <1>10, <1>11, <1>12 DEF UiSteps

LEMMA WorkerStepsDiscipline ==
    ASSUME TypeOK, Discipline, WorkerSteps \/ SpuriousWake
    PROVE  Discipline'
<1> USE DEF TypeOK, UiType, WorkType, SharedType, Discipline, WorkerHoldsLock, TransactionRuns, ListsEmptyOutside, DbLockOwned, RefreshWhileIdle, ClosedStops, Transacting
<1>1. CASE Loop
  BY <1>1 DEF Loop
<1>2. CASE Acquire
  BY <1>2 DEF Acquire
<1>3. CASE Predicate
  BY <1>3 DEF Predicate
<1>4. CASE Sleep
  BY <1>4 DEF Sleep
<1>5. CASE SpuriousWake
  BY <1>5 DEF SpuriousWake
<1>6. CASE CheckFlags
  BY <1>6 DEF CheckFlags
<1>7. CASE CopyChanges
  BY <1>7 DEF CopyChanges
<1>8. CASE Enlist
  BY <1>8 DEF Enlist
<1>9. CASE StartInstall
  BY <1>9 DEF StartInstall, PacmanStarts
<1>10. CASE EndInstall
  BY <1>10 DEF EndInstall, PacmanEnds
<1>11. CASE StartRemove
  BY <1>11 DEF StartRemove, PacmanStarts
<1>12. CASE EndRemove
  BY <1>12 DEF EndRemove, PacmanEnds
<1>13. CASE Probe
  BY <1>13 DEF Probe
<1>14. CASE Swap
  BY <1>14 DEF Swap, NextHandle, NextView
<1>15. CASE ClearLists
  BY <1>15 DEF ClearLists, RemovalAfter
<1>16. CASE StopRunning
  BY <1>16 DEF StopRunning, RunningAfter
<1>17. CASE SetOk
  BY <1>17 DEF SetOk
<1>18. CASE Unlock
  BY <1>18 DEF Unlock
<1> QED
  BY <1>1, <1>2, <1>3, <1>4, <1>5, <1>6, <1>7, <1>8, <1>9, <1>10, <1>11, <1>12, <1>13, <1>14, <1>15, <1>16, <1>17, <1>18 DEF WorkerSteps, WorkerStepsOut, WorkerTransaction

LEMMA ClicksHandles ==
    ASSUME TypeOK, Discipline, Handles, Clicks
    PROVE  Handles'
<1> USE DEF TypeOK, UiType, AlpmType, Discipline, WorkerHoldsLock, Transacting, Handles, HandlesCounted, TempFresh,
        KernelsHandleLive, HandleOwned, Open, Closing
<1>1. ASSUME NEW k \in Kernels, Toggle(k) PROVE Handles'
  BY <1>1 DEF Toggle
<1>2. ASSUME NEW k \in Kernels, AddRepo(k) PROVE Handles'
  BY <1>2 DEF AddRepo
<1>3. ASSUME NEW k \in Kernels, DirInstall(k) PROVE Handles'
  <2>1. upc' = "term" /\ UNCHANGED <<workVars, alpmVars>>
    BY <1>3 DEF DirInstall, StartJob
  <2> QED
    BY <1>3, <2>1 DEF DirInstall
<1>4. ASSUME NEW k \in Kernels, PrecompiledInstall(k) PROVE Handles'
  BY <1>4 DEF PrecompiledInstall, StartJob
<1>5. ASSUME NEW k \in Kernels, OtherPacman(k) PROVE Handles'
  BY <1>5 DEF OtherPacman
<1>6. ASSUME NEW isDir \in BOOLEAN, SelectRow(isDir) PROVE Handles'
  BY <1>6 DEF SelectRow
<1>7. CASE ExecuteClick
  BY <1>7 DEF ExecuteClick
<1>8. CASE RefreshClick
  BY <1>8 DEF RefreshClick, RefreshAllowed
<1>9. CASE CloseClick
  BY <1>9 DEF CloseClick
<1> QED
  BY <1>1, <1>2, <1>3, <1>4, <1>5, <1>6, <1>7, <1>8, <1>9 DEF Clicks

LEMMA UiStepsHandles ==
    ASSUME TypeOK, Discipline, Handles, UiSteps
    PROVE  Handles'
<1> USE DEF TypeOK, UiType, AlpmType, Discipline, WorkerHoldsLock, Transacting, Handles, HandlesCounted, TempFresh,
        KernelsHandleLive, HandleOwned, Open, Closing
<1>1. CASE GateDecision
  BY <1>1 DEF GateDecision
<1>2. CASE ExecuteStore
  BY <1>2 DEF ExecuteStore
<1>3. CASE ExecuteNotify
  BY <1>3 DEF ExecuteNotify, NotifiedPlace
<1>4. CASE JobEnds
  BY <1>4 DEF JobEnds
<1>5. CASE Reparse
  <2>1. wpc # "swap" /\ UNCHANGED <<workVars, view>>
    BY <1>5 DEF Reparse, UiMayLock
  <2>2. CASE /\ handle' = parses + 1 /\ parses' = parses + 1
             /\ live' = (live \ {handle}) \cup {parses + 1}
             /\ upc' = "fetch"
    <3>1. live' \subseteq 1..parses' /\ handle' \in live' /\ handle' <= parses'
      BY <2>2
    <3> QED
      BY <2>1, <2>2, <3>1
  <2>3. CASE handle' = 0 /\ live' = live \ {handle} /\ parses' = parses
    BY <2>1, <2>3
  <2> QED
    BY <1>5, <2>2, <2>3 DEF Reparse
<1>6. CASE Fetch
  BY <1>6 DEF Fetch, UiMayLock, ReadKernels
<1>7. CASE Rebuild
  BY <1>7 DEF Rebuild, MarkUpdates, Views
<1>8. CASE Purge
  BY <1>8 DEF Purge
<1>9. CASE OkCheck
  BY <1>9 DEF OkCheck
<1>10. CASE CloseStop
  BY <1>10 DEF CloseStop, LoopAfterClose
<1>11. CASE CloseNotify
  BY <1>11 DEF CloseNotify
<1>12. CASE CloseRelease
  BY <1>12 DEF CloseRelease
<1> QED
  BY <1>1, <1>2, <1>3, <1>4, <1>5, <1>6, <1>7, <1>8, <1>9, <1>10, <1>11, <1>12 DEF UiSteps

LEMMA WorkerStepsHandles ==
    ASSUME TypeOK, Discipline, Handles, WorkerSteps \/ SpuriousWake
    PROVE  Handles'
<1> USE DEF TypeOK, UiType, AlpmType, Discipline, WorkerHoldsLock, Transacting, Handles, HandlesCounted, TempFresh,
        KernelsHandleLive, HandleOwned, Open, Closing
<1>1. CASE Loop
  BY <1>1 DEF Loop
<1>2. CASE Acquire
  BY <1>2 DEF Acquire
<1>3. CASE Predicate
  BY <1>3 DEF Predicate
<1>4. CASE Sleep
  BY <1>4 DEF Sleep
<1>5. CASE SpuriousWake
  BY <1>5 DEF SpuriousWake
<1>6. CASE CheckFlags
  BY <1>6 DEF CheckFlags
<1>7. CASE CopyChanges
  BY <1>7 DEF CopyChanges
<1>8. CASE Enlist
  BY <1>8 DEF Enlist
<1>9. CASE StartInstall
  BY <1>9 DEF StartInstall, PacmanStarts
<1>10. CASE EndInstall
  BY <1>10 DEF EndInstall, PacmanEnds
<1>11. CASE StartRemove
  BY <1>11 DEF StartRemove, PacmanStarts
<1>12. CASE EndRemove
  BY <1>12 DEF EndRemove, PacmanEnds
<1>13. CASE Probe
  <2>1. UNCHANGED <<handle, view, uiVars>>
    BY <1>13 DEF Probe
  <2>2. CASE parses' = parses + 1 /\ live' = live \cup {parses + 1} /\ temp'.handle = parses + 1
    <3>1. live' \subseteq 1..parses' /\ handle' <= parses' /\ parses + 1 \in live' \ {handle}
      BY <2>1, <2>2
    <3> QED
      BY <2>1, <2>2, <3>1
  <2>3. CASE ~changed' /\ UNCHANGED <<parses, live>>
    BY <2>1, <2>3
  <2> QED
    BY <1>13, <2>2, <2>3 DEF Probe
<1>14. CASE Swap
  <2>1. wpc' = "clear" /\ UNCHANGED <<parses, uiVars>>
    BY <1>14 DEF Swap
  <2>2. CASE changed
    <3>1. temp.handle \in live \ {handle}
      BY <1>14, <2>2 DEF Swap
    <3>2. handle' = temp.handle /\ view'.handle = temp.handle /\ live' = live \ {handle}
      BY <1>14, <2>2 DEF Swap, NextHandle, NextView, ReadKernels
    <3>3. temp.handle \in 1..parses
      BY <3>1
    <3>4. live' \subseteq 1..parses' /\ handle' \in live' /\ handle' <= parses'
      BY <2>1, <3>1, <3>2, <3>3
    <3> QED
      BY <2>1, <3>2, <3>4
  <2>3. CASE ~changed
    <3>1. UNCHANGED <<live, handle, view>>
      BY <1>14, <2>3 DEF Swap
    <3> QED
      BY <2>1, <3>1
  <2> QED
    BY <2>2, <2>3
<1>15. CASE ClearLists
  BY <1>15 DEF ClearLists, RemovalAfter
<1>16. CASE StopRunning
  BY <1>16 DEF StopRunning, RunningAfter
<1>17. CASE SetOk
  BY <1>17 DEF SetOk
<1>18. CASE Unlock
  BY <1>18 DEF Unlock
<1> QED
  BY <1>1, <1>2, <1>3, <1>4, <1>5, <1>6, <1>7, <1>8, <1>9, <1>10, <1>11, <1>12, <1>13, <1>14, <1>15, <1>16, <1>17, <1>18 DEF WorkerSteps, WorkerStepsOut, WorkerTransaction

LEMMA InvariantInit == Init => IInv
<1> SUFFICES ASSUME Init PROVE IInv
  OBVIOUS
<1>1. TypeOK
  BY InitType
<1>2. Discipline
  BY DEF Init, Discipline, WorkerHoldsLock, TransactionRuns, ListsEmptyOutside, DbLockOwned,
         RefreshWhileIdle, ClosedStops, Transacting
<1>3. view.handle = 1
  BY DEF Init, MarkUpdates, ReadKernels
<1>4. Handles
  BY <1>3 DEF Init, Handles, HandlesCounted, TempFresh, KernelsHandleLive, HandleOwned, Open
<1> QED
  BY <1>1, <1>2, <1>4 DEF IInv

LEMMA InvariantStep == IInv /\ [Next]_vars => IInv'
<1> SUFFICES ASSUME IInv, [Next]_vars PROVE IInv'
  OBVIOUS
<1>1. TypeOK'
  BY TypeStep DEF IInv
<1>2. CASE UNCHANGED vars
  <2>1. Discipline'
    BY <1>2 DEF IInv, vars, Discipline, WorkerHoldsLock, TransactionRuns, ListsEmptyOutside,
                DbLockOwned, RefreshWhileIdle, ClosedStops
  <2>2. Handles'
    BY <1>2 DEF IInv, vars, Handles, HandlesCounted, TempFresh, KernelsHandleLive,
                HandleOwned, Open
  <2> QED
    BY <1>1, <2>1, <2>2 DEF IInv
<1>3. CASE Clicks
  BY <1>1, <1>3, ClicksDiscipline, ClicksHandles DEF IInv
<1>4. CASE UiSteps
  BY <1>1, <1>4, UiStepsDiscipline, UiStepsHandles DEF IInv
<1>5. CASE WorkerSteps \/ SpuriousWake
  BY <1>1, <1>5, WorkerStepsDiscipline, WorkerStepsHandles DEF IInv
<1> QED
  BY <1>2, <1>3, <1>4, <1>5 DEF Next

\* The lock discipline and the handle bookkeeping hold throughout.
THEOREM Invariant == Spec => []IInv
  BY InvariantInit, InvariantStep, PTL DEF Spec

\* While the window is open, m_kernels is read through the live m_handle.
THEOREM KernelsHandleStaysLive == Spec => []KernelsHandleLive
<1>1. IInv => KernelsHandleLive
  BY DEF IInv, Handles
<1> QED
  BY <1>1, Invariant, PTL

\* m_handle is released a second time only by the swap of a transaction that
\* closeEvent overtook (km-window.cpp:1110), and that swap leaves a live handle.
THEOREM ReleasedTwiceOnlyAfterClose == Spec => []NoDoubleRelease
<1>1. IInv => NoDoubleRelease
  <2> SUFFICES ASSUME IInv, Releasing, handle \notin live \cup {0}
               PROVE  upc = "closed" /\ wpc = "swap" /\ temp.handle \in live \ {handle}
    BY DEF NoDoubleRelease
  <2>1. upc = "closed"
    BY DEF IInv, Handles, HandleOwned
  <2>2. wpc = "swap" /\ changed
    BY <2>1 DEF Releasing
  <2> QED
    BY <2>1, <2>2 DEF IInv, Handles, TempFresh
<1> QED
  BY <1>1, Invariant, PTL

\* m_running = false means: nothing of a transaction is left.
THEOREM IdleStaysClean == Spec => []IdleIsClean
<1>1. IInv => IdleIsClean
  BY DEF IInv, TypeOK, SharedType, Discipline, TransactionRuns, ListsEmptyOutside, DbLockOwned,
         IdleIsClean, Transacting
<1> QED
  BY <1>1, Invariant, PTL

\* A Refresh that passed its m_running test never runs beside a transaction.
THEOREM RefreshStaysApart == Spec => []RefreshNeverMeetsTransaction
<1>1. IInv => RefreshNeverMeetsTransaction
  BY DEF IInv, Discipline, TransactionRuns, RefreshWhileIdle, RefreshNeverMeetsTransaction
<1> QED
  BY <1>1, Invariant, PTL

LEMMA KeepsViewStep ==
    ASSUME IInv, [Next]_vars, wpc \in Transacting, wpc' = wpc
    PROVE  handle' = handle /\ view'.handle = view.handle /\ view'.disk = view.disk
<1>1. mutex = "worker" /\ view \in Views
  BY DEF IInv, TypeOK, AlpmType, Discipline, WorkerHoldsLock
<1>2. CASE UNCHANGED vars
  BY <1>2 DEF vars
<1>3. CASE Clicks
  BY <1>3 DEF Clicks, Toggle, AddRepo, DirInstall, PrecompiledInstall, StartJob, OtherPacman,
              SelectRow, ExecuteClick, RefreshClick, CloseClick
<1>4. CASE UiSteps
  <2>1. ~Reparse /\ ~Fetch
    BY <1>1 DEF Reparse, Fetch, UiMayLock
  <2>2. CASE Rebuild
    BY <1>1, <2>2 DEF Rebuild, MarkUpdates, Views
  <2>3. CASE ~Rebuild
    BY <1>4, <2>1, <2>3
      DEF UiSteps, GateDecision, ExecuteStore, ExecuteNotify, JobEnds, Purge, OkCheck,
          CloseStop, CloseNotify, CloseRelease
  <2> QED
    BY <2>2, <2>3
<1>5. CASE WorkerSteps \/ SpuriousWake
  BY <1>5
    DEF Transacting, WorkerSteps, WorkerStepsOut, WorkerTransaction, Loop, Acquire, Predicate,
        Sleep, SpuriousWake, CheckFlags, CopyChanges, Enlist, StartInstall, StartRemove,
        PacmanStarts, EndInstall, EndRemove, PacmanEnds, Probe, Swap, ClearLists, StopRunning,
        SetOk, Unlock
<1> QED
  BY <1>2, <1>3, <1>4, <1>5 DEF Next

\* During a transaction the UI thread replaces neither m_handle nor m_kernels.
THEOREM ViewIsKept == Spec => TransactionKeepsView
<1>1. IInv /\ [Next]_vars =>
        ((wpc \in Transacting /\ wpc' = wpc)
           => (handle' = handle /\ view'.handle = view.handle /\ view'.disk = view.disk))
  BY KeepsViewStep
<1> QED
  BY <1>1, Invariant, PTL DEF Spec, TransactionKeepsView

LEMMA NoBeginAfterCloseStep ==
    ASSUME IInv, [Next]_vars, upc \in {"close3", "close4", "closed"}, wpc \notin Transacting
    PROVE  wpc' \notin Transacting
<1>1. ~threadRunning
  BY DEF IInv, Discipline, ClosedStops
<1>2. CASE UNCHANGED vars
  BY <1>2 DEF vars
<1>3. CASE Clicks
  BY <1>3 DEF Clicks, Toggle, AddRepo, DirInstall, PrecompiledInstall, StartJob, OtherPacman,
              SelectRow, ExecuteClick, RefreshClick, CloseClick
<1>4. CASE UiSteps
  BY <1>4
    DEF UiSteps, GateDecision, ExecuteStore, ExecuteNotify, JobEnds, Reparse, Fetch, Rebuild,
        Purge, OkCheck, CloseStop, CloseNotify, CloseRelease, Transacting
<1>5. CASE WorkerSteps \/ SpuriousWake
  BY <1>1, <1>5
    DEF Transacting, WorkerSteps, WorkerStepsOut, WorkerTransaction, Loop, Acquire, Predicate,
        Sleep, SpuriousWake, CheckFlags, CopyChanges, Enlist, StartInstall, StartRemove,
        PacmanStarts, EndInstall, EndRemove, PacmanEnds, Probe, Swap, ClearLists, StopRunning,
        SetOk, Unlock
<1> QED
  BY <1>2, <1>3, <1>4, <1>5 DEF Next

\* After closeEvent's two stores no transaction begins.
THEOREM CloseEndsService == Spec => NoTransactionAfterClose
<1>1. IInv /\ [Next]_vars =>
        ((upc \in {"close3", "close4", "closed"} /\ wpc \notin Transacting)
           => wpc' \notin Transacting)
  BY NoBeginAfterCloseStep
<1> QED
  BY <1>1, Invariant, PTL DEF Spec, NoTransactionAfterClose
-----------------------------------------------------------------------------
(* The worker implements TransactionService.                               *)

LEMMA SameService ==
    ASSUME UNCHANGED <<wpc, running, copied, toInstall, toRemove>>
    PROVE  UNCHANGED Service!vars
BY DEF Service!vars, Phase, Batch, Targets

LEMMA OutsideService ==
    ASSUME wpc \notin Serving, wpc' \notin Serving, UNCHANGED <<running, toInstall, toRemove>>
    PROVE  UNCHANGED Service!vars
BY DEF Service!vars, Phase, Batch, Targets

LEMMA InsideService ==
    ASSUME wpc \in Serving, wpc' \in Serving, UNCHANGED <<copied, toInstall, toRemove>>
    PROVE  UNCHANGED Service!vars
BY DEF Service!vars, Phase, Batch, Targets

\* m_running.store(true), by on_execute or by closeEvent.
LEMMA RequestStep ==
    ASSUME IInv, running' = TRUE, UNCHANGED <<wpc, copied, toInstall, toRemove>>
    PROVE  [Service!Next]_(Service!vars)
<1>1. running \in BOOLEAN
  BY DEF IInv, TypeOK, SharedType
<1>2. CASE wpc \in Serving \/ running
  BY <1>2 DEF Service!vars, Phase, Batch, Targets
<1>3. CASE wpc \notin Serving /\ ~running
  <2>1. Phase = "idle" /\ Phase' = "requested"
    BY <1>3 DEF Phase
  <2>2. Batch' = Batch /\ Targets' = Targets
    BY <1>3 DEF Batch, Targets
  <2> QED
    BY <2>1, <2>2 DEF Service!Next, Service!Request
<1> QED
  BY <1>1, <1>2, <1>3

LEMMA BeginStep ==
    ASSUME IInv, CopyChanges
    PROVE  Service!Begin
<1>1. wpc = "copy" /\ wpc' = "enlist" /\ UNCHANGED <<running, toInstall, toRemove>>
  BY DEF CopyChanges
<1>2. wpc \notin Serving /\ wpc' \in Serving
  BY <1>1 DEF Serving, Transacting
<1>3. Phase = "requested" /\ Phase' = "serving"
  BY <1>1, <1>2 DEF IInv, Discipline, TransactionRuns, Transacting, Phase
<1>4. copied' \subseteq Raws
  BY DEF CopyChanges, Listed
<1>5. Batch' \subseteq Kernels
  BY <1>2, <1>4 DEF Batch, Raws
<1> QED
  BY <1>1, <1>3, <1>5 DEF Service!Begin, Targets

LEMMA EnlistStep ==
    ASSUME IInv, Enlist
    PROVE  Service!Commit
<1>1. /\ wpc = "enlist" /\ wpc' = "install" /\ copied' = copied
      /\ toInstall' = toInstall \cup Installable(copied)
      /\ toRemove' = toRemove \cup Removable(copied)
  BY DEF Enlist
<1>2. wpc \in Serving /\ wpc' \in Serving
  BY <1>1 DEF Serving, Transacting
<1>3. toInstall = {} /\ toRemove = {}
  BY <1>1 DEF IInv, Discipline, ListsEmptyOutside
<1>4. \A k \in Selected(copied) : k \in {r[2] : r \in copied}
  BY DEF Selected, Raw
<1>5. Targets' \subseteq Batch
  BY <1>1, <1>2, <1>3, <1>4 DEF Targets, Batch, Installable, Removable
<1> QED
  BY <1>1, <1>2, <1>5 DEF Service!Commit, Phase, Batch

LEMMA ClearStep ==
    ASSUME ClearLists
    PROVE  Service!Commit
<1>1. wpc = "clear" /\ wpc' = "stop" /\ copied' = copied /\ toInstall' = {} /\ toRemove' = {}
  BY DEF ClearLists, RemovalAfter
<1>2. wpc \in Serving /\ wpc' \in Serving
  BY <1>1 DEF Serving, Transacting
<1> QED
  BY <1>1, <1>2 DEF Service!Commit, Phase, Batch, Targets

LEMMA FinishStep ==
    ASSUME IInv, StopRunning
    PROVE  Service!Finish
<1>1. /\ wpc = "stop" /\ wpc' = "okset" /\ running' = FALSE
      /\ UNCHANGED <<toInstall, toRemove>>
  BY DEF StopRunning, RunningAfter
<1>2. wpc \in Serving /\ wpc' \notin Serving
  BY <1>1 DEF Serving, Transacting
<1>3. toInstall = {} /\ toRemove = {}
  BY <1>1 DEF IInv, Discipline, ListsEmptyOutside
<1> QED
  BY <1>1, <1>2, <1>3 DEF Service!Finish, Phase, Batch, Targets

LEMMA RefinementStep ==
    ASSUME IInv, [Next]_vars
    PROVE  [Service!Next]_(Service!vars)
<1>1. CASE UNCHANGED vars
  BY <1>1, SameService DEF vars, workVars, flagVars
<1>2. CASE Clicks
  <2>1. CASE CloseClick
    BY <2>1, RequestStep DEF CloseClick
  <2>2. CASE ~CloseClick
    <3>1. UNCHANGED <<wpc, running, copied, toInstall, toRemove>>
      BY <1>2, <2>2 DEF Clicks, Toggle, AddRepo, DirInstall, PrecompiledInstall, StartJob,
                        OtherPacman, SelectRow, ExecuteClick, RefreshClick
    <3> QED
      BY <3>1, SameService
  <2> QED
    BY <2>1, <2>2
<1>3. CASE UiSteps
  <2>1. CASE ExecuteStore
    BY <2>1, RequestStep DEF ExecuteStore
  <2>2. CASE ExecuteNotify \/ CloseNotify
    <3>1. UNCHANGED <<running, copied, toInstall, toRemove>>
      BY <2>2 DEF ExecuteNotify, CloseNotify
    <3>2. wpc' = wpc \/ (wpc \in {"asleep", "unstarted"} /\ wpc' \in {"woken", "loop"})
      BY <2>2 DEF ExecuteNotify, NotifiedPlace, CloseNotify
    <3>3. CASE wpc' = wpc
      BY <3>1, <3>3, SameService
    <3>4. CASE wpc \notin Serving /\ wpc' \notin Serving
      BY <3>1, <3>4, OutsideService
    <3> QED
      BY <3>2, <3>3, <3>4 DEF Serving, Transacting
  <2>3. CASE ~(ExecuteStore \/ ExecuteNotify \/ CloseNotify)
    <3>1. UNCHANGED <<wpc, running, copied, toInstall, toRemove>>
      BY <1>3, <2>3 DEF UiSteps, GateDecision, JobEnds, Reparse, Fetch, Rebuild, Purge,
                        OkCheck, CloseStop, CloseRelease
    <3> QED
      BY <3>1, SameService
  <2> QED
    BY <2>1, <2>2, <2>3
<1>4. CASE WorkerStepsOut \/ SpuriousWake
  <2>1. wpc \notin Serving /\ wpc' \notin Serving
    BY <1>4 DEF WorkerStepsOut, Loop, Acquire, Predicate, Sleep, SpuriousWake, CheckFlags,
                SetOk, Unlock, Serving, Transacting
  <2>2. UNCHANGED <<running, toInstall, toRemove>>
    BY <1>4 DEF WorkerStepsOut, Loop, Acquire, Predicate, Sleep, SpuriousWake, CheckFlags,
                SetOk, Unlock
  <2> QED
    BY <2>1, <2>2, OutsideService
<1>5. CASE WorkerTransaction
  <2>1. CASE CopyChanges
    BY <2>1, BeginStep DEF Service!Next
  <2>2. CASE Enlist
    BY <2>2, EnlistStep DEF Service!Next
  <2>3. CASE ClearLists
    BY <2>3, ClearStep DEF Service!Next
  <2>4. CASE StopRunning
    BY <2>4, FinishStep DEF Service!Next
  <2>5. CASE \/ StartInstall \/ EndInstall \/ StartRemove \/ EndRemove \/ Probe \/ Swap
    <3>1. wpc \in Serving /\ wpc' \in Serving
      BY <2>5 DEF StartInstall, StartRemove, PacmanStarts, EndInstall, EndRemove, PacmanEnds,
                  Probe, Swap, Serving, Transacting
    <3>2. UNCHANGED <<copied, toInstall, toRemove>>
      BY <2>5 DEF StartInstall, StartRemove, PacmanStarts, EndInstall, EndRemove, PacmanEnds,
                  Probe, Swap
    <3> QED
      BY <3>1, <3>2, InsideService
  <2> QED
    BY <1>5, <2>1, <2>2, <2>3, <2>4, <2>5 DEF WorkerTransaction
<1> QED
  BY <1>1, <1>2, <1>3, <1>4, <1>5 DEF Next, WorkerSteps

LEMMA RefinementInit == Init => Service!Init
  BY DEF Init, Service!Init, Phase, Batch, Targets, Serving, Transacting

\* The worker serves each request at most once and one at a time, gives pacman
\* only kernels of the change list it copied, and leaves no target behind.
THEOREM WorkerImplementsService == Spec => ServiceSpec
<1>1. IInv /\ [Next]_vars => [Service!Next]_(Service!vars)
  BY RefinementStep
<1> QED
  BY <1>1, Invariant, RefinementInit, PTL DEF Spec, ServiceSpec, Service!Spec
=============================================================================
