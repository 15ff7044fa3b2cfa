--------------------------- MODULE BuildSessionProofs ---------------------------
(* The launches of the configuration window, proved for any flavors, any     *)
(* number of launches, restarts, prepares and polls.                         *)
EXTENDS BuildSession, TLAPS

USE BuildAssumption DEF Jobs

LEMMA FirstIsIn ==
    ASSUME NEW D \in SUBSET Flavors, D # {}
    PROVE  First(D) \in D
BY DEF First

Flags == {missing, visible, running, expect, timer, lost} \subseteq BOOLEAN

LEMMA InitInv == Init => IInv
<1> SUFFICES ASSUME Init PROVE IInv
  OBVIOUS
<1>1. TypeOK
  <2>1. Flags
    BY DEF Init, Flags
  <2>2. jobs \in [Jobs -> [kind : {"none", "build", "install"},
                           dir : Flavors \cup {"none"}, st : States]]
    BY DEF Init, NoJob, States
  <2>3. polls \in 0..MaxPolls /\ pools \in 0..MaxPools /\ acts \in 0..MaxActs
    BY DEF Init
  <2>4. marker \in [Flavors -> 0..MaxJobs] /\ pkgs \in [Flavors -> 0..MaxJobs]
    BY DEF Init, Empty
  <2> QED
    BY <2>1, <2>2, <2>3, <2>4, FirstIsIn DEF Flags, Init, TypeOK
<1>2. HelperIsProtected /\ HelperKnown
  BY DEF Init, HelperIsProtected, HelperKnown
<1>3. StaleOfferIsOrphan /\ OfferMeans
  BY DEF Init, StaleOfferIsOrphan, OfferMeans
<1>4. LaunchesCounted
  BY DEF Init, LaunchesCounted, Live, NoJob, Active
<1>5. MarkersMean
  BY DEF Init, MarkersMean, Empty
<1>6. LockedMeans
  BY DEF Init, LockedMeans
<1> QED
  BY <1>1, <1>2, <1>3, <1>4, <1>5, <1>6 DEF IInv

\* A step that touches neither jobs nor files nor the UI thread's place.
LEMMA QuietStep ==
    ASSUME IInv, TypeOK',
           UNCHANGED <<running, expect, confDir, current, timer, upc, jobs, count, marker, pkgs,
                       offered, orphans, lost>>
    PROVE  IInv'
<1>1. HelperIsProtected' /\ HelperKnown'
  BY DEF IInv, HelperIsProtected, HelperKnown
<1>2. StaleOfferIsOrphan' /\ OfferMeans'
  BY DEF IInv, StaleOfferIsOrphan, OfferMeans, Builds
<1>3. LaunchesCounted'
  BY DEF IInv, LaunchesCounted, Live
<1>4. MarkersMean'
  BY DEF IInv, MarkersMean, Builds
<1>5. LockedMeans'
  BY DEF IInv, LockedMeans
<1> QED
  BY <1>1, <1>2, <1>3, <1>4, <1>5 DEF IInv

LEMMA UserStepsInv ==
    ASSUME IInv, UserSteps
    PROVE  IInv'
<1>1. ASSUME NEW f \in Flavors, SelectFlavor(f) PROVE IInv'
  <2>1. TypeOK'
    BY <1>1, SMTT(30) DEF SelectFlavor, UserActs, IInv, TypeOK, buildVars, pollVars, jobVars, fileVars, histVars
  <2> QED
    BY <1>1, <2>1, QuietStep DEF SelectFlavor, UserActs, buildVars, pollVars, jobVars, fileVars, histVars
<1>2. CASE CloseConf
  <2>1. TypeOK'
    <3>1. Flags'
      BY <1>2 DEF Flags, CloseConf, IInv, TypeOK, buildVars, pollVars, histVars
    <3> QED
      BY <1>2, <3>1, SMTT(30) DEF CloseConf, UserActs, IInv, TypeOK, Flags, buildVars, pollVars, jobVars,
                        fileVars, histVars
  <2> QED
    BY <1>2, <2>1, QuietStep DEF CloseConf, UserActs, buildVars, pollVars, jobVars, fileVars, histVars
<1>3. CASE Configure
  <2>1. TypeOK'
    BY <1>3, SMTT(30) DEF Configure, UserActs, IInv, TypeOK, windowVars, buildVars, pollVars, jobVars, fileVars, histVars
  <2> QED
    BY <1>3, <2>1, QuietStep DEF Configure, UserActs, buildVars, pollVars, jobVars, fileVars, histVars
<1>4. CASE ExecuteClick
  <2> USE <1>4 DEF ExecuteClick, pollVars, jobVars, fileVars, histVars, windowVars
  <2>1. TypeOK'
    BY DEF IInv, TypeOK
  <2>2. HelperIsProtected' /\ HelperKnown'
    BY DEF IInv, HelperIsProtected, HelperKnown
  <2>3. StaleOfferIsOrphan' /\ OfferMeans'
    BY DEF StaleOfferIsOrphan, OfferMeans
  <2>4. LaunchesCounted'
    BY DEF IInv, LaunchesCounted, Live
  <2>5. MarkersMean'
    BY DEF IInv, MarkersMean, Builds
  <2>6. LockedMeans'
    BY DEF IInv, LockedMeans, HelperIsProtected
  <2> QED
    BY <2>1, <2>2, <2>3, <2>4, <2>5, <2>6 DEF IInv
<1>5. CASE Restart
  <2> USE <1>5 DEF Restart, UserActs, jobVars, fileVars, windowVars
  <2>0. current \in 0..MaxJobs
    BY DEF IInv, TypeOK
  <2>1. TypeOK'
    <3>1. Flags'
      BY DEF Flags, IInv, TypeOK
    <3>2. orphans' \subseteq Jobs
      BY <2>0 DEF IInv, TypeOK
    <3> QED
      BY <3>1, <3>2, SMTT(30) DEF Flags, IInv, TypeOK
  <2>2. HelperIsProtected' /\ HelperKnown'
    BY DEF HelperIsProtected, HelperKnown
  <2>3. StaleOfferIsOrphan' /\ OfferMeans'
    BY DEF StaleOfferIsOrphan, OfferMeans
  <2>4. LaunchesCounted'
    BY DEF IInv, LaunchesCounted, Live
  <2>5. MarkersMean'
    BY DEF IInv, MarkersMean, Builds
  <2>6. LockedMeans'
    BY DEF IInv, LockedMeans, HelperIsProtected
  <2> QED
    BY <2>1, <2>2, <2>3, <2>4, <2>5, <2>6 DEF IInv
<1> QED
  BY <1>1, <1>2, <1>3, <1>4, <1>5 DEF UserSteps

\* A prepare leaves the files alone or removes the markers with the packages.
LEMMA PreparedFiles ==
    ASSUME IInv, PrepareRepo
    PROVE  /\ marker' \in [Flavors -> 0..MaxJobs] /\ pkgs' \in [Flavors -> 0..MaxJobs]
           /\ dirs' \subseteq Flavors
           /\ \A f \in Flavors : marker'[f] # 0 => marker'[f] = marker[f] /\ pkgs'[f] = pkgs[f]
           /\ \A f \in Flavors : pkgs'[f] \in {0, pkgs[f]}
<1>1. CASE UNCHANGED fileVars
  BY <1>1 DEF fileVars, IInv, TypeOK
<1>2. CASE marker' = Empty /\ pkgs' = Empty /\ dirs' \in Checkouts
  BY <1>2 DEF Empty, IInv, TypeOK
<1> QED
  BY <1>1, <1>2 DEF PrepareRepo

LEMMA RefreshedFlavor ==
    ASSUME IInv, RefreshFlavors, dirs' \subseteq Flavors
    PROVE  selected' \in Flavors
<1>1. selected \in Flavors
  BY DEF IInv, TypeOK
<1>2. CASE dirs' = {}
  BY <1>1, <1>2 DEF RefreshFlavors
<1>3. CASE dirs' # {}
  <2>1. First(dirs') \in dirs'
    BY <1>3, FirstIsIn
  <2> QED
    BY <1>1, <1>3, <2>1, SMTT(30) DEF RefreshFlavors
<1> QED
  BY <1>2, <1>3

LEMMA PrepareInv ==
    ASSUME IInv, Prepare
    PROVE  IInv'
<1> USE DEF Prepare, jobVars, pollVars, histVars
<1>1. TypeOK'
  <2>1. Flags'
    BY DEF Flags, IInv, TypeOK
  <2> QED
    BY <2>1, PreparedFiles, RefreshedFlavor DEF Flags, IInv, TypeOK
<1>2. HelperIsProtected' /\ HelperKnown'
  BY DEF IInv, HelperIsProtected, HelperKnown
<1>3. StaleOfferIsOrphan' /\ OfferMeans'
  BY DEF StaleOfferIsOrphan, OfferMeans
<1>4. LaunchesCounted'
  <2>1. running /\ count < MaxJobs
    BY DEF IInv, LaunchesCounted
  <2>2. upc' = "launch" => running'
    BY <2>1
  <2>3. \A i \in Jobs : (i > count => jobs[i] = NoJob) /\ (Live(i) => i = current \/ i \in orphans)
    BY DEF IInv, LaunchesCounted
  <2> QED
    BY <2>1, <2>2, <2>3 DEF LaunchesCounted, Live
<1>5. MarkersMean'
  BY PreparedFiles DEF IInv, MarkersMean, Builds
<1>6. LockedMeans'
  <2>1. current = 0 /\ ~ lost
    BY DEF IInv, HelperIsProtected, LockedMeans
  <2> QED
    BY <2>1 DEF LockedMeans
<1> QED
  BY <1>1, <1>2, <1>3, <1>4, <1>5, <1>6 DEF IInv

LEMMA RemovesInv ==
    ASSUME IInv, PoolRemoves
    PROVE  IInv'
<1> USE DEF PoolRemoves, windowVars, buildVars, jobVars, pollVars, histVars
<1>0. \A f \in Flavors : marker'[f] = 0 /\ pkgs'[f] = 0
  BY DEF Empty
<1>1. TypeOK'
  <2>1. Flags'
    BY DEF Flags, IInv, TypeOK
  <2>2. marker' \in [Flavors -> 0..MaxJobs] /\ pkgs' \in [Flavors -> 0..MaxJobs]
    BY DEF Empty
  <2> QED
    BY <2>1, <2>2 DEF Flags, IInv, TypeOK
<1>2. HelperIsProtected' /\ HelperKnown'
  BY DEF IInv, HelperIsProtected, HelperKnown
<1>3. StaleOfferIsOrphan' /\ LockedMeans'
  BY DEF IInv, StaleOfferIsOrphan, LockedMeans, Builds
<1>4. OfferMeans'
  <2>1. upc \in {"done", "question"} => confDir \in Flavors
    BY DEF IInv, HelperKnown
  <2> QED
    BY <1>0, <2>1 DEF IInv, OfferMeans
<1>5. LaunchesCounted'
  BY DEF IInv, LaunchesCounted, Live
<1>6. MarkersMean'
  BY <1>0 DEF MarkersMean
<1> QED
  BY <1>1, <1>2, <1>3, <1>4, <1>5, <1>6 DEF IInv

LEMMA PoolInv ==
    ASSUME IInv, PoolPrepares
    PROVE  IInv'
<1> USE DEF PoolPrepares, buildVars, jobVars, pollVars, histVars
<1>1. TypeOK'
  <2>1. Flags'
    BY DEF Flags, IInv, TypeOK
  <2>2. pools' \in 0..MaxPools
    BY DEF IInv, TypeOK
  <2> QED
    BY <2>1, <2>2, PreparedFiles, RefreshedFlavor DEF Flags, IInv, TypeOK
<1>2. HelperIsProtected' /\ HelperKnown'
  BY DEF IInv, HelperIsProtected, HelperKnown
<1>3. StaleOfferIsOrphan' /\ LockedMeans'
  BY DEF IInv, StaleOfferIsOrphan, LockedMeans, Builds
<1>4. OfferMeans'
  <2>1. upc \in {"done", "question"} => confDir \in Flavors
    BY DEF IInv, HelperKnown
  <2> QED
    BY <2>1, PreparedFiles DEF IInv, OfferMeans
<1>5. LaunchesCounted'
  BY DEF IInv, LaunchesCounted, Live
<1>6. MarkersMean'
  BY PreparedFiles DEF IInv, MarkersMean, Builds
<1> QED
  BY <1>1, <1>2, <1>3, <1>4, <1>5, <1>6 DEF IInv

\* A launch: m_cmd is idle whenever one is made, and the new job is the last.
LEMMA LaunchInv ==
    ASSUME IInv, NEW kind \in {"build", "install"}, NEW dir \in Flavors,
           RunCmdAsync(kind, dir), current = 0, count < MaxJobs,
           running' = TRUE, selected \in Flavors,
           \A f \in Flavors : marker[f] # 0 => marker[f] \in orphans,
           UNCHANGED <<missing, windowVars, fileVars, pools, acts>>
    PROVE  IInv'
<1> USE DEF RunCmdAsync, windowVars, fileVars, jobVars
<1>0. count \in 0..MaxJobs /\ MaxJobs \in Nat
  BY DEF IInv, TypeOK
<1>1. TypeOK'
  <2>1. Flags'
    BY DEF Flags, IInv, TypeOK, TimerAfterLaunch
  <2>2. jobs' \in [Jobs -> [kind : {"none", "build", "install"},
                            dir : Flavors \cup {"none"}, st : States]]
    <3>1. Job(kind, dir) \in [kind : {"none", "build", "install"},
                              dir : Flavors \cup {"none"}, st : States]
      BY DEF Job, States
    <3> QED
      BY <3>1 DEF IInv, TypeOK
  <2>3. current' \in 0..MaxJobs /\ count' \in 0..MaxJobs
    BY <1>0
  <2> QED
    BY <2>1, <2>2, <2>3 DEF Flags, IInv, TypeOK
<1>2. HelperIsProtected'
  BY DEF HelperIsProtected, TimerAfterLaunch
<1>3. HelperKnown'
  <2>1. current' # 0 => current' = count + 1 /\ count' = count + 1 /\ jobs'[count + 1] = Job(kind, dir)
    BY <1>0 DEF IInv, TypeOK
  <2> QED
    BY <2>1 DEF HelperKnown, Job
<1>4. StaleOfferIsOrphan' /\ OfferMeans'
  BY DEF StaleOfferIsOrphan, OfferMeans
<1>5. LaunchesCounted'
  <2>1. ASSUME NEW i \in Jobs, i > count' PROVE jobs'[i] = NoJob
    <3>1. i > count /\ (count' = count + 1 => i # count + 1)
      BY <2>1, <1>0
    <3>2. jobs[i] = NoJob /\ jobs \in [Jobs -> [kind : {"none", "build", "install"},
                              dir : Flavors \cup {"none"}, st : States]]
      BY <3>1 DEF IInv, LaunchesCounted, TypeOK
    <3> QED
      BY <3>1, <3>2
  <2>2. ASSUME NEW i \in Jobs, Live(i)' PROVE i = current' \/ i \in orphans'
    <3>1. CASE jobs'[i] = jobs[i]
      BY <2>2, <3>1 DEF Live, IInv, LaunchesCounted
    <3>2. CASE jobs'[i] # jobs[i]
      BY <3>2, <1>0 DEF IInv, TypeOK
    <3> QED
      BY <3>1, <3>2
  <2> QED
    BY <2>1, <2>2 DEF LaunchesCounted
<1>6. MarkersMean'
  <2> SUFFICES ASSUME NEW f \in Flavors, marker[f] # 0
               PROVE  /\ marker[f] \in Builds' /\ jobs'[marker[f]].dir = f
                      /\ pkgs[f] = marker[f] /\ marker[f] \in orphans
    BY DEF MarkersMean
  <2>1. marker[f] \in Builds /\ jobs[marker[f]].dir = f /\ pkgs[f] = marker[f]
    BY DEF IInv, MarkersMean
  <2>2. jobs'[marker[f]] = jobs[marker[f]]
    <3>1. jobs[count + 1] = NoJob
      BY <1>0 DEF IInv, LaunchesCounted
    <3>2. marker[f] # count + 1
      BY <2>1, <3>1 DEF Builds, NoJob
    <3> QED
      BY <2>1, <3>2 DEF IInv, TypeOK, Builds
  <2> QED
    BY <2>1, <2>2 DEF Builds
<1>7. LockedMeans'
  BY <1>0 DEF LockedMeans, TimerAfterLaunch
<1> QED
  BY <1>1, <1>2, <1>3, <1>4, <1>5, <1>6, <1>7 DEF IInv

LEMMA UiStepsInv ==
    ASSUME IInv, UiSteps
    PROVE  IInv'
<1>1. CASE Prepare
  BY <1>1, PrepareInv
<1>2. CASE LaunchBuild
  <2>1. current = 0 /\ running /\ count < MaxJobs /\ selected \in Flavors
    BY <1>2 DEF LaunchBuild, IInv, HelperIsProtected, LaunchesCounted, TypeOK
  <2>2. \A f \in Flavors : marker[f] # 0 => marker[f] \in orphans
    BY <1>2, <2>1 DEF LaunchBuild, IInv, MarkersMean
  <2>3. running' = TRUE
    BY <1>2, <2>1 DEF LaunchBuild, IInv, TypeOK
  <2> QED
    BY <1>2, <2>1, <2>2, <2>3, LaunchInv DEF LaunchBuild
<1>3. CASE HandleBuildDone
  <2> USE <1>3 DEF HandleBuildDone, MarkerAfterDone, windowVars, buildVars, pollVars, jobVars, histVars
  <2>1. TypeOK'
    <3>0. 0 \in 0..MaxJobs
      OBVIOUS
    <3>1. marker' \in [Flavors -> 0..MaxJobs]
      BY <3>0 DEF IInv, TypeOK
    <3>2. Flags'
      BY DEF Flags, IInv, TypeOK
    <3> QED
      BY <3>1, <3>2 DEF Flags, IInv, TypeOK
  <2>2. HelperIsProtected' /\ HelperKnown'
    BY DEF IInv, HelperIsProtected, HelperKnown
  <2>3. StaleOfferIsOrphan' /\ OfferMeans'
    BY DEF IInv, StaleOfferIsOrphan, OfferMeans, Builds
  <2>4. LaunchesCounted'
    BY DEF IInv, LaunchesCounted, Live
  <2>5. MarkersMean'
    <3>1. jobs[offered].dir = confDir /\ confDir \in Flavors
      BY DEF IInv, OfferMeans, HelperKnown
    <3>2. ASSUME NEW f \in Flavors, marker'[f] # 0
          PROVE f # confDir /\ marker'[f] = marker[f]
      BY <3>1, <3>2 DEF IInv, TypeOK
    <3> QED
      BY <3>1, <3>2 DEF IInv, MarkersMean, Builds
  <2>6. LockedMeans'
    BY DEF IInv, LockedMeans
  <2> QED
    BY <2>1, <2>2, <2>3, <2>4, <2>5, <2>6 DEF IInv
<1>4. CASE Declined
  <2> USE <1>4 DEF Declined, windowVars, buildVars, pollVars, jobVars, fileVars, histVars
  <2>1. TypeOK'
    BY DEF IInv, TypeOK
  <2>2. HelperIsProtected' /\ HelperKnown'
    BY DEF IInv, HelperIsProtected, HelperKnown
  <2>3. StaleOfferIsOrphan' /\ OfferMeans'
    BY DEF StaleOfferIsOrphan, OfferMeans
  <2>4. LaunchesCounted'
    BY DEF IInv, LaunchesCounted, Live
  <2>5. MarkersMean'
    BY DEF IInv, MarkersMean, Builds
  <2>6. LockedMeans'
    BY DEF IInv, LockedMeans, HelperIsProtected
  <2> QED
    BY <2>1, <2>2, <2>3, <2>4, <2>5, <2>6 DEF IInv
<1>5. CASE InstallPackages
  <2>1. current = 0 /\ confDir \in Flavors /\ selected \in Flavors
    BY <1>5 DEF InstallPackages, IInv, HelperIsProtected, HelperKnown, TypeOK
  <2>2. \A f \in Flavors : marker[f] # 0 => marker[f] \in orphans
    BY <1>5, <2>1 DEF InstallPackages, IInv, MarkersMean
  <2> QED
    BY <1>5, <2>1, <2>2, LaunchInv DEF InstallPackages, InstallDir, RunningOnInstall
<1> QED
  BY <1>1, <1>2, <1>3, <1>4, <1>5 DEF UiSteps

\* The steps of the command in its terminal.
LEMMA JobStepsInv ==
    ASSUME IInv, NEW i \in Jobs, JobSteps(i)
    PROVE  IInv'
<1> USE DEF windowVars, buildVars, pollVars, histVars
<1>1. jobs \in [Jobs -> [kind : {"none", "build", "install"}, dir : Flavors \cup {"none"}, st : States]]
  BY DEF IInv, TypeOK
<1>2. ASSUME NEW st \in States, SetState(i, st), Live(i),
             UNCHANGED <<missing, windowVars, buildVars, pollVars, upc, count, fileVars, pools,
                         histVars, acts>>
      PROVE  IInv'
  <2> USE DEF SetState, fileVars
  <2>1. TypeOK'
    <3>1. jobs' \in [Jobs -> [kind : {"none", "build", "install"},
                              dir : Flavors \cup {"none"}, st : States]]
      BY <1>1, <1>2, SMTT(30)
    <3>2. Flags'
      BY <1>2 DEF Flags, IInv, TypeOK
    <3>3. /\ UNCHANGED <<selected, confDir, polls, pools, acts, upc, current, count, offered>>
          /\ UNCHANGED <<marker, pkgs, orphans, dirs>>
      BY <1>2
    <3> QED
      BY <3>1, <3>2, <3>3, SMTT(60) DEF Flags, IInv, TypeOK
  <2>2. \A j \in Jobs : /\ jobs'[j].kind = jobs[j].kind /\ jobs'[j].dir = jobs[j].dir
                        /\ j # i => jobs'[j] = jobs[j]
    BY <1>1, <1>2
  <2>3. Builds' = Builds
    BY <2>2 DEF Builds
  <2>4. HelperIsProtected' /\ HelperKnown' /\ LockedMeans'
    BY <1>2, <2>2, SMTT(30) DEF IInv, HelperIsProtected, HelperKnown, LockedMeans, TypeOK
  <2>5. StaleOfferIsOrphan' /\ OfferMeans'
    BY <1>2, <2>2, <2>3 DEF IInv, StaleOfferIsOrphan, OfferMeans
  <2>6. LaunchesCounted'
    <3>1. i \in orphans \/ i = current
      BY <1>2 DEF IInv, LaunchesCounted
    <3>2. jobs[i] # NoJob
      BY <1>2 DEF Live, NoJob, Active
    <3> QED
      BY <1>2, <2>2, <3>1, <3>2 DEF IInv, LaunchesCounted, Live
  <2>7. MarkersMean'
    <3>1. \A f \in Flavors : marker[f] # 0 => marker[f] \in Jobs
      BY DEF IInv, MarkersMean, Builds
    <3> QED
      BY <1>2, <2>2, <2>3, <3>1 DEF IInv, MarkersMean
  <2> QED
    BY <2>1, <2>4, <2>5, <2>6, <2>7 DEF IInv
<1>3. CASE JobStarts(i)
  BY <1>2, <1>3 DEF JobStarts, Live, Active, States
<1>4. CASE JobEnds(i)
  BY <1>2, <1>4 DEF JobEnds, States
<1>5. CASE JobBuilds(i)
  <2> USE <1>5 DEF JobBuilds, SetState
  <2>1. TypeOK'
    <3>1. jobs' \in [Jobs -> [kind : {"none", "build", "install"},
                              dir : Flavors \cup {"none"}, st : States]]
      BY <1>1 DEF States
    <3>2. i \in 0..MaxJobs
      OBVIOUS
    <3>3. marker' \in [Flavors -> 0..MaxJobs] /\ pkgs' \in [Flavors -> 0..MaxJobs]
      BY <3>2 DEF IInv, TypeOK
    <3> QED
      BY <3>1, <3>3 DEF IInv, TypeOK
  <2>2. \A j \in Jobs : /\ jobs'[j].kind = jobs[j].kind /\ jobs'[j].dir = jobs[j].dir
                        /\ j # i => jobs'[j] = jobs[j]
    BY <1>1
  <2>3. Builds' = Builds
    BY <2>2 DEF Builds
  <2>4. HelperIsProtected' /\ HelperKnown' /\ LockedMeans'
    BY <2>2, SMTT(30) DEF IInv, HelperIsProtected, HelperKnown, LockedMeans, TypeOK
  <2>5. i \in orphans \/ i = current
    BY DEF IInv, LaunchesCounted, Live, Active
  <2>6. upc \in {"done", "question"} => i \in orphans
    BY <2>5 DEF IInv, HelperIsProtected
  <2>7. \A f \in Flavors : \/ pkgs'[f] = pkgs[f] /\ marker'[f] = marker[f]
                           \/ f = jobs[i].dir /\ pkgs'[f] = i /\ marker'[f] = i
    BY DEF IInv, TypeOK
  <2>8. StaleOfferIsOrphan'
    BY <2>3 DEF IInv, StaleOfferIsOrphan
  <2>9. OfferMeans'
    <3>1. upc \in {"done", "question"} => confDir \in Flavors
      BY DEF IInv, HelperKnown
    <3> QED
      BY <2>2, <2>6, <2>7, <3>1 DEF IInv, OfferMeans
  <2>10. LaunchesCounted'
    <3>1. jobs[i] # NoJob
      BY DEF NoJob
    <3> QED
      BY <2>2, <2>5, <3>1 DEF IInv, LaunchesCounted, Live
  <2>11. MarkersMean'
    <3>1. i \in Builds
      BY DEF Builds
    <3>2. \A f \in Flavors : marker[f] # 0 => marker[f] \in Jobs
      BY DEF IInv, MarkersMean, Builds
    <3> QED
      BY <2>2, <2>3, <2>5, <2>7, <3>1, <3>2 DEF IInv, MarkersMean
  <2> QED
    BY <2>1, <2>4, <2>8, <2>9, <2>10, <2>11 DEF IInv
<1> QED
  BY <1>3, <1>4, <1>5 DEF JobSteps

\* What the answer of a helper, or the poll, may find: the last build's marker
\* or an orphan's.
LEMMA FoundMarker ==
    ASSUME IInv, upc = "ready", confDir \in Flavors, marker[confDir] # 0,
           marker[confDir] \in orphans \/ marker[confDir] = current
    PROVE  /\ marker[confDir] \in Jobs /\ jobs[marker[confDir]].dir = confDir
           /\ pkgs[confDir] = marker[confDir]
           /\ \/ marker[confDir] \in orphans
              \/ marker[confDir] \in Builds /\ \A i \in Builds : i <= marker[confDir]
<1>1. marker[confDir] \in Builds /\ jobs[marker[confDir]].dir = confDir
      /\ pkgs[confDir] = marker[confDir]
  BY DEF IInv, MarkersMean
<1>2. ASSUME marker[confDir] = current, NEW i \in Builds PROVE i <= marker[confDir]
  <2>1. current = count /\ count \in 0..MaxJobs /\ i \in Jobs
    BY <1>2 DEF IInv, HelperKnown, TypeOK, Builds
  <2>2. ~ (i > count)
    BY <2>1 DEF IInv, LaunchesCounted, Builds, NoJob
  <2> QED
    BY <1>2, <2>1, <2>2
<1> QED
  BY <1>1, <1>2 DEF Builds

LEMMA FinishedProcInv ==
    ASSUME IInv, FinishedProc
    PROVE  IInv'
<1> USE DEF FinishedProc, RunningAfterExit, windowVars, jobVars, fileVars, pollVars
<1>1. current \in Jobs /\ current = count /\ confDir \in Flavors /\ ~ timer
  BY DEF IInv, HelperKnown, HelperIsProtected, TypeOK
<1>2. upc' \in {"ready", "done"} /\ (upc' = "done" => expect /\ marker[confDir] # 0 /\ ~ timer')
  BY <1>1
<1>3. orphans \subseteq orphans' /\ orphans' \subseteq Jobs
  BY <1>1 DEF IInv, TypeOK
<1>4. TypeOK'
  <2>1. Flags'
    BY DEF Flags, IInv, TypeOK
  <2>2. polls' \in 0..MaxPolls
    BY SMTT(30) DEF IInv, TypeOK
  <2>3. offered' \in 0..MaxJobs
    BY <1>1, <1>2 DEF IInv, TypeOK
  <2> QED
    BY <1>2, <1>3, <2>1, <2>2, <2>3, SMTT(30) DEF Flags, IInv, TypeOK
<1>5. HelperIsProtected' /\ HelperKnown' /\ LockedMeans'
  BY <1>1, <1>2 DEF IInv, HelperIsProtected, HelperKnown, LockedMeans
<1>6. StaleOfferIsOrphan' /\ OfferMeans'
  <2> SUFFICES ASSUME upc' = "done" PROVE StaleOfferIsOrphan' /\ OfferMeans'
    BY <1>2 DEF StaleOfferIsOrphan, OfferMeans
  <2>1. offered' = marker[confDir] /\ marker[confDir] # 0
    BY <1>2
  <2>2. marker[confDir] \in orphans \/ marker[confDir] = current
    BY <1>1, <2>1 DEF IInv, MarkersMean
  <2> QED
    BY <1>1, <1>3, <2>1, <2>2, FoundMarker DEF StaleOfferIsOrphan, OfferMeans, Builds
<1>7. LaunchesCounted'
  BY <1>1, <1>2, <1>3 DEF IInv, LaunchesCounted, Live
<1>8. MarkersMean'
  <2> SUFFICES ASSUME NEW f \in Flavors, marker[f] # 0
               PROVE  marker[f] \in orphans' \/ (upc' = "done" /\ marker[f] = offered')
    BY DEF IInv, MarkersMean, Builds
  <2>1. CASE marker[f] \in orphans
    BY <2>1, <1>3
  <2>2. CASE marker[f] = current
    <3>1. f = confDir /\ expect
      BY <1>1, <2>2, ZenonT(30) DEF IInv, MarkersMean, HelperKnown, Builds
    <3>2. upc' = "done"
      BY <3>1
    <3> QED
      BY <3>1, <3>2
  <2> QED
    BY <2>1, <2>2 DEF IInv, MarkersMean
<1> QED
  BY <1>4, <1>5, <1>6, <1>7, <1>8 DEF IInv

LEMMA TickInv ==
    ASSUME IInv, Tick
    PROVE  IInv'
<1> USE DEF Tick, PollsLeft, PollsAfter, windowVars, buildVars, jobVars, fileVars
<1>1. current = 0 /\ confDir \in Flavors
  BY DEF IInv, HelperIsProtected, HelperKnown
<1>2. upc' \in {"ready", "done"}
      /\ (upc' = "done" => offered' = marker[confDir] /\ marker[confDir] # 0 /\ ~ timer')
  OBVIOUS
<1>3. TypeOK'
  <2>1. Flags'
    BY DEF Flags, IInv, TypeOK
  <2>2. polls' \in 0..MaxPolls
    <3>1. polls \in 0..MaxPolls
      BY DEF IInv, TypeOK
    <3>2. CASE polls' = polls
      BY <3>1, <3>2
    <3>3. CASE polls > 1 /\ polls' = polls - 1
      BY <3>1, <3>3
    <3> QED
      BY <3>2, <3>3
  <2>3. offered' \in 0..MaxJobs
    <3>1. marker[confDir] \in 0..MaxJobs /\ offered \in 0..MaxJobs
      BY <1>1 DEF IInv, TypeOK
    <3>2. offered' \in {offered, marker[confDir]}
      OBVIOUS
    <3> QED
      BY <3>1, <3>2
  <2> QED
    BY <1>2, <2>1, <2>2, <2>3 DEF Flags, IInv, TypeOK
<1>4. HelperIsProtected' /\ HelperKnown' /\ LockedMeans'
  BY <1>1, <1>2 DEF IInv, HelperIsProtected, HelperKnown, LockedMeans
<1>5. StaleOfferIsOrphan' /\ OfferMeans'
  <2> SUFFICES ASSUME upc' = "done" PROVE StaleOfferIsOrphan' /\ OfferMeans'
    BY <1>2 DEF StaleOfferIsOrphan, OfferMeans
  <2>1. marker[confDir] \in orphans
    BY <1>1, <1>2 DEF IInv, MarkersMean
  <2> QED
    BY <1>1, <1>2, <2>1, FoundMarker DEF StaleOfferIsOrphan, OfferMeans, Builds
<1>6. LaunchesCounted'
  BY <1>2 DEF IInv, LaunchesCounted, Live
<1>7. MarkersMean'
  BY <1>1 DEF IInv, MarkersMean, Builds
<1> QED
  BY <1>3, <1>4, <1>5, <1>6, <1>7 DEF IInv

LEMMA NextInv == IInv /\ [Next]_vars => IInv'
<1> SUFFICES ASSUME IInv, [Next]_vars PROVE IInv'
  OBVIOUS
<1>1. CASE Next
  BY <1>1, UserStepsInv, UiStepsInv, RemovesInv, PoolInv, FinishedProcInv, TickInv, JobStepsInv DEF Next
<1>2. CASE UNCHANGED vars
  <2>1. TypeOK'
    BY <1>2 DEF IInv, TypeOK, vars, windowVars, buildVars, pollVars, jobVars, fileVars, histVars
  <2> QED
    BY <1>2, <2>1, QuietStep DEF vars, windowVars, buildVars, pollVars, jobVars, fileVars, histVars
<1> QED
  BY <1>1, <1>2

\* A marker, a package and an offer always name launches that were made, and
\* the poll counter never wraps (conf-window.cpp, m_done_polls_left).
THEOREM TypeCorrect == Spec => []TypeOK
<1>1. IInv => TypeOK
  BY DEF IInv
<1> QED
  BY <1>1, InitInv, NextInv, PTL DEF Spec

\* What every place of the window's handlers may rely on.
THEOREM Invariant == Spec => []IInv
BY InitInv, NextInv, PTL DEF Spec

\* m_running guards m_cmd: no start() is dropped, no poll runs beside a helper
\* (run_cmd_async, finished_proc).
THEOREM HelperStaysProtected == Spec => []HelperIsProtected
<1>1. IInv => HelperIsProtected
  BY DEF IInv
<1> QED
  BY <1>1, Invariant, PTL

\* The install question is about the last build or one nobody waited for
\* (handle_build_done).
THEOREM OfferStaysTrue == Spec => []StaleOfferIsOrphan
<1>1. IInv => StaleOfferIsOrphan
  BY DEF IInv
<1> QED
  BY <1>1, Invariant, PTL

LEMMA InstallStep ==
    ASSUME IInv, Next, upc = "question", current' # current
    PROVE  /\ jobs'[current'].dir = jobs[offered].dir
           /\ pkgs[jobs[offered].dir] \in {0, offered} \cup orphans
<1>1. current = 0
  BY DEF IInv, HelperIsProtected
<1>2. InstallPackages
  <2>1. ~ UserSteps /\ ~ PoolRemoves /\ ~ PoolPrepares
    BY DEF UserSteps, SelectFlavor, CloseConf, Configure, ExecuteClick, Restart, UserActs,
           PoolRemoves, PoolPrepares, buildVars
  <2>2. ~ FinishedProc /\ ~ Tick
    BY DEF FinishedProc, Tick
  <2>3. ASSUME NEW i \in Jobs PROVE ~ JobSteps(i)
    BY DEF JobSteps, JobStarts, JobBuilds, JobEnds, buildVars
  <2>4. ~ Prepare /\ ~ LaunchBuild /\ ~ HandleBuildDone /\ ~ Declined
    BY DEF Prepare, LaunchBuild, HandleBuildDone, Declined, buildVars
  <2> QED
    BY <2>1, <2>2, <2>3, <2>4 DEF Next, UiSteps
<1>3. current' = count + 1 /\ jobs' = [jobs EXCEPT ![count + 1] = Job("install", confDir)]
  BY <1>1, <1>2 DEF InstallPackages, RunCmdAsync, InstallDir, jobVars
<1>4. count + 1 \in Jobs
  BY <1>2, SMTT(30) DEF InstallPackages, IInv, TypeOK
<1>5. jobs'[current'].dir = confDir
  BY <1>3, <1>4 DEF IInv, TypeOK, Job
<1> QED
  BY <1>5 DEF IInv, OfferMeans

\* pacman -U is given the directory of the build that was offered, and only its
\* packages or an orphan's are there (handle_build_done, m_build_conf_path).
THEOREM OfferedIsInstalled == Spec => InstallsOfferedBuild
<1>1. IInv /\ [Next]_vars
      => [upc = "question" /\ current' # current =>
             /\ jobs'[current'].dir = jobs[offered].dir
             /\ pkgs[jobs[offered].dir] \in {0, offered} \cup orphans]_vars
  BY InstallStep
<1> QED
  BY <1>1, Invariant, PTL DEF Spec, InstallsOfferedBuild
=============================================================================
