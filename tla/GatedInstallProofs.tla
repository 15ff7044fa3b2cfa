--------------------------- MODULE GatedInstallProofs ---------------------------
(***************************************************************************)
(* The installs proved for any kernels, directories and GPUs, any number   *)
(* of flows, builds and outside changes: the script's properties, carried  *)
(* over to the system it is part of, then the driver gate and the pairing  *)
(* of headers.  A kernel installed unwarned has its driver, and no command *)
(* names a package that pacman cannot find.                                *)
(***************************************************************************)
EXTENDS GatedInstall, RepoAddProofs

-----------------------------------------------------------------------------
\* Every step of the system is, for the repository, one of RepoNext's or none.
LEMMA StepIsRepoStep == [Next]_vars => [RepoNext]_repoVars
<1> SUFFICES ASSUME [Next]_vars, ~ UNCHANGED repoVars PROVE RepoNext
  OBVIOUS
<1>1. CASE Scripting \/ Publishing
  BY <1>1 DEF Scripting, Publishing, RepoNext
<1>2. CASE External
  BY <1>2 DEF External, RepoNext
<1>3. CASE AddRepo
  BY <1>3 DEF AddRepo, RepoNext
<1>4. CASE LateCommand \/ RepoAnswered
  BY <1>4 DEF LateCommand, RepoAnswered
<1>5. CASE Execute \/ InstallPrecompiled \/ InstallFromDirectory \/ BuildDone
  BY <1>5 DEF Execute, InstallPrecompiled, InstallFromDirectory, BuildDone
<1>6. CASE Inform \/ Recheck \/ EnsureHeaders
  BY <1>6 DEF Inform, Recheck, EnsureHeaders
<1>7. CASE \E w \in Windows : Decline(w) \/ Abort(w) \/ Migrate(w) \/ ContinueAnyway(w)
  BY <1>7 DEF Decline, Abort, Migrate, ContinueAnyway
<1>8. CASE PlanInstall \/ RunStep \/ CloseReport
  BY <1>8 DEF PlanInstall, RunStep, CloseReport
<1>9. CASE \/ \E yes \in BOOLEAN : AnswerInstall(yes)
           \/ InstallBuilt \/ BuiltInstalled
  BY <1>9 DEF AnswerInstall, InstallBuilt, BuiltInstalled
<1>10. CASE StartWorker \/ RunWorker \/ WorkerDone
  BY <1>10 DEF StartWorker, RunWorker, WorkerDone
<1>11. CASE UNCHANGED vars
  BY <1>11 DEF vars
<1> QED
  BY <1>1, <1>2, <1>3, <1>4, <1>5, <1>6, <1>7, <1>8, <1>9, <1>10, <1>11 DEF Next

\* The installs, the gate and its dialogs leave the repository to its script.
THEOREM KeepsRepoSpec == Spec => RepoSpec
<1>1. Init => RepoInit
  BY DEF Init
<1>2. [Next]_vars => [RepoNext]_repoVars
  BY StepIsRepoStep
<1> QED
  BY <1>1, <1>2, PTL DEF Spec, RepoSpec

\* The configuration file never has the section twice unless two runs of the
\* script overlapped (repo_add.sh:220).
THEOREM SectionOnceInSystem == Spec => []SectionOnce
BY KeepsRepoSpec, SectionStaysOnce, PTL

\* "Add repo" fails only of something outside it, of a key nobody can sign, or of
\* an untrusted key that the script does not name and gpg lists without its long
\* ID (repo_add.sh:136-217), whatever installs and builds run beside it.
THEOREM AddRepoFailsWithCause == Spec => []FailsWithCause
BY KeepsRepoSpec, FailureHasCause, PTL

\* The file never grows but of an append whose backup was written (repo_add.sh:246).
THEOREM BackupFirstInSystem == Spec => BackupFirst
BY KeepsRepoSpec, BackupComesFirst, PTL

-----------------------------------------------------------------------------
(* The installs.                                                           *)

FlowPlaces == {"idle", "dialog", "headers", "failed", "ask", "plan", "start", "run", "async",
               "report"}
Fresh == FlowPlaces \ {"run", "async", "report"}

Releases == [Kernels -> 0..MaxVersion]

PkgTypes ==
    /\ inst \in Releases /\ hdr \in Releases
    /\ drivers \subseteq {Precompiled} \cup DkmsDrivers
    /\ late \in Commands

UiTypes ==
    /\ rows \in 0..upstream
    /\ banner \in [Windows -> BOOLEAN]
    /\ adding \subseteq Scripts
    /\ count \in [flows : 0..MaxFlows, builds : 0..MaxBuilds, external : 0..MaxExternal]

(***************************************************************************)
(* A flow that has not begun has run nothing; one at work has run a prefix *)
(* of its steps, each with success, and what they install is there; one    *)
(* that reports ended with its last step or with the first that failed.    *)
(***************************************************************************)
There(f, n, versions) ==
    \A k \in f.steps[n].kernels : versions[k] > 0

FlowMeans(f, versions) ==
    /\ f.pc \in Fresh => f.rcs = <<>>
    /\ f.pc = "async" => Len(f.steps) = 1
    /\ f.pc = "run" =>
          /\ Len(f.rcs) < Len(f.steps)
          /\ \A n \in 1..Len(f.rcs) : f.rcs[n] = 0 /\ There(f, n, versions)
    /\ f.pc = "report" =>
          /\ Len(f.rcs) \in 1..Len(f.steps)
          /\ \A n \in 1..Len(f.rcs) :
                /\ f.rcs[n] = 0 => There(f, n, versions)
                /\ n < Len(f.rcs) => f.rcs[n] = 0
          /\ f.rcs[Len(f.rcs)] = 0 => Len(f.rcs) = Len(f.steps)

GoodFlow(f, versions) == f \in Flows /\ FlowMeans(f, versions)

\* The worker's transaction is one command.
WorkerMeans == worker.pc = "run" => worker.rcs = <<>> /\ Len(worker.steps) = 1

FlowsMean ==
    /\ flow \in [Windows -> Flows] /\ worker \in Flows
    /\ \A w \in Windows : FlowMeans(flow[w], inst)
    /\ FlowMeans(worker, inst) /\ WorkerMeans

InstallInv == RepoTypeOK /\ PkgTypes /\ UiTypes /\ FlowsMean

\* Nothing that is installed goes.
Stays == \A k \in Kernels : inst[k] > 0 => inst'[k] > 0

LEMMA InvGivesType == InstallInv => TypeOK
<1> SUFFICES ASSUME InstallInv PROVE TypeOK
  OBVIOUS
<1>1. {known, longIds, overlap} \subseteq BOOLEAN
  BY DEF InstallInv, RepoTypeOK
<1>2. {synced, rows} \subseteq 0..upstream /\ {inst, hdr} \subseteq Releases
  BY DEF InstallInv, RepoTypeOK, PkgTypes, UiTypes
<1> QED
  BY <1>1, <1>2 DEF InstallInv, RepoTypeOK, PkgTypes, UiTypes, FlowsMean, TypeOK, Places, Releases,
                    Rings, Runs, Says

LEMMA InvGivesSuccess == InstallInv => SuccessMeansAll
<1> SUFFICES ASSUME InstallInv, flow["main"].pc = "report", Verdict(flow["main"]) = "SUCCESS"
             PROVE  /\ AllOk(flow["main"])
                    /\ \A i \in DOMAIN flow["main"].steps :
                          \A k \in flow["main"].steps[i].kernels : inst[k] > 0
  BY DEF SuccessMeansAll
<1> DEFINE f == flow["main"]
<1>1. f \in Flows /\ FlowMeans(f, inst) /\ f.pc = "report"
  BY DEF InstallInv, FlowsMean, Windows
<1>2. f.rcs \in Seq(0..2) /\ f.steps \in Seq(Commands)
  BY <1>1 DEF Flows
<1>3. f.rcs[Len(f.rcs)] = 0
  BY DEF Verdict
<1> HIDE DEF f
<1>4. Len(f.rcs) = Len(f.steps) /\ Len(f.rcs) \in Nat \ {0}
  BY <1>1, <1>2, <1>3 DEF FlowMeans
<1>5. \A n \in 1..Len(f.rcs) : f.rcs[n] = 0 /\ There(f, n, inst)
  BY <1>1, <1>2, <1>3, <1>4 DEF FlowMeans
<1>6. DOMAIN f.rcs = 1..Len(f.rcs) /\ DOMAIN f.steps = 1..Len(f.steps)
  BY <1>2
<1> QED
  BY <1>4, <1>5, <1>6 DEF AllOk, There, f

LEMMA MeansStays ==
    ASSUME NEW f \in Flows, NEW v, NEW u, FlowMeans(f, v),
           \A k \in Kernels : v[k] > 0 => u[k] > 0
    PROVE  FlowMeans(f, u)
<1>1. f.rcs \in Seq(0..2) /\ f.steps \in Seq(Commands)
  BY DEF Flows
<1>2. ASSUME NEW n \in 1..Len(f.rcs), Len(f.rcs) <= Len(f.steps), There(f, n, v)
      PROVE  There(f, n, u)
  <2>1. n \in 1..Len(f.steps)
    BY <1>1, <1>2
  <2>2. f.steps[n] \in Commands
    BY <1>1, <2>1, ElementOfSeq
  <2>3. f.steps[n].kernels \subseteq Kernels
    BY <2>2 DEF Commands
  <2> QED
    BY <1>2, <2>3 DEF There
<1>3. Len(f.rcs) \in Nat /\ Len(f.steps) \in Nat
  BY <1>1
<1>4. f.pc = "run" =>
          /\ Len(f.rcs) < Len(f.steps)
          /\ \A n \in 1..Len(f.rcs) : f.rcs[n] = 0 /\ There(f, n, u)
  BY <1>2, <1>3 DEF FlowMeans
<1>5. f.pc = "report" =>
          /\ Len(f.rcs) \in 1..Len(f.steps)
          /\ \A n \in 1..Len(f.rcs) :
                /\ f.rcs[n] = 0 => There(f, n, u)
                /\ n < Len(f.rcs) => f.rcs[n] = 0
          /\ f.rcs[Len(f.rcs)] = 0 => Len(f.rcs) = Len(f.steps)
  BY <1>2, <1>3 DEF FlowMeans
<1> QED
  BY <1>4, <1>5 DEF FlowMeans

\* One window's flow changes to a good one.
LEMMA FlowUpdate ==
    ASSUME FlowsMean, Stays, NEW w \in Windows, NEW g, GoodFlow(g, inst'),
           flow' = [flow EXCEPT ![w] = g], worker' = worker
    PROVE  FlowsMean'
<1>1. flow' \in [Windows -> Flows] /\ worker' \in Flows
  BY DEF FlowsMean, GoodFlow
<1>2. FlowMeans(worker', inst')
  BY MeansStays DEF FlowsMean, Stays
<1>3. ASSUME NEW x \in Windows PROVE FlowMeans(flow'[x], inst')
  <2>1. CASE x = w
    <3>1. flow'[x] = g
      BY <2>1 DEF FlowsMean
    <3> QED
      BY <3>1 DEF GoodFlow
  <2>2. CASE x # w
    <3>1. flow'[x] = flow[x] /\ flow[x] \in Flows /\ FlowMeans(flow[x], inst)
      BY <2>2 DEF FlowsMean
    <3>2. FlowMeans(flow[x], inst')
      BY <3>1, MeansStays DEF Stays
    <3> QED
      BY <3>1, <3>2
  <2> QED
    BY <2>1, <2>2
<1> QED
  BY <1>1, <1>2, <1>3 DEF FlowsMean, WorkerMeans

\* No flow changes.
LEMMA FlowsStay ==
    ASSUME FlowsMean, Stays, UNCHANGED <<flow, worker>>
    PROVE  FlowsMean'
<1>1. \A w \in Windows : flow[w] \in Flows /\ FlowMeans(flow[w], inst)
  BY DEF FlowsMean
<1>2. \A w \in Windows : FlowMeans(flow[w], inst')
  BY <1>1, MeansStays DEF Stays
<1>3. FlowMeans(worker, inst')
  BY MeansStays DEF FlowsMean, Stays
<1> QED
  BY <1>2, <1>3 DEF FlowsMean, WorkerMeans

LEMMA EmptyFlow == \A v : GoodFlow(NoFlow, v)
<1>1. <<>> \in Seq(Commands) /\ <<>> \in Seq(0..2) /\ <<>> \in Seq(Kernels)
  OBVIOUS
<1>2. NoTarget \in Targets
  BY <1>1 DEF NoTarget, Target, Targets
<1>3. NoFlow \in Flows
  BY <1>1, <1>2 DEF NoFlow, Flows
<1> QED
  BY <1>3 DEF GoodFlow, FlowMeans, NoFlow, Fresh

-----------------------------------------------------------------------------
(* The commands.                                                           *)

LEMMA VersionFits ==
    ASSUME RepoTypeOK, NEW c \in Commands
    PROVE  VersionOf(c) \in 0..MaxVersion
<1>1. c.version \in 0..MaxVersion
  BY DEF Commands
<1>2. upstream \in 1..MaxVersion /\ synced \in 0..upstream
  BY DEF RepoTypeOK
<1>3. MaxVersion \in Nat
  BY RepoAssumption
<1>4. synced \in 0..MaxVersion
  BY <1>2, <1>3
<1> QED
  BY <1>1, <1>4 DEF VersionOf

\* pacman installs a version there is: of a package it can find.
LEMMA CommitFacts ==
    ASSUME RepoTypeOK, PkgTypes, NEW c \in Commands, Commit(c)
    PROVE  /\ inst' \in Releases /\ hdr' \in Releases
           /\ drivers' \subseteq {Precompiled} \cup DkmsDrivers
           /\ Findable(c) => /\ Stays
                             /\ \A k \in c.kernels : inst'[k] > 0
<1>1. VersionOf(c) \in 0..MaxVersion
  BY VersionFits
<1>2. inst' \in Releases /\ hdr' \in Releases
  BY <1>1 DEF Commit, PkgTypes, Releases
<1>3. drivers' \subseteq {Precompiled} \cup DkmsDrivers
  BY DEF Commit, PkgTypes, Commands
<1>4. ASSUME Findable(c), NEW k \in c.kernels PROVE VersionOf(c) > 0
  <2>1. CASE c.version > 0
    BY <2>1 DEF VersionOf
  <2>2. CASE ~ (c.version > 0)
    <3>1. c.kernels \cup c.headers # {}
      BY <1>4
    <3>2. InSyncDb
      BY <1>4, <2>2, <3>1 DEF Findable
    <3>3. c.version = 0
      <4>1. c.version \in 0..MaxVersion /\ MaxVersion \in Nat
        BY RepoAssumption DEF Commands
      <4> QED
        BY <4>1, <2>2
    <3> QED
      BY <3>2, <3>3 DEF InSyncDb, VersionOf
  <2> QED
    BY <2>1, <2>2
<1>5. c.kernels \subseteq Kernels
  BY DEF Commands
<1>6. ASSUME Findable(c) PROVE Stays /\ \A k \in c.kernels : inst'[k] > 0
  BY <1>4, <1>5, <1>6 DEF Commit, Stays
<1> QED
  BY <1>2, <1>3, <1>6

LEMMA RunFacts ==
    ASSUME RepoTypeOK, PkgTypes, NEW c \in Commands, NEW rc \in 0..2, Run(c, rc)
    PROVE  PkgTypes' /\ Stays /\ (rc = 0 => \A k \in c.kernels : inst'[k] > 0)
<1>1. CASE Findable(c) /\ Commit(c) /\ UNCHANGED late
  BY <1>1, CommitFacts DEF PkgTypes
<1>2. CASE rc # 0 /\ UNCHANGED <<pkgVars, late>>
  BY <1>2 DEF pkgVars, PkgTypes, Stays
<1>3. CASE rc # 0 /\ late' = c /\ UNCHANGED pkgVars
  BY <1>3 DEF pkgVars, PkgTypes, Stays
<1> QED
  BY <1>1, <1>2, <1>3 DEF Run

LEMMA LateFacts ==
    ASSUME RepoTypeOK, PkgTypes, LateCommand
    PROVE  PkgTypes' /\ Stays
<1>1. NoCommand \in Commands
  BY RepoAssumption DEF NoCommand, Command, Commands
<1>2. late \in Commands /\ late' \in Commands
  BY <1>1 DEF PkgTypes, LateCommand
<1>3. CASE Findable(late)
  BY <1>2, <1>3, CommitFacts DEF LateCommand, PkgTypes
<1>4. CASE ~ Findable(late)
  BY <1>2, <1>4 DEF LateCommand, PkgTypes, pkgVars, Stays
<1> QED
  BY <1>3, <1>4

-----------------------------------------------------------------------------
(* The commands a flow holds.                                              *)

LEMMA NamesAreKernels == \A t \in Targets : Names(t) \subseteq Kernels
<1> SUFFICES ASSUME NEW t \in Targets, NEW i \in DOMAIN t.names
             PROVE  t.names[i] \in Kernels
  BY DEF Names
<1>1. t.names \in Seq(Kernels)
  BY DEF Targets
<1> QED
  BY <1>1, ElementOfSeq

LEMMA CommandType ==
    ASSUME NEW ks \in SUBSET Kernels, NEW hs \in SUBSET Kernels, NEW v \in 0..MaxVersion,
           NEW d \in DkmsDrivers \cup {""}
    PROVE  Command(ks, hs, v, d) \in Commands
BY DEF Command, Commands

LEMMA RepoCommandType ==
    ASSUME NEW ks \in SUBSET Kernels, NEW hs \in SUBSET Kernels
    PROVE  Command(ks, hs, 0, "") \in Commands
<1>1. 0 \in 0..MaxVersion
  BY RepoAssumption
<1> QED
  BY <1>1, CommandType

LEMMA MigrationType == \A t \in Targets : Migration(t) \in Commands
<1> SUFFICES ASSUME NEW t \in Targets PROVE Migration(t) \in Commands
  OBVIOUS
<1>1. 0 \in 0..MaxVersion
  BY RepoAssumption
<1>2. SelectDkms \in DkmsDrivers
  BY DEF SelectDkms, DkmsDrivers
<1> QED
  BY <1>1, <1>2, NamesAreKernels, CommandType DEF Migration

LEMMA LocalType == \A d \in Dirs \cup {NoDir} : LocalPackages(d) \in Commands
<1> SUFFICES ASSUME NEW d \in Dirs \cup {NoDir} PROVE LocalPackages(d) \in Commands
  OBVIOUS
<1>1. d.kernels \in Seq(Kernels) /\ d.headers \subseteq Kernels
  <2>1. CASE d \in Dirs
    BY <2>1, InstallAssumption
  <2>2. CASE d = NoDir
    BY <2>2 DEF NoDir
  <2> QED
    BY <2>1, <2>2
<1>2. d.version \in 0..MaxVersion
  <2>1. CASE d \in Dirs
    <3>1. d.version \in 1..MaxVersion
      BY <2>1, InstallAssumption
    <3> QED
      BY <3>1, RepoAssumption
  <2>2. CASE d = NoDir
    BY <2>2, RepoAssumption DEF NoDir
  <2> QED
    BY <2>1, <2>2
<1>3. {d.kernels[i] : i \in DOMAIN d.kernels} \subseteq Kernels
  BY <1>1, ElementOfSeq
<1> QED
  BY <1>1, <1>2, <1>3, CommandType DEF LocalPackages

LEMMA PairingType == \A t \in Targets : Pairing(t) \subseteq Kernels
BY NamesAreKernels DEF Pairing

LEMMA PlanType ==
    ASSUME NEW f \in Flows
    PROVE  Plan(f) \in Seq(Commands) /\ Len(Plan(f)) > 0
<1>1. f.target \in Targets /\ f.target.dir \in Dirs \cup {NoDir}
  BY DEF Flows, Targets
<1>2. /\ Command(Names(f.target), Pairing(f.target), 0, "") \in Commands
      /\ Command({}, Pairing(f.target), 0, "") \in Commands
      /\ LocalPackages(f.target.dir) \in Commands
  BY <1>1, NamesAreKernels, PairingType, LocalType, RepoCommandType
<1> QED
  <2> DEFINE a == Command(Names(f.target), Pairing(f.target), 0, "")
             b == Command({}, Pairing(f.target), 0, "")
             c == LocalPackages(f.target.dir)
  <2>1. Plan(f) \in {<<a>>, <<c>>, <<b, c>>}
    BY DEF Plan
  <2>2. a \in Commands /\ b \in Commands /\ c \in Commands
    BY <1>2
  <2> HIDE DEF a, b, c
  <2>3. /\ <<a>> \in Seq(Commands) /\ <<c>> \in Seq(Commands) /\ <<b, c>> \in Seq(Commands)
        /\ Len(<<a>>) > 0 /\ Len(<<c>>) > 0 /\ Len(<<b, c>>) > 0
    BY <2>2
  <2>4. \A p \in {<<a>>, <<c>>, <<b, c>>} : p \in Seq(Commands) /\ Len(p) > 0
    BY <2>3
  <2> HIDE DEF a, b, c
  <2> QED
    BY <2>1, <2>4, Zenon

-----------------------------------------------------------------------------
(* The targets and the flows that start with them.                         *)

LEMMA PassedPlaces == \A f : Passed(f) \in {"start", "ask", "plan"}
BY DEF Passed

LEMMA ActType == \A t : EvaluateGate(t) \in {"PROCEED", "WARN_MIGRATE", "ENSURE_HEADERS", "WARN_ONLY"}
BY DEF EvaluateGate

LEMMA FreshPlace ==
    ASSUME NEW f \in Flows, NEW v, FlowMeans(f, v), f.pc \in Fresh, NEW p \in Fresh
    PROVE  GoodFlow([f EXCEPT !.pc = p], v)
BY DEF GoodFlow, Flows, FlowMeans, Fresh, FlowPlaces

LEMMA EnterGood ==
    ASSUME NEW w \in Windows, NEW t \in Targets, NEW v, 
           NEW kind \in {"execute", "precompiled", "directory", "built"},
           EnterGate(w, kind, t)
    PROVE  \E g : GoodFlow(g, v) /\ flow' = [flow EXCEPT ![w] = g]
<1> DEFINE act == EvaluateGate(t)
           f == [NoFlow EXCEPT !.kind = kind, !.target = t, !.act = act]
           g == [f EXCEPT !.pc = IF act = "PROCEED" THEN Passed(f) ELSE "dialog"]
<1>1. flow' = [flow EXCEPT ![w] = g]
  BY DEF EnterGate
<1>2. act \in {"PROCEED", "WARN_MIGRATE", "ENSURE_HEADERS", "WARN_ONLY"}
  BY ActType
<1>3. NoFlow \in Flows /\ NoFlow.pc = "idle" /\ NoFlow.rcs = <<>>
  BY EmptyFlow DEF GoodFlow, NoFlow
<1> HIDE DEF act
<1>4. f \in Flows /\ f.rcs = <<>>
  BY <1>2, <1>3 DEF Flows
<1>5. (IF act = "PROCEED" THEN Passed(f) ELSE "dialog") \in {"start", "ask", "plan", "dialog"}
  BY PassedPlaces
<1> HIDE DEF f
<1>6. g \in Flows /\ g.rcs = <<>> /\ g.pc \in {"start", "ask", "plan", "dialog"}
  BY <1>4, <1>5 DEF Flows
<1> HIDE DEF g
<1> QED
  BY <1>1, <1>6 DEF GoodFlow, FlowMeans, Fresh

\* A finished step of a flow at work, as its command left the packages.
LEMMA AfterStepGood ==
    ASSUME NEW f \in Flows, FlowMeans(f, inst), f.pc = "run", NEW rc \in 0..2, Stays,
           rc = 0 => \A k \in f.steps[Len(f.rcs) + 1].kernels : inst'[k] > 0
    PROVE  GoodFlow(AfterStep(f, rc), inst')
<1> DEFINE m == Len(f.rcs)
           g == AfterStep(f, rc)
<1>1. f.rcs \in Seq(0..2) /\ f.steps \in Seq(Commands) /\ m \in Nat /\ m < Len(f.steps)
  BY DEF Flows, FlowMeans
<1>2. FlowMeans(f, inst')
  BY MeansStays DEF Stays
<1>3. /\ Append(f.rcs, rc) \in Seq(0..2) /\ Len(Append(f.rcs, rc)) = m + 1
      /\ Append(f.rcs, rc)[m + 1] = rc
      /\ \A n \in 1..m : Append(f.rcs, rc)[n] = f.rcs[n]
  BY <1>1
<1>4. /\ g \in Flows /\ g.rcs = Append(f.rcs, rc) /\ g.steps = f.steps
      /\ g.pc = IF rc # 0 \/ m + 1 = Len(f.steps) THEN "report" ELSE "run"
  BY <1>3 DEF AfterStep, Flows
<1>l. Len(g.rcs) = m + 1
  BY <1>3, <1>4
<1> HIDE DEF g, m
<1>5. \A n \in 1..m : g.rcs[n] = 0 /\ There(g, n, inst')
  BY <1>2, <1>3, <1>4 DEF FlowMeans, There, m
<1>6. rc = 0 => There(g, m + 1, inst')
  BY <1>4 DEF There, m
<1>7. CASE g.pc = "run"
  <2>1. rc = 0 /\ m + 1 < Len(g.steps)
    BY <1>1, <1>4, <1>7
  <2>2. \A n \in 1..(m + 1) : g.rcs[n] = 0 /\ There(g, n, inst')
    BY <1>1, <1>3, <1>4, <1>5, <1>6, <2>1
  <2>3. Len(g.rcs) < Len(g.steps) /\ \A n \in 1..Len(g.rcs) : g.rcs[n] = 0 /\ There(g, n, inst')
    BY <1>l, <2>1, <2>2
  <2>5. g.pc \notin Fresh /\ g.pc # "async" /\ g.pc # "report"
    BY <1>7 DEF Fresh
  <2>6. FlowMeans(g, inst')
    BY <1>7, <2>3, <2>5 DEF FlowMeans
  <2> QED
    BY <1>4, <2>6 DEF GoodFlow, g
<1>8. CASE g.pc = "report"
  <2>1. m + 1 \in 1..Len(g.steps)
    BY <1>1, <1>4
  <2>2. \A n \in 1..(m + 1) : /\ g.rcs[n] = 0 => There(g, n, inst')
                              /\ n < m + 1 => g.rcs[n] = 0
    BY <1>1, <1>3, <1>4, <1>5, <1>6
  <2>3. g.rcs[m + 1] = 0 => m + 1 = Len(g.steps)
    BY <1>3, <1>4, <1>8
  <2>4. /\ Len(g.rcs) \in 1..Len(g.steps)
        /\ \A n \in 1..Len(g.rcs) : /\ g.rcs[n] = 0 => There(g, n, inst')
                                    /\ n < Len(g.rcs) => g.rcs[n] = 0
        /\ g.rcs[Len(g.rcs)] = 0 => Len(g.rcs) = Len(g.steps)
    BY <1>l, <2>1, <2>2, <2>3
  <2>5. g.pc \notin Fresh /\ g.pc # "async" /\ g.pc # "run"
    BY <1>8 DEF Fresh
  <2>6. FlowMeans(g, inst')
    BY <1>8, <2>4, <2>5 DEF FlowMeans
  <2> QED
    BY <1>4, <2>6 DEF GoodFlow, g
<1> QED
  BY <1>4, <1>7, <1>8

LEMMA OrdersAreSeqs ==
    ASSUME NEW S \in SUBSET Kernels, S # {}, NEW s \in Orders(S)
    PROVE  s \in Seq(Kernels) /\ s[1] \in Kernels
<1>1. IsFiniteSet(S)
  BY InstallAssumption, FS_Subset
<1>2. Cardinality(S) \in Nat /\ Cardinality(S) # 0
  BY <1>1, FS_CardinalityType, FS_EmptySet
<1>3. s \in [1..Cardinality(S) -> S]
  BY DEF Orders
<1>4. s \in Seq(S)
  BY <1>2, <1>3
<1>5. s \in Seq(Kernels)
  BY <1>4, SeqMonotonic
<1>6. s[1] \in S
  BY <1>2, <1>3
<1> QED
  BY <1>5, <1>6

LEMMA TargetType ==
    ASSUME NEW names \in Seq(Kernels),
           NEW kver \in {NoKver} \cup (Kernels \X (1..MaxVersion)), NEW dir \in Dirs \cup {NoDir}
    PROVE  Target(names, kver, dir) \in Targets
BY DEF Target, Targets

LEMMA DirTargetType == \A d \in Dirs : DirTarget(d) \in Targets
<1> SUFFICES ASSUME NEW d \in Dirs PROVE DirTarget(d) \in Targets
  OBVIOUS
<1>1. d.kernels \in Seq(Kernels) /\ d.version \in 1..MaxVersion
  BY InstallAssumption
<1>2. CASE d.kernels = <<>>
  BY <1>2 DEF DirTarget, Target, Targets
<1>3. CASE d.kernels # <<>>
  <2>1. d.kernels[1] \in Kernels
    BY <1>1, <1>3
  <2>2. <<d.kernels[1]>> \in Seq(Kernels)
    BY <2>1
  <2>3. <<d.kernels[1], d.version>> \in Kernels \X (1..MaxVersion)
    BY <1>1, <2>1
  <2> QED
    BY <1>3, <2>2, <2>3, TargetType DEF DirTarget
<1> QED
  BY <1>2, <1>3

-----------------------------------------------------------------------------
(* The steps.                                                              *)

Kept == InstallInv' /\ Stays

LEMMA PackagesStay ==
    ASSUME PkgTypes, UNCHANGED <<pkgVars, late>>
    PROVE  PkgTypes' /\ Stays
BY DEF PkgTypes, pkgVars, Stays

LEMMA CountFits ==
    ASSUME UiTypes,
           Happens("flows", MaxFlows) \/ Happens("builds", MaxBuilds)
           \/ Happens("external", MaxExternal)
    PROVE  count' \in [flows : 0..MaxFlows, builds : 0..MaxBuilds, external : 0..MaxExternal]
<1>1. {MaxFlows, MaxBuilds, MaxExternal} \subseteq Nat
  BY InstallAssumption
<1>2. CASE Happens("flows", MaxFlows)
  BY <1>1, <1>2 DEF Happens, UiTypes
<1>3. CASE Happens("builds", MaxBuilds)
  BY <1>1, <1>3 DEF Happens, UiTypes
<1>4. CASE Happens("external", MaxExternal)
  BY <1>1, <1>4 DEF Happens, UiTypes
<1> QED
  BY <1>2, <1>3, <1>4

LEMMA GotoGood ==
    ASSUME FlowsMean, Stays, NEW w \in Windows, flow[w].pc \in Fresh, NEW p \in Fresh,
           Goto(w, p), worker' = worker
    PROVE  FlowsMean'
<1>1. flow[w] \in Flows /\ FlowMeans(flow[w], inst')
  BY MeansStays DEF FlowsMean, Stays
<1>2. GoodFlow([flow[w] EXCEPT !.pc = p], inst')
  BY <1>1, FreshPlace
<1>3. flow' = [flow EXCEPT ![w] = [flow[w] EXCEPT !.pc = p]]
  BY DEF Goto, FlowsMean
<1> QED
  BY <1>2, <1>3, FlowUpdate

LEMMA ProceedGood ==
    ASSUME FlowsMean, Stays, NEW w \in Windows, flow[w].pc \in Fresh, Proceed(w),
           worker' = worker
    PROVE  FlowsMean'
<1>1. Passed(flow[w]) \in Fresh
  BY PassedPlaces DEF Fresh, FlowPlaces
<1> QED
  BY <1>1, GotoGood DEF Proceed

LEMMA DropGood ==
    ASSUME FlowsMean, Stays, NEW w \in Windows, Drop(w), worker' = worker
    PROVE  FlowsMean'
BY EmptyFlow, FlowUpdate DEF Drop

LEMMA EnterKeeps ==
    ASSUME FlowsMean, Stays, NEW w \in Windows, NEW t \in Targets,
           NEW kind \in {"execute", "precompiled", "directory", "built"},
           EnterGate(w, kind, t), worker' = worker
    PROVE  FlowsMean'
<1>1. PICK g : GoodFlow(g, inst') /\ flow' = [flow EXCEPT ![w] = g]
  BY EnterGood
<1> QED
  BY <1>1, FlowUpdate

LEMMA BeginSteps ==
    ASSUME InstallInv, RepoTypeOK',
           Execute \/ InstallPrecompiled \/ InstallFromDirectory \/ BuildDone
    PROVE  Kept
<1>1. /\ UNCHANGED <<repoVars, pkgVars, rows, banner, worker, adding, late>>
      /\ Happens("flows", MaxFlows) \/ Happens("builds", MaxBuilds)
  BY DEF Execute, InstallPrecompiled, InstallFromDirectory, BuildDone, NewFlow
<1>2. PkgTypes' /\ Stays
  BY <1>1, PackagesStay DEF InstallInv
<1>3. UiTypes'
  BY <1>1, CountFits DEF InstallInv, UiTypes, repoVars
<1>4. FlowsMean'
  <2>w. "main" \in Windows /\ "conf" \in Windows
    BY DEF Windows
  <2>d. NoDir \in Dirs \cup {NoDir}
    OBVIOUS
  <2>1. CASE Execute
    <3>1. PICK S \in (SUBSET Installable) \ {{}} : \E names \in Orders(S) :
              EnterGate("main", "execute", Target(names, <<names[1], rows>>, NoDir))
      BY <2>1 DEF Execute
    <3>2. PICK names \in Orders(S) :
              EnterGate("main", "execute", Target(names, <<names[1], rows>>, NoDir))
      BY <3>1
    <3>3. S \in SUBSET Kernels /\ S # {}
      BY <3>1 DEF Installable, Kernels
    <3>4. names \in Seq(Kernels) /\ names[1] \in Kernels
      BY <3>3, OrdersAreSeqs
    <3>5. rows > 0
      BY <3>1 DEF Installable
    <3>6. rows \in 1..MaxVersion
      <4>1. rows \in 0..upstream /\ upstream \in 1..MaxVersion /\ MaxVersion \in Nat
        BY RepoAssumption DEF InstallInv, UiTypes, RepoTypeOK
      <4> QED
        BY <4>1, <3>5
    <3>7. Target(names, <<names[1], rows>>, NoDir) \in Targets
      BY <3>4, <3>6, <2>d, TargetType
    <3> QED
      BY <1>1, <1>2, <2>w, <3>2, <3>7, EnterKeeps DEF InstallInv
  <2>2. CASE InstallPrecompiled
    <3>1. PICK k \in Repo : EnterGate("main", "precompiled", Target(<<k>>, NoKver, NoDir))
      BY <2>2 DEF InstallPrecompiled
    <3>2. <<k>> \in Seq(Kernels)
      BY DEF Kernels
    <3>3. Target(<<k>>, NoKver, NoDir) \in Targets
      BY <3>2, <2>d, TargetType
    <3> QED
      BY <1>1, <1>2, <2>w, <3>1, <3>3, EnterKeeps DEF InstallInv
  <2>3. CASE InstallFromDirectory
    <3>1. PICK d \in Dirs : EnterGate("main", "directory", DirTarget(d))
      BY <2>3 DEF InstallFromDirectory
    <3> QED
      BY <1>1, <1>2, <2>w, <3>1, DirTargetType, EnterKeeps DEF InstallInv
  <2>4. CASE BuildDone
    <3>1. PICK d \in Dirs : EnterGate("conf", "built", DirTarget(d))
      BY <2>4 DEF BuildDone
    <3> QED
      BY <1>1, <1>2, <2>w, <3>1, DirTargetType, EnterKeeps DEF InstallInv
  <2> QED
    BY <2>1, <2>2, <2>3, <2>4
<1> QED
  BY <1>2, <1>3, <1>4 DEF Kept, InstallInv

\* "dialog", "headers" and "failed" are places of a flow that has run nothing.
LEMMA DialogIsFresh ==
    \A p : p \in {"idle", "dialog", "headers", "failed", "ask", "plan", "start"}
           <=> p \in Fresh
BY DEF Fresh, FlowPlaces

LEMMA DialogSteps ==
    ASSUME InstallInv, RepoTypeOK',
           \/ Inform \/ Recheck \/ EnsureHeaders
           \/ \E w \in Windows : Decline(w) \/ Abort(w) \/ Migrate(w) \/ ContinueAnyway(w)
    PROVE  Kept
<1> USE DialogIsFresh
<1>w. "main" \in Windows /\ "conf" \in Windows
  BY DEF Windows
<1>f. \A w \in Windows : flow[w] \in Flows /\ FlowMeans(flow[w], inst)
  BY DEF InstallInv, FlowsMean
<1>q. ASSUME UNCHANGED <<repoVars, rows, worker, adding, count>>,
             banner' \in [Windows -> BOOLEAN], PkgTypes', Stays, FlowsMean'
      PROVE  Kept
  <2>1. UiTypes'
    BY <1>q DEF InstallInv, UiTypes, repoVars
  <2> QED
    BY <1>q, <2>1 DEF Kept, InstallInv
<1>b. banner \in [Windows -> BOOLEAN]
  BY DEF InstallInv, UiTypes
<1>1. CASE Inform
  <2>1. PkgTypes' /\ Stays
    BY <1>1, PackagesStay DEF Inform, InstallInv
  <2>2. FlowsMean'
    BY <1>1, <1>w, <2>1, ProceedGood DEF Inform, At, InstallInv
  <2> QED
    BY <1>1, <1>b, <1>q, <2>1, <2>2 DEF Inform
<1>2. CASE Recheck
  <2>1. PkgTypes' /\ Stays
    BY <1>2, PackagesStay DEF Recheck, InstallInv
  <2>2. CASE Proceed("conf")
    <3>1. FlowsMean'
      BY <1>2, <1>w, <2>1, <2>2, ProceedGood DEF Recheck, At, InstallInv
    <3> QED
      BY <1>2, <1>b, <1>q, <2>1, <3>1 DEF Recheck
  <2>3. CASE flow' = [flow EXCEPT !["conf"].act = "WARN_ONLY"]
    <3>1. flow["conf"] \in Flows /\ FlowMeans(flow["conf"], inst') /\ flow["conf"].pc \in Fresh
      BY <1>2, <1>w, <1>f, <2>1, MeansStays DEF Recheck, At, Stays
    <3>2. GoodFlow([flow["conf"] EXCEPT !.act = "WARN_ONLY"], inst')
      BY <3>1 DEF GoodFlow, Flows, FlowMeans, Fresh
    <3>3. FlowsMean'
      BY <1>2, <1>w, <2>1, <2>3, <3>2, FlowUpdate DEF Recheck, InstallInv
    <3> QED
      BY <1>2, <1>b, <1>q, <2>1, <3>3 DEF Recheck
  <2>4. CASE Goto("conf", "headers")
    <3>1. FlowsMean'
      BY <1>2, <1>w, <2>1, <2>4, GotoGood DEF Recheck, At, InstallInv
    <3> QED
      BY <1>2, <1>b, <1>q, <2>1, <3>1 DEF Recheck
  <2> QED
    BY <1>2, <2>2, <2>3, <2>4 DEF Recheck
<1>3. CASE EnsureHeaders
  <2>1. PICK rc \in 0..2 : /\ Run(Command({}, Names(flow["conf"].target), 0, ""), rc)
                           /\ IF rc = 0 THEN Proceed("conf") ELSE Goto("conf", "failed")
    BY <1>3 DEF EnsureHeaders
  <2>2. flow["conf"].target \in Targets
    BY <1>w, <1>f DEF Flows
  <2>3. Command({}, Names(flow["conf"].target), 0, "") \in Commands
    BY <2>2, NamesAreKernels, RepoCommandType
  <2>4. PkgTypes' /\ Stays
    BY <2>1, <2>3, RunFacts DEF InstallInv
  <2>5. FlowsMean'
    BY <1>3, <1>w, <2>1, <2>4, ProceedGood, GotoGood DEF EnsureHeaders, At, InstallInv
  <2> QED
    BY <1>3, <1>b, <1>q, <2>4, <2>5 DEF EnsureHeaders
<1>4. ASSUME NEW w \in Windows, Decline(w) PROVE Kept
  <2>1. PkgTypes' /\ Stays
    BY <1>4, PackagesStay DEF Decline, InstallInv
  <2>2. FlowsMean'
    BY <1>4, <2>1, ProceedGood DEF Decline, At, InstallInv
  <2>3. banner' \in [Windows -> BOOLEAN]
    BY <1>4, <1>b DEF Decline
  <2> QED
    BY <1>4, <1>q, <2>1, <2>2, <2>3 DEF Decline
<1>5. ASSUME NEW w \in Windows, Abort(w) PROVE Kept
  <2>1. PkgTypes' /\ Stays
    BY <1>5, PackagesStay DEF Abort, InstallInv
  <2>2. FlowsMean'
    BY <1>5, <2>1, DropGood DEF Abort, InstallInv
  <2> QED
    BY <1>5, <1>b, <1>q, <2>1, <2>2 DEF Abort
<1>6. ASSUME NEW w \in Windows, Migrate(w) PROVE Kept
  <2>1. PICK rc \in 0..2 :
            /\ Run(Migration(flow[w].target), rc)
            /\ IF Verified(flow[w].target, rc)
               THEN banner' = [banner EXCEPT ![w] = FALSE] /\ Proceed(w)
               ELSE UNCHANGED banner /\ Goto(w, "failed")
    BY <1>6 DEF Migrate
  <2>2. Migration(flow[w].target) \in Commands
    BY <1>f, MigrationType DEF Flows
  <2>3. PkgTypes' /\ Stays
    BY <2>1, <2>2, RunFacts DEF InstallInv
  <2>4. FlowsMean'
    BY <1>6, <2>1, <2>3, ProceedGood, GotoGood DEF Migrate, At, InstallInv
  <2>5. banner' \in [Windows -> BOOLEAN]
    BY <2>1, <1>b
  <2> QED
    BY <1>6, <1>q, <2>3, <2>4, <2>5 DEF Migrate
<1>7. ASSUME NEW w \in Windows, ContinueAnyway(w) PROVE Kept
  <2>1. PkgTypes' /\ Stays
    BY <1>7, PackagesStay DEF ContinueAnyway, InstallInv
  <2>2. CASE banner' = [banner EXCEPT ![w] = TRUE] /\ Proceed(w)
    <3>1. FlowsMean'
      BY <1>7, <2>1, <2>2, ProceedGood DEF ContinueAnyway, At, InstallInv
    <3>2. banner' \in [Windows -> BOOLEAN]
      BY <2>2, <1>b
    <3> QED
      BY <1>7, <1>q, <2>1, <3>1, <3>2 DEF ContinueAnyway
  <2>3. CASE /\ flow' = [flow EXCEPT ![w].pc = Passed(flow[w]), ![w].anyway = TRUE]
             /\ UNCHANGED banner
    <3>1. flow[w] \in Flows /\ FlowMeans(flow[w], inst') /\ flow[w].pc \in Fresh
      BY <1>7, <1>f, <2>1, MeansStays DEF ContinueAnyway, At, Stays
    <3>2. Passed(flow[w]) \in {"start", "ask", "plan"}
      BY PassedPlaces
    <3>3. GoodFlow([flow[w] EXCEPT !.pc = Passed(flow[w]), !.anyway = TRUE], inst')
      BY <3>1, <3>2 DEF GoodFlow, Flows, FlowMeans, Fresh
    <3>4. flow' = [flow EXCEPT ![w] = [flow[w] EXCEPT !.pc = Passed(flow[w]), !.anyway = TRUE]]
      BY <2>3 DEF InstallInv, FlowsMean
    <3>5. FlowsMean'
      BY <1>7, <2>1, <3>3, <3>4, FlowUpdate DEF ContinueAnyway, InstallInv
    <3> QED
      BY <1>7, <1>b, <1>q, <2>1, <2>3, <3>5 DEF ContinueAnyway
  <2> QED
    BY <1>7, <2>2, <2>3 DEF ContinueAnyway
<1> QED
  BY <1>1, <1>2, <1>3, <1>4, <1>5, <1>6, <1>7

LEMMA DatabaseRows ==
    ASSUME RepoTypeOK, UNCHANGED repoVars
    PROVE  synced \in 0..upstream' /\ 0 \in 0..upstream'
BY RepoAssumption DEF RepoTypeOK, repoVars

LEMMA InstallSteps ==
    ASSUME InstallInv, RepoTypeOK',
           \/ PlanInstall \/ RunStep \/ CloseReport
           \/ \E yes \in BOOLEAN : AnswerInstall(yes)
           \/ InstallBuilt \/ BuiltInstalled
    PROVE  Kept
<1> USE DialogIsFresh
<1>w. "main" \in Windows /\ "conf" \in Windows
  BY DEF Windows
<1>f. \A w \in Windows : flow[w] \in Flows /\ FlowMeans(flow[w], inst)
  BY DEF InstallInv, FlowsMean
<1>q. ASSUME UNCHANGED <<repoVars, banner, worker, adding, count>>,
             rows' \in 0..upstream', PkgTypes', Stays, FlowsMean'
      PROVE  Kept
  <2>1. UiTypes'
    BY <1>q DEF InstallInv, UiTypes, repoVars
  <2> QED
    BY <1>q, <2>1 DEF Kept, InstallInv
<1>r. UNCHANGED <<repoVars, rows>> => rows' \in 0..upstream'
  BY DEF InstallInv, UiTypes, repoVars
<1>m. /\ flow["main"] \in Flows /\ FlowMeans(flow["main"], inst)
      /\ flow["conf"] \in Flows /\ FlowMeans(flow["conf"], inst)
  BY <1>w, <1>f
<1>1. CASE PlanInstall
  <2>1. PkgTypes' /\ Stays
    BY <1>1, PackagesStay DEF PlanInstall, InstallInv
  <2> DEFINE f == flow["main"]
             p == Plan(f)
             g == [f EXCEPT !.pc = "run", !.steps = p]
  <2>2. p \in Seq(Commands) /\ Len(p) > 0
    BY <1>m, PlanType
  <2>3. f \in Flows /\ f.rcs = <<>>
    BY <1>1, <1>m DEF PlanInstall, At, FlowMeans
  <2>4. flow' = [flow EXCEPT !["main"] = g]
    BY <1>1 DEF PlanInstall, InstallInv, FlowsMean
  <2> HIDE DEF p
  <2>5. g \in Flows /\ g.pc = "run" /\ g.steps = p /\ g.rcs = <<>>
    BY <2>2, <2>3 DEF Flows
  <2> HIDE DEF g, f
  <2>6. Len(g.rcs) < Len(g.steps) /\ 1..Len(g.rcs) = {}
    BY <2>2, <2>5
  <2>7. GoodFlow(g, inst')
    BY <2>5, <2>6 DEF GoodFlow, FlowMeans, Fresh
  <2>8. FlowsMean'
    BY <1>1, <1>w, <2>1, <2>4, <2>7, FlowUpdate DEF PlanInstall, InstallInv
  <2> QED
    BY <1>1, <1>q, <1>r, <2>1, <2>8 DEF PlanInstall
<1>2. CASE RunStep
  <2> DEFINE f == flow["main"]
             c == f.steps[Len(f.rcs) + 1]
  <2>1. PICK rc \in 0..2 : Run(c, rc) /\ flow' = [flow EXCEPT !["main"] = AfterStep(@, rc)]
    BY <1>2 DEF RunStep
  <2>2. f.pc = "run"
    BY <1>2 DEF RunStep, At
  <2>3. c \in Commands
    <3>1. f.steps \in Seq(Commands) /\ f.rcs \in Seq(0..2) /\ Len(f.rcs) < Len(f.steps)
      BY <1>m, <2>2 DEF Flows, FlowMeans
    <3> QED
      BY <3>1, ElementOfSeq
  <2>4. PkgTypes' /\ Stays /\ (rc = 0 => \A k \in c.kernels : inst'[k] > 0)
    BY <2>1, <2>3, RunFacts DEF InstallInv
  <2>5. GoodFlow(AfterStep(f, rc), inst')
    BY <1>m, <2>2, <2>4, AfterStepGood
  <2>6. flow' = [flow EXCEPT !["main"] = AfterStep(f, rc)]
    BY <2>1 DEF InstallInv, FlowsMean
  <2>7. FlowsMean'
    BY <1>2, <1>w, <2>4, <2>5, <2>6, FlowUpdate DEF RunStep, InstallInv
  <2> QED
    BY <1>2, <1>q, <1>r, <2>4, <2>7 DEF RunStep
<1>3. CASE CloseReport
  <2>1. PkgTypes' /\ Stays
    BY <1>3, PackagesStay DEF CloseReport, InstallInv
  <2>2. FlowsMean'
    BY <1>3, <1>w, <2>1, DropGood DEF CloseReport, InstallInv
  <2>3. rows' \in 0..upstream'
    BY <1>3, DatabaseRows DEF CloseReport, InstallInv, UiTypes, repoVars
  <2> QED
    BY <1>3, <1>q, <2>1, <2>2, <2>3 DEF CloseReport
<1>4. ASSUME NEW yes \in BOOLEAN, AnswerInstall(yes) PROVE Kept
  <2>1. PkgTypes' /\ Stays
    BY <1>4, PackagesStay DEF AnswerInstall, InstallInv
  <2>2. CASE Drop("conf")
    <3>1. FlowsMean'
      BY <1>4, <1>w, <2>1, <2>2, DropGood DEF AnswerInstall, InstallInv
    <3> QED
      BY <1>4, <1>q, <1>r, <2>1, <3>1 DEF AnswerInstall
  <2> DEFINE f == flow["conf"]
             c == LocalPackages(f.target.dir)
             g == [f EXCEPT !.pc = "async", !.steps = <<c>>]
  <2>3. CASE flow' = [flow EXCEPT !["conf"].pc = "async", !["conf"].steps = <<c>>]
    <3>1. f \in Flows
      BY <1>m
    <3>2. c \in Commands
      BY <3>1, LocalType DEF Flows, Targets
    <3>3. flow' = [flow EXCEPT !["conf"] = g]
      BY <2>3 DEF InstallInv, FlowsMean
    <3> HIDE DEF c
    <3>4. <<c>> \in Seq(Commands) /\ Len(<<c>>) = 1
      BY <3>2
    <3>5. g \in Flows /\ g.pc = "async" /\ Len(g.steps) = 1
      BY <3>1, <3>4 DEF Flows
    <3> HIDE DEF f, g
    <3>6. GoodFlow(g, inst')
      BY <3>5 DEF GoodFlow, FlowMeans, Fresh
    <3>7. FlowsMean'
      BY <1>4, <1>w, <2>1, <3>3, <3>6, FlowUpdate DEF AnswerInstall, InstallInv
    <3> QED
      BY <1>4, <1>q, <1>r, <2>1, <3>7 DEF AnswerInstall
  <2> QED
    BY <1>4, <2>2, <2>3 DEF AnswerInstall
<1>5. CASE InstallBuilt
  <2> DEFINE f == flow["conf"]
  <2>1. PICK rc \in 0..2 : Run(f.steps[1], rc) /\ flow' = [flow EXCEPT !["conf"].rcs = <<rc>>]
    BY <1>5 DEF InstallBuilt
  <2>2. f \in Flows /\ f.pc = "async" /\ Len(f.steps) = 1 /\ f.steps \in Seq(Commands)
    BY <1>5, <1>m DEF InstallBuilt, FlowMeans, Flows
  <2>3. f.steps[1] \in Commands
    BY <2>2
  <2>4. PkgTypes' /\ Stays
    BY <2>1, <2>3, RunFacts DEF InstallInv
  <2>5. flow' = [flow EXCEPT !["conf"] = [f EXCEPT !.rcs = <<rc>>]]
    BY <2>1 DEF InstallInv, FlowsMean
  <2>6. <<rc>> \in Seq(0..2)
    OBVIOUS
  <2>7. GoodFlow([f EXCEPT !.rcs = <<rc>>], inst')
    BY <2>2, <2>6 DEF GoodFlow, FlowMeans, Fresh, Flows
  <2>8. FlowsMean'
    BY <1>5, <1>w, <2>4, <2>5, <2>7, FlowUpdate DEF InstallBuilt, InstallInv
  <2> QED
    BY <1>5, <1>q, <1>r, <2>4, <2>8 DEF InstallBuilt
<1>6. CASE BuiltInstalled
  <2>1. PkgTypes' /\ Stays
    BY <1>6, PackagesStay DEF BuiltInstalled, InstallInv
  <2>2. FlowsMean'
    BY <1>6, <1>w, <2>1, DropGood DEF BuiltInstalled, InstallInv
  <2> QED
    BY <1>6, <1>q, <1>r, <2>1, <2>2 DEF BuiltInstalled
<1> QED
  BY <1>1, <1>2, <1>3, <1>4, <1>5, <1>6

LEMMA WorkerSteps ==
    ASSUME InstallInv, RepoTypeOK', StartWorker \/ RunWorker \/ WorkerDone
    PROVE  Kept
<1>w. "main" \in Windows
  BY DEF Windows
<1>m. /\ flow["main"] \in Flows /\ FlowMeans(flow["main"], inst)
      /\ worker \in Flows /\ FlowMeans(worker, inst)
  BY <1>w DEF InstallInv, FlowsMean
<1>q. ASSUME UNCHANGED <<repoVars, banner, adding, count>>, rows' \in 0..upstream',
             PkgTypes', Stays, GoodFlow(worker', inst'), WorkerMeans',
             UNCHANGED flow \/ Drop("main")
      PROVE  Kept
  <2>1. UiTypes'
    BY <1>q DEF InstallInv, UiTypes, repoVars
  <2>2. flow' \in [Windows -> Flows]
    BY <1>q, EmptyFlow DEF Drop, InstallInv, FlowsMean, GoodFlow
  <2>3. ASSUME NEW w \in Windows PROVE FlowMeans(flow'[w], inst')
    <3>1. flow'[w] = flow[w] \/ flow'[w] = NoFlow
      BY <1>q DEF Drop, InstallInv, FlowsMean
    <3>2. FlowMeans(flow[w], inst')
      BY <1>q, MeansStays DEF InstallInv, FlowsMean, Stays
    <3> QED
      BY <3>1, <3>2, EmptyFlow DEF GoodFlow
  <2> QED
    BY <1>q, <2>1, <2>2, <2>3 DEF Kept, InstallInv, FlowsMean, GoodFlow
<1>r. UNCHANGED <<repoVars, rows>> => rows' \in 0..upstream'
  BY DEF InstallInv, UiTypes, repoVars
<1>1. CASE StartWorker
  <2>1. PkgTypes' /\ Stays
    BY <1>1, PackagesStay DEF StartWorker, InstallInv
  <2> DEFINE f == flow["main"]
             c == Command(Names(f.target), Names(f.target), 0, "")
             g == [f EXCEPT !.pc = "run", !.steps = <<c>>]
  <2>2. f \in Flows /\ f.rcs = <<>>
    BY <1>1, <1>m, DialogIsFresh DEF StartWorker, At, FlowMeans
  <2>3. c \in Commands
    BY <2>2, NamesAreKernels, RepoCommandType DEF Flows
  <2>4. worker' = g
    BY <1>1 DEF StartWorker
  <2> HIDE DEF c
  <2>5. <<c>> \in Seq(Commands) /\ Len(<<c>>) = 1
    BY <2>3
  <2>6. g \in Flows /\ g.pc = "run" /\ g.steps = <<c>> /\ g.rcs = <<>>
    BY <2>2, <2>5 DEF Flows
  <2> HIDE DEF f, g
  <2>7. Len(g.rcs) < Len(g.steps) /\ 1..Len(g.rcs) = {}
    BY <2>5, <2>6
  <2>8. GoodFlow(g, inst')
    BY <2>6, <2>7 DEF GoodFlow, FlowMeans, Fresh
  <2>9. WorkerMeans'
    BY <2>4, <2>5, <2>6 DEF WorkerMeans
  <2> QED
    BY <1>1, <1>q, <1>r, <2>1, <2>4, <2>8, <2>9 DEF StartWorker
<1>2. CASE RunWorker
  <2>1. PICK rc \in 0..2 : Run(worker.steps[1], rc) /\ worker' = AfterStep(worker, rc)
    BY <1>2 DEF RunWorker
  <2>2. worker.pc = "run" /\ worker.rcs = <<>> /\ Len(worker.steps) = 1
    BY <1>2 DEF RunWorker, WorkerMeans, InstallInv, FlowsMean
  <2>3. worker.steps \in Seq(Commands) /\ Len(worker.rcs) + 1 = 1
    BY <1>m, <2>2 DEF Flows
  <2>4. worker.steps[1] \in Commands
    BY <2>2, <2>3
  <2>5. PkgTypes' /\ Stays /\ (rc = 0 => \A k \in worker.steps[1].kernels : inst'[k] > 0)
    BY <2>1, <2>4, RunFacts DEF InstallInv
  <2>6. GoodFlow(worker', inst')
    BY <1>m, <2>1, <2>2, <2>3, <2>5, AfterStepGood
  <2>7. WorkerMeans'
    <3>1. Len(Append(worker.rcs, rc)) = Len(worker.steps)
      BY <2>2
    <3>2. worker'.pc = "report"
      BY <1>m, <2>1, <3>1 DEF AfterStep, Flows
    <3> QED
      BY <3>2 DEF WorkerMeans
  <2> QED
    BY <1>2, <1>q, <1>r, <2>5, <2>6, <2>7 DEF RunWorker
<1>3. CASE WorkerDone
  <2>1. PkgTypes' /\ Stays
    BY <1>3, PackagesStay DEF WorkerDone, InstallInv
  <2>2. rows' \in 0..upstream'
    BY <1>3, DatabaseRows DEF WorkerDone, InstallInv, UiTypes, repoVars
  <2>3. GoodFlow(worker', inst') /\ WorkerMeans'
    BY <1>3, EmptyFlow DEF WorkerDone, WorkerMeans, NoFlow
  <2> QED
    BY <1>3, <1>q, <2>1, <2>2, <2>3 DEF WorkerDone
<1> QED
  BY <1>1, <1>2, <1>3

\* An outside change marks the flows, and nothing else of them.
LEMMA UncleanGood ==
    ASSUME NEW f \in Flows, NEW v, FlowMeans(f, v)
    PROVE  GoodFlow(Unclean(f), v)
<1>1. CASE f.pc = "idle"
  BY <1>1 DEF Unclean, GoodFlow
<1>2. CASE f.pc # "idle"
  <2> DEFINE g == [f EXCEPT !.clean = FALSE]
  <2>1. g \in Flows /\ g.pc = f.pc /\ g.steps = f.steps /\ g.rcs = f.rcs
    BY DEF Flows
  <2>2. Unclean(f) = g
    BY <1>2 DEF Unclean
  <2> HIDE DEF g
  <2>3. FlowMeans(g, v)
    BY <2>1 DEF FlowMeans, There
  <2> QED
    BY <2>1, <2>2, <2>3 DEF GoodFlow
<1> QED
  BY <1>1, <1>2

LEMMA OtherSteps ==
    ASSUME InstallInv, RepoTypeOK', upstream' >= upstream,
           \/ AddRepo \/ RepoAnswered \/ External \/ LateCommand
           \/ Scripting \/ Publishing \/ UNCHANGED vars
    PROVE  Kept
<1>u. upstream \in Nat /\ upstream' \in Nat /\ rows \in 0..upstream
  BY DEF InstallInv, UiTypes, RepoTypeOK
<1>r. UNCHANGED rows => rows' \in 0..upstream'
  BY <1>u
<1>q. ASSUME UNCHANGED banner, rows' \in 0..upstream', adding' \subseteq Scripts,
             count' \in [flows : 0..MaxFlows, builds : 0..MaxBuilds, external : 0..MaxExternal],
             PkgTypes', Stays, FlowsMean'
      PROVE  Kept
  BY <1>q DEF InstallInv, UiTypes, Kept
<1>c. /\ adding \subseteq Scripts
      /\ count \in [flows : 0..MaxFlows, builds : 0..MaxBuilds, external : 0..MaxExternal]
  BY DEF InstallInv, UiTypes
<1>1. CASE AddRepo
  <2>1. PkgTypes' /\ Stays
    BY <1>1, PackagesStay DEF AddRepo, InstallInv
  <2>2. FlowsMean'
    BY <1>1, <2>1, FlowsStay DEF AddRepo, InstallInv
  <2>3. count' \in [flows : 0..MaxFlows, builds : 0..MaxBuilds, external : 0..MaxExternal]
    BY <1>1, CountFits DEF AddRepo, NewFlow, InstallInv
  <2>4. adding' \subseteq Scripts
    BY <1>1 DEF AddRepo
  <2> QED
    BY <1>1, <1>q, <1>r, <2>1, <2>2, <2>3, <2>4 DEF AddRepo
<1>2. CASE RepoAnswered
  <2>1. PkgTypes' /\ Stays
    BY <1>2, PackagesStay DEF RepoAnswered, InstallInv
  <2>2. FlowsMean'
    BY <1>2, <2>1, FlowsStay DEF RepoAnswered, InstallInv
  <2>3. rows' \in 0..upstream' /\ adding' \subseteq Scripts
    BY <1>2, <1>r, DatabaseRows DEF RepoAnswered, InstallInv
  <2> QED
    BY <1>2, <1>c, <1>q, <2>1, <2>2, <2>3 DEF RepoAnswered
<1>3. CASE External
  <2>1. PkgTypes' /\ Stays
    <3>1. CASE UNCHANGED pkgVars
      BY <1>3, <3>1, PackagesStay DEF External, InstallInv
    <3>2. ASSUME NEW k \in Kernels, hdr' = [hdr EXCEPT ![k] = 0], UNCHANGED <<inst, drivers>>
          PROVE  PkgTypes' /\ Stays
      <4>1. hdr' \in Releases
        BY <3>2, RepoAssumption DEF InstallInv, PkgTypes, Releases
      <4> QED
        BY <1>3, <3>2, <4>1 DEF External, InstallInv, PkgTypes, Stays
    <3>3. CASE drivers' = {Precompiled} /\ UNCHANGED <<inst, hdr>>
      BY <1>3, <3>3 DEF External, InstallInv, PkgTypes, Stays
    <3> QED
      BY <1>3, <3>1, <3>2, <3>3 DEF External
  <2>2. FlowsMean'
    <3>1. /\ flow' = [w \in Windows |-> Unclean(flow[w])]
          /\ worker' = Unclean(worker)
      BY <1>3 DEF External
    <3>2. \A w \in Windows : GoodFlow(Unclean(flow[w]), inst')
      BY <2>1, MeansStays, UncleanGood DEF InstallInv, FlowsMean, Stays
    <3>3. GoodFlow(Unclean(worker), inst')
      BY <2>1, MeansStays, UncleanGood DEF InstallInv, FlowsMean, Stays
    <3>4. WorkerMeans'
      BY <3>1 DEF Unclean, WorkerMeans, InstallInv, FlowsMean, Flows
    <3> QED
      BY <3>1, <3>2, <3>3, <3>4 DEF FlowsMean, GoodFlow
  <2>3. count' \in [flows : 0..MaxFlows, builds : 0..MaxBuilds, external : 0..MaxExternal]
    BY <1>3, CountFits DEF External, InstallInv
  <2> QED
    BY <1>3, <1>c, <1>q, <1>r, <2>1, <2>2, <2>3 DEF External
<1>4. CASE LateCommand
  <2>1. PkgTypes' /\ Stays
    BY <1>4, LateFacts DEF InstallInv
  <2>2. FlowsMean'
    BY <1>4, <2>1, FlowsStay DEF LateCommand, InstallInv, uiVars
  <2> QED
    BY <1>4, <1>c, <1>q, <1>r, <2>1, <2>2 DEF LateCommand, uiVars
<1>5. CASE UNCHANGED <<pkgVars, uiVars, late, count>>
  <2>1. PkgTypes' /\ Stays
    BY <1>5, PackagesStay DEF InstallInv
  <2>2. FlowsMean'
    BY <1>5, <2>1, FlowsStay DEF InstallInv, uiVars
  <2> QED
    BY <1>5, <1>c, <1>q, <1>r, <2>1, <2>2 DEF uiVars
<1> QED
  BY <1>1, <1>2, <1>3, <1>4, <1>5 DEF Scripting, Publishing, vars

\* The releases upstream makes only grow.
LEMMA UpstreamGrows ==
    ASSUME RepoTypeOK, [RepoNext]_repoVars
    PROVE  upstream' >= upstream
<1>1. upstream \in Nat
  BY DEF RepoTypeOK
<1>2. CASE Release
  BY <1>1, <1>2 DEF Release
<1>3. CASE UNCHANGED upstream
  BY <1>1, <1>3
<1> QED
  BY <1>2, <1>3 DEF RepoNext, ScriptStep, Grep, Backup, AppendSection, Trust, Sync, Repair,
                    ImportKey, SignSigner, GiveUp, Retry, Kill, CommentOut, RefreshDatabases,
                    Begin, repoVars

LEMMA InitInstallInv == Init => InstallInv
<1> SUFFICES ASSUME Init PROVE InstallInv
  OBVIOUS
<1>1. RepoTypeOK
  BY RepoInitInv DEF Init, RepoInv
<1>2. 0 \in 0..MaxVersion
  BY RepoAssumption
<1>3. PkgTypes
  <2>1. inst \in Releases /\ hdr \in Releases
    BY <1>2 DEF Init, Releases
  <2>2. drivers \subseteq {Precompiled} \cup DkmsDrivers
    BY DEF Init, DkmsDrivers
  <2>3. NoCommand \in Commands
    BY <1>2, CommandType DEF NoCommand
  <2> QED
    BY <2>1, <2>2, <2>3 DEF Init, PkgTypes
<1>4. UiTypes
  <2>1. rows \in 0..upstream
    BY <1>1 DEF Init, RepoTypeOK
  <2>2. 0 \in 0..MaxFlows /\ 0 \in 0..MaxBuilds /\ 0 \in 0..MaxExternal
    <3>1. {MaxFlows, MaxBuilds, MaxExternal} \subseteq Nat
      BY InstallAssumption
    <3> QED
      BY <3>1
  <2>3. count \in [flows : 0..MaxFlows, builds : 0..MaxBuilds, external : 0..MaxExternal]
    BY <2>2 DEF Init
  <2> QED
    BY <2>1, <2>3 DEF Init, UiTypes
<1>5. FlowsMean
  BY EmptyFlow DEF Init, FlowsMean, GoodFlow, WorkerMeans, NoFlow
<1> QED
  BY <1>1, <1>3, <1>4, <1>5 DEF InstallInv

LEMMA StepKeeps ==
    ASSUME RepoInv, InstallInv, [Next]_vars
    PROVE  RepoInv' /\ Kept
<1>1. [RepoNext]_repoVars
  BY StepIsRepoStep
<1>2. RepoInv' /\ RepoTypeOK'
  BY <1>1, RepoStepInv DEF RepoInv
<1>3. upstream' >= upstream
  BY <1>1, UpstreamGrows DEF RepoInv
<1>4. CASE Execute \/ InstallPrecompiled \/ InstallFromDirectory \/ BuildDone
  BY <1>2, <1>4, BeginSteps
<1>5. CASE \/ Inform \/ Recheck \/ EnsureHeaders
           \/ \E w \in Windows : Decline(w) \/ Abort(w) \/ Migrate(w) \/ ContinueAnyway(w)
  BY <1>2, <1>5, DialogSteps
<1>6. CASE \/ PlanInstall \/ RunStep \/ CloseReport
           \/ \E yes \in BOOLEAN : AnswerInstall(yes)
           \/ InstallBuilt \/ BuiltInstalled
  BY <1>2, <1>6, InstallSteps
<1>7. CASE StartWorker \/ RunWorker \/ WorkerDone
  BY <1>2, <1>7, WorkerSteps
<1>8. CASE \/ AddRepo \/ RepoAnswered \/ External \/ LateCommand
           \/ Scripting \/ Publishing \/ UNCHANGED vars
  BY <1>2, <1>3, <1>8, OtherSteps
<1> QED
  BY <1>2, <1>4, <1>5, <1>6, <1>7, <1>8 DEF Next

\* Every flow's commands that ended ran in their order, each after the success of
\* the one before it, and what a successful one installed is still there.
THEOREM InstallInvariant == Spec => [](RepoInv /\ InstallInv)
<1>1. Init => RepoInv /\ InstallInv
  BY InitInstallInv, RepoInitInv DEF Init
<1>2. RepoInv /\ InstallInv /\ [Next]_vars => (RepoInv /\ InstallInv)'
  BY StepKeeps DEF Kept
<1> QED
  BY <1>1, <1>2, PTL DEF Spec

\* The types of the whole system, the repository's part included.
THEOREM TypeCorrect == Spec => []TypeOK
<1>1. InstallInv => TypeOK
  BY InvGivesType
<1> QED
  BY <1>1, InstallInvariant, PTL

\* A verdict of SUCCESS means that every command of the plan was run and
\* succeeded, and its kernels are installed (install_kernel.cpp:318, 575).
THEOREM SuccessIsComplete == Spec => []SuccessMeansAll
<1>1. InstallInv => SuccessMeansAll
  BY InvGivesSuccess
<1> QED
  BY <1>1, InstallInvariant, PTL

-----------------------------------------------------------------------------
(***************************************************************************)
(* What the flows rely on of the machine: its drivers and headers, the     *)
(* kernels pacman finds in the databases, those it finds as far as the     *)
(* program can tell (all of the repository's while the program takes for   *)
(* the section what pacman does not), and the codes no command then ends   *)
(* with.                                                                   *)
(***************************************************************************)
Machine ==
    [drivers |-> drivers, hdr |-> hdr,
     available |-> {k \in Repo : InSyncDb},
     offered |-> {k \in Repo : SameReading => InSyncDb},
     refused |-> {rc \in {2} : SameReading}]

\* What the steps of this system leave so, but for those of other programs.
Later(m, n) ==
    /\ \A k \in Kernels : m.hdr[k] > 0 => n.hdr[k] > 0
    /\ Precompiled \notin m.drivers =>
          /\ Precompiled \notin n.drivers
          /\ n.drivers \cap DkmsDrivers # {} => m.drivers \cap DkmsDrivers # {}
    /\ m.drivers # {} => n.drivers # {}
    /\ m.available \subseteq n.available
    /\ m.offered \subseteq n.offered
    /\ n.refused \subseteq m.refused

\* A command pacman finds the packages of.
Finds(c, kernels) == c.version > 0 \/ c.kernels \cup c.headers \subseteq kernels

\* What a flow holds wherever it is.
Fits(f, m) ==
    /\ IF f.pc = "idle" THEN f = NoFlow ELSE f.kind # "none"
    /\ f.pc = "start" => f.kind = "execute"
    /\ f.pc = "ask" => f.kind = "built"
    /\ f.pc = "plan" => f.kind \in {"precompiled", "directory"}
    /\ f.kind \in {"directory", "built"} => f.target.dir \in Dirs
    /\ f.kind = "precompiled" => f.target.dir = NoDir
    /\ f.kind # "execute" => Len(f.target.names) <= 1
    /\ f.target.kver # NoKver =>
          f.target.names # <<>> /\ f.target.kver[1] = f.target.names[1]
    /\ \A i \in DOMAIN f.steps : f.steps[i].driver = ""
    /\ DOMAIN f.rcs \subseteq DOMAIN f.steps
    /\ f.pc \in {"dialog", "failed"} /\ f.act = "WARN_MIGRATE" => m.drivers # {}
    /\ f.pc = "headers" => f.act = "ENSURE_HEADERS"

\* Nothing the flow runs is unknown to pacman.
Found(f, m) ==
    f.clean /\ f.kind # "execute" =>
        /\ f.kind = "precompiled" => Names(f.target) \subseteq m.offered
        /\ \A i \in DOMAIN f.steps : Finds(f.steps[i], m.offered)
        /\ \A i \in DOMAIN f.rcs : f.rcs[i] \notin m.refused

\* The headers a flow behind the gate has yet to bring.
Past == {"start", "ask", "plan", "run", "async", "report"}

Promised(f, k, m) ==
    \/ f.pc = "start"
    \/ f.pc \in {"ask", "plan"} /\ k \in f.target.dir.headers
    \/ f.pc = "plan" /\ OneName(f.target) /\ k \in m.available
    \/ f.pc \in {"run", "async", "report"} /\ \E i \in DOMAIN f.steps : k \in f.steps[i].headers

Covered(f, m) ==
    /\ Precompiled \notin m.drivers
    /\ m.drivers \cap DkmsDrivers # {} =>
          \A k \in Names(f.target) : m.hdr[k] > 0 \/ Promised(f, k, m)

HeadersThere(f, m) ==
    \A n \in DOMAIN f.rcs : f.rcs[n] = 0 => \A k \in f.steps[n].headers : m.hdr[k] > 0

Paired(f, warned, m) ==
    f.clean =>
        /\ (f.pc = "dialog" /\ f.act = "ENSURE_HEADERS") \/ f.pc = "headers" =>
              Precompiled \notin m.drivers /\ Names(f.target) \subseteq m.available
              /\ OneName(f.target)
        /\ HeadersThere(f, m)
        /\ f.pc \in Past /\ ~ warned /\ ~ f.anyway => Covered(f, m)

Sound(f, warned, m) == Fits(f, m) /\ Found(f, m) /\ Paired(f, warned, m)

\* The worker's transaction holds each kernel and its headers.
WorkerCarries ==
    worker.pc # "idle" =>
        /\ worker.kind = "execute" /\ worker.pc \in {"run", "report"}
        /\ worker.steps = <<Command(Names(worker.target), Names(worker.target), 0, "")>>

\* The driver of a command, and of the one that still runs, replaces another.
Replaces(c) == c.driver # "" => drivers # {}
LateReplaces == Replaces(late)

FlowsSound ==
    /\ \A w \in Windows : Sound(flow[w], banner[w], Machine)
    /\ Sound(worker, banner["main"], Machine)

\* The main window installs no build of its own.
MainKinds == flow["main"].kind # "built"

PairingInv == LateReplaces /\ WorkerCarries /\ MainKinds /\ FlowsSound

-----------------------------------------------------------------------------
(* A flow stays sound on a later machine.                                  *)

LEMMA StepHeaders ==
    ASSUME NEW f \in Flows, NEW i \in DOMAIN f.steps
    PROVE  f.steps[i] \in Commands /\ f.steps[i].headers \subseteq Kernels
<1>1. f.steps \in Seq(Commands)
  BY DEF Flows
<1>2. f.steps[i] \in Commands
  BY <1>1, ElementOfSeq
<1> QED
  BY <1>2 DEF Commands

LEMMA CoveredLater ==
    ASSUME NEW f \in Flows, NEW m, NEW n, Later(m, n), Covered(f, m)
    PROVE  Covered(f, n)
<1>1. Names(f.target) \subseteq Kernels
  BY NamesAreKernels DEF Flows
<1>2. ASSUME NEW k \in Names(f.target), m.hdr[k] > 0 \/ Promised(f, k, m)
      PROVE  n.hdr[k] > 0 \/ Promised(f, k, n)
  BY <1>1, <1>2 DEF Promised, Later
<1> QED
  BY <1>2 DEF Covered, Later

LEMMA SoundLater ==
    ASSUME NEW f \in Flows, NEW b, NEW m, NEW n, Later(m, n), Sound(f, b, m)
    PROVE  Sound(f, b, n)
<1>1. Fits(f, n)
  BY DEF Sound, Fits, Later
<1>2. Found(f, n)
  BY DEF Sound, Found, Finds, Later
<1>3. HeadersThere(f, m) => HeadersThere(f, n)
  <2> SUFFICES ASSUME HeadersThere(f, m), NEW i \in DOMAIN f.rcs, f.rcs[i] = 0,
                      NEW k \in f.steps[i].headers
               PROVE  n.hdr[k] > 0
    BY DEF HeadersThere
  <2>1. i \in DOMAIN f.steps
    BY DEF Sound, Fits
  <2> QED
    BY <2>1, StepHeaders DEF HeadersThere, Later
<1>4. Covered(f, m) => Covered(f, n)
  BY CoveredLater
<1>5. Paired(f, b, n)
  BY <1>3, <1>4 DEF Sound, Paired, Later
<1> QED
  BY <1>1, <1>2, <1>5 DEF Sound

\* A window that has warned asks no more of its flow.
LEMMA WarnedMore ==
    ASSUME NEW f, NEW m, NEW b, NEW c, b => c, Sound(f, b, m)
    PROVE  Sound(f, c, m)
BY DEF Sound, Paired

LEMMA NoFlowSound == \A b, m : Sound(NoFlow, b, m)
BY DEF Sound, Fits, Found, Paired, HeadersThere, NoFlow, NoTarget, Target, Past

-----------------------------------------------------------------------------
(* The machine.                                                            *)

LEMMA MachineFields ==
    /\ Machine.drivers = drivers /\ Machine.hdr = hdr
    /\ Machine.available = {k \in Repo : InSyncDb}
    /\ Machine.offered = {k \in Repo : SameReading => InSyncDb}
    /\ Machine.refused = {rc \in {2} : SameReading}
BY DEF Machine

LEMMA InitNotRefused == \A rc \in {0, 1} : rc \notin Machine.refused
BY MachineFields

\* What pacman finds, it finds among what is offered.
LEMMA FindableMeans ==
    ASSUME NEW c
    PROVE  /\ Findable(c) <=> Finds(c, Machine.available)
           /\ Findable(c) => Finds(c, Machine.offered)
           /\ ~ Findable(c) /\ Finds(c, Machine.offered) => 2 \notin Machine.refused
BY MachineFields DEF Findable, Finds

\* The sections and the databases only gain by the steps of this system.
RepoLater == (InSyncDb => InSyncDb') /\ (SameReading' => SameReading)

LEMMA UnchangedRepoLater == UNCHANGED <<conf, synced>> => RepoLater
BY DEF RepoLater, InSyncDb, SameReading

LEMMA AppendLater ==
    ASSUME RepoTypeOK, conf' = Append(conf, Header), UNCHANGED synced
    PROVE  RepoLater
<1>1. conf \in Seq(Lines)
  BY DEF RepoTypeOK
<1>2. DOMAIN conf' = 1..(Len(conf) + 1) /\ \A i \in 1..Len(conf) : conf'[i] = conf[i]
  BY <1>1
<1>3. DOMAIN conf = 1..Len(conf) /\ DOMAIN conf \subseteq DOMAIN conf'
  BY <1>1, <1>2
<1>4. InSyncDb => InSyncDb'
  BY <1>2, <1>3 DEF InSyncDb, PacmanReads, LinesOf
<1>5. SameReading' => SameReading
  BY <1>2, <1>3 DEF SameReading
<1> QED
  BY <1>4, <1>5 DEF RepoLater

LEMMA RefreshLater ==
    ASSUME RepoTypeOK, UNCHANGED conf, NEW able, Refreshed(able), upstream' = upstream
    PROVE  RepoLater
<1>1. upstream > 0
  BY DEF RepoTypeOK
<1>2. synced > 0 => synced' > 0
  BY <1>1 DEF Refreshed
<1> QED
  BY <1>2 DEF RepoLater, InSyncDb, SameReading

LEMMA ScriptLater == ASSUME RepoTypeOK, ScriptStep PROVE RepoLater
<1> PICK i \in Scripts : \/ Grep(i) \/ Backup(i) \/ AppendSection(i)
                       \/ Trust(i) \/ Sync(i) \/ Repair(i) \/ Retry(i) \/ Kill(i)
  BY DEF ScriptStep
<1>1. CASE Grep(i) \/ Backup(i) \/ Trust(i) \/ Repair(i) \/ Kill(i)
  BY <1>1, UnchangedRepoLater DEF Grep, Backup, Trust, Repair, ImportKey, SignSigner, GiveUp, Kill
<1>2. CASE AppendSection(i)
  BY <1>2, AppendLater, UnchangedRepoLater DEF AppendSection
<1>3. CASE Sync(i) \/ Retry(i)
  BY <1>3, RefreshLater DEF Sync, Retry
<1> QED
  BY <1>1, <1>2, <1>3

LEMMA RepoMachineLater ==
    ASSUME RepoLater, UNCHANGED <<drivers, hdr>>
    PROVE  Later(Machine, Machine')
<1>1. Machine'.drivers = Machine.drivers /\ Machine'.hdr = Machine.hdr
  BY DEF Machine
<1>2. Machine.available \subseteq Machine'.available
  BY DEF Machine, RepoLater
<1>3. Machine.offered \subseteq Machine'.offered
  BY DEF Machine, RepoLater
<1>4. Machine'.refused \subseteq Machine.refused
  BY DEF Machine, RepoLater
<1> QED
  BY <1>1, <1>2, <1>3, <1>4 DEF Later

LEMMA FoundVersion ==
    ASSUME NEW c \in Commands, Findable(c), NEW k \in c.headers
    PROVE  VersionOf(c) > 0
<1>1. c.version \in Nat
  <2>1. c.version \in 0..MaxVersion
    BY DEF Commands
  <2>2. MaxVersion \in Nat
    BY RepoAssumption
  <2> QED
    BY <2>1, <2>2
<1>2. c.version > 0 \/ synced > 0
  BY DEF Findable, InSyncDb
<1> QED
  BY <1>1, <1>2 DEF VersionOf

\* A command whose packages pacman found.
LEMMA CommitLater ==
    ASSUME RepoTypeOK, PkgTypes, NEW c \in Commands, Findable(c), Commit(c),
           Replaces(c), UNCHANGED <<conf, synced>>
    PROVE  /\ Later(Machine, Machine')
           /\ \A k \in c.headers : hdr'[k] > 0
<1>1. ASSUME NEW k \in c.headers PROVE VersionOf(c) > 0
  BY <1>1, FoundVersion
<1>2. c.headers \subseteq Kernels
  BY DEF Commands
<1>3. \A k \in c.headers : hdr'[k] > 0
  BY <1>1, <1>2 DEF Commit
<1>4. \A k \in Kernels : hdr[k] > 0 => hdr'[k] > 0
  BY <1>1 DEF Commit
<1>5. /\ drivers # {} => drivers' # {}
      /\ Precompiled \notin drivers =>
            /\ Precompiled \notin drivers'
            /\ drivers' \cap DkmsDrivers # {} => drivers \cap DkmsDrivers # {}
  <2>1. CASE c.driver = ""
    BY <2>1 DEF Commit
  <2>2. CASE c.driver # ""
    <3>1. drivers' = {c.driver} /\ c.driver \in DkmsDrivers /\ drivers # {}
      BY <2>2 DEF Commit, Commands, Replaces
    <3>2. Precompiled \notin DkmsDrivers
      BY DEF Precompiled, DkmsDrivers
    <3>3. drivers \subseteq {Precompiled} \cup DkmsDrivers
      BY DEF PkgTypes
    <3> QED
      BY <3>1, <3>2, <3>3
  <2> QED
    BY <2>1, <2>2
<1>6. /\ Machine'.available = Machine.available /\ Machine'.offered = Machine.offered
      /\ Machine'.refused = Machine.refused
  BY DEF Machine, InSyncDb, SameReading
<1>7. /\ Machine.drivers = drivers /\ Machine'.drivers = drivers'
      /\ Machine.hdr = hdr /\ Machine'.hdr = hdr'
  BY DEF Machine
<1>8. Later(Machine, Machine')
  BY <1>4, <1>5, <1>6, <1>7 DEF Later
<1> QED
  BY <1>3, <1>8

\* A command's answer: what it brought, and what it says of the command.
LEMMA RunLater ==
    ASSUME RepoTypeOK, PkgTypes, LateReplaces, NEW c \in Commands, NEW rc \in 0..2,
           Run(c, rc), Replaces(c), UNCHANGED <<conf, synced>>
    PROVE  /\ Later(Machine, Machine') /\ LateReplaces'
           /\ rc = 0 => Commit(c) /\ \A k \in c.headers : hdr'[k] > 0
           /\ Finds(c, Machine.offered) => rc \notin Machine'.refused
<1>1. RepoLater
  BY UnchangedRepoLater
<1>2. Machine'.refused = Machine.refused
  BY DEF Machine, SameReading
<1>3. Finds(c, Machine.offered) => rc \notin Machine'.refused
  <2>1. CASE rc = 2 /\ ~ Findable(c)
    BY <1>2, <2>1, FindableMeans
  <2>2. CASE rc \in {0, 1}
    BY <1>2, <2>2, InitNotRefused
  <2> QED
    BY <2>1, <2>2 DEF Run
<1>4. CASE Findable(c) /\ Commit(c) /\ UNCHANGED late
  <2>1. /\ Later(Machine, Machine') /\ \A k \in c.headers : hdr'[k] > 0
    BY <1>4, CommitLater
  <2>2. drivers # {} => drivers' # {}
    BY <2>1, MachineFields DEF Later, Machine
  <2> QED
    BY <1>3, <1>4, <2>1, <2>2 DEF LateReplaces, Replaces
<1>5. ASSUME rc # 0, UNCHANGED pkgVars, late' = late \/ late' = c
      PROVE  Later(Machine, Machine') /\ LateReplaces'
  <2>1. Later(Machine, Machine')
    BY <1>1, <1>5, RepoMachineLater DEF pkgVars
  <2>2. LateReplaces'
    BY <1>5 DEF LateReplaces, Replaces, pkgVars
  <2> QED
    BY <2>1, <2>2
<1>6. CASE rc # 0 /\ UNCHANGED <<pkgVars, late>>
  BY <1>3, <1>5, <1>6
<1>7. CASE rc # 0 /\ late' = c /\ UNCHANGED pkgVars
  BY <1>3, <1>5, <1>7
<1> QED
  BY <1>4, <1>6, <1>7 DEF Run

LEMMA LateLater ==
    ASSUME RepoTypeOK, PkgTypes, LateReplaces, LateCommand
    PROVE  Later(Machine, Machine') /\ LateReplaces'
<1>1. late' = NoCommand /\ UNCHANGED <<conf, synced>>
  BY DEF LateCommand, repoVars
<1>2. LateReplaces'
  BY <1>1 DEF LateReplaces, Replaces, NoCommand, Command
<1>3. CASE Findable(late)
  BY <1>1, <1>2, <1>3, CommitLater DEF LateCommand, LateReplaces, PkgTypes
<1>4. CASE ~ Findable(late)
  BY <1>1, <1>2, <1>4, UnchangedRepoLater, RepoMachineLater DEF LateCommand, pkgVars
<1> QED
  BY <1>3, <1>4

-----------------------------------------------------------------------------
(* The gate.                                                               *)

\* What each trigger gives the gate.
Asks(kind, t, m) ==
    /\ kind \in {"execute", "precompiled", "directory", "built"}
    /\ t \in Targets
    /\ kind \in {"directory", "built"} => t.dir \in Dirs
    /\ kind = "precompiled" => t.dir = NoDir /\ Names(t) \subseteq m.offered
    /\ kind # "execute" => Len(t.names) <= 1
    /\ t.kver # NoKver => t.names # <<>> /\ t.kver[1] = t.names[1]

LEMMA NamesOfOne ==
    ASSUME NEW t \in Targets, Len(t.names) <= 1, NEW k \in Names(t)
    PROVE  OneName(t) /\ k = t.names[1]
<1>1. t.names \in Seq(Kernels)
  BY DEF Targets
<1>2. PICK i \in 1..Len(t.names) : k = t.names[i]
  BY <1>1 DEF Names
<1>3. Len(t.names) = 1 /\ i = 1
  <2> DEFINE n == Len(t.names)
  <2>1. n \in Nat /\ i \in 1..n /\ n <= 1
    BY <1>1, <1>2
  <2> HIDE DEF n
  <2>2. n = 1 /\ i = 1
    BY <2>1
  <2> QED
    BY <2>2 DEF n
<1> QED
  BY <1>2, <1>3 DEF OneName

LEMMA OneOfNames ==
    ASSUME NEW t \in Targets, OneName(t)
    PROVE  Names(t) = {t.names[1]}
<1>1. t.names \in Seq(Kernels) /\ DOMAIN t.names = {1}
  BY DEF Targets, OneName
<1> QED
  BY <1>1 DEF Names

\* The directory under /usr/lib/modules is that of the headers' package.
LEMMA BuildDirMeans ==
    ASSUME NEW t \in Targets, t.kver # NoKver => t.names # <<>> /\ t.kver[1] = t.names[1],
           BuildDirExists(t.kver)
    PROVE  hdr[t.names[1]] > 0
<1>1. t.kver \in {NoKver} \cup (Kernels \X (1..MaxVersion))
  BY DEF Targets
<1>2. t.kver # NoKver
  <2>1. NoKver[1] \notin SameRelease
    BY InstallAssumption DEF NoKver
  <2> QED
    BY <2>1 DEF BuildDirExists
<1>3. t.kver[2] \in 1..MaxVersion
  BY <1>1, <1>2
<1>4. t.kver[2] > 0
  BY <1>3, RepoAssumption
<1> QED
  BY <1>2, <1>4 DEF BuildDirExists

\* Headers the gate takes for there are there, or come with the packages.
LEMMA HeadersOkMeans ==
    ASSUME NEW t \in Targets, Len(t.names) <= 1, HeadersOk(t),
           t.kver # NoKver => t.names # <<>> /\ t.kver[1] = t.names[1],
           NEW k \in Names(t)
    PROVE  hdr[k] > 0 \/ k \in t.dir.headers
<1>1. k = t.names[1]
  BY NamesOfOne
<1>2. CASE BuildDirExists(t.kver)
  BY <1>1, <1>2, BuildDirMeans
<1>3. CASE HeadersInstalled(t) \/ HeadersInDir(t)
  BY <1>1, <1>3 DEF HeadersInstalled, HeadersInDir
<1> QED
  BY <1>2, <1>3 DEF HeadersOk

LEMMA AvailableMeans ==
    ASSUME NEW t \in Targets
    PROVE  HeadersAvailable(t) <=> OneName(t) /\ Names(t) \subseteq Machine.available
BY OneOfNames, MachineFields DEF HeadersAvailable, KernelInSyncDb

\* A flow that begins.
LEMMA EnterSound ==
    ASSUME NEW kind, NEW t, Asks(kind, t, Machine), NEW w, EnterGate(w, kind, t)
    PROVE  \E g \in Flows : /\ flow' = [flow EXCEPT ![w] = g] /\ g.kind = kind
                           /\ \A b : Sound(g, b, Machine)
<1> DEFINE act == EvaluateGate(t)
           f == [NoFlow EXCEPT !.kind = kind, !.target = t, !.act = act]
           g == [f EXCEPT !.pc = IF act = "PROCEED" THEN Passed(f) ELSE "dialog"]
<1>1. flow' = [flow EXCEPT ![w] = g]
  BY DEF EnterGate
<1>2. act \in {"PROCEED", "WARN_MIGRATE", "ENSURE_HEADERS", "WARN_ONLY"}
  BY ActType
<1>3. t \in Targets /\ kind \in {"execute", "precompiled", "directory", "built"}
  BY DEF Asks
<1>4. /\ act = "WARN_MIGRATE" => drivers # {}
      /\ act = "ENSURE_HEADERS" => Precompiled \notin drivers /\ HeadersAvailable(t)
      /\ act = "PROCEED" => Precompiled \notin drivers /\ (DkmsInstalled => HeadersOk(t))
  BY DEF EvaluateGate
<1> HIDE DEF act
<1>5. NoFlow \in Flows /\ NoFlow.rcs = <<>> /\ NoFlow.steps = <<>> /\ NoFlow.clean = TRUE
  BY EmptyFlow DEF GoodFlow, NoFlow
<1>6. /\ f \in Flows /\ f.kind = kind /\ f.target = t /\ f.act = act
      /\ f.steps = <<>> /\ f.rcs = <<>>
  BY <1>2, <1>3, <1>5 DEF Flows
<1> HIDE DEF f
<1>7. /\ g \in Flows /\ g.kind = kind /\ g.target = t /\ g.act = act
      /\ g.steps = <<>> /\ g.rcs = <<>>
      /\ g.pc = IF act = "PROCEED" THEN Passed(f) ELSE "dialog"
  BY <1>6, PassedPlaces DEF Flows
<1>8. Passed(f) = IF kind = "execute" THEN "start" ELSE IF kind = "built" THEN "ask" ELSE "plan"
  BY <1>6 DEF Passed
<1> HIDE DEF g
<1>9. DOMAIN g.rcs = {} /\ DOMAIN g.steps = {}
  BY <1>7
<1>10. Fits(g, Machine)
  BY <1>3, <1>4, <1>7, <1>8, <1>9, MachineFields DEF Fits, Asks
<1>11. Found(g, Machine)
  BY <1>7, <1>9 DEF Found, Asks
<1>12. ASSUME g.pc \in Past PROVE Covered(g, Machine)
  <2>1. act = "PROCEED" /\ g.pc = Passed(f)
    BY <1>7, <1>12 DEF Past
  <2>2. CASE kind = "execute"
    BY <1>4, <1>8, <2>1, <2>2, MachineFields DEF Covered, Promised
  <2>3. CASE kind # "execute"
    <3>1. g.pc \in {"ask", "plan"}
      BY <1>8, <2>1, <2>3
    <3>2. DkmsInstalled => \A k \in Names(t) : hdr[k] > 0 \/ k \in t.dir.headers
      BY <1>3, <1>4, <2>1, <2>3, HeadersOkMeans DEF Asks
    <3> QED
      BY <1>4, <1>7, <2>1, <3>1, <3>2, MachineFields DEF Covered, Promised, DkmsInstalled
  <2> QED
    BY <2>2, <2>3
<1>13. HeadersThere(g, Machine)
  BY <1>9 DEF HeadersThere
<1>14. \A b : Paired(g, b, Machine)
  BY <1>3, <1>4, <1>7, <1>8, <1>12, <1>13, AvailableMeans, MachineFields DEF Paired
<1> QED
  BY <1>1, <1>7, <1>10, <1>11, <1>14 DEF Sound

\* A flow that leaves a dialog for where it goes on: the headers it needs are
\* there or will be brought, or the window warns.
LEMMA PassSound ==
    ASSUME NEW f \in Flows, NEW g \in Flows, NEW b, NEW m, Fits(f, m), Found(f, m),
           f.pc \in {"dialog", "headers", "failed"}, f.rcs = <<>>,
           g.pc = Passed(f), g.kind = f.kind, g.target = f.target, g.steps = f.steps,
           g.rcs = f.rcs, g.clean = f.clean,
           g.clean /\ ~ b /\ ~ g.anyway => Covered(g, m)
    PROVE  Sound(g, b, m)
<1>1. Passed(f) = IF f.kind = "execute" THEN "start" ELSE IF f.kind = "built" THEN "ask" ELSE "plan"
  BY DEF Passed
<1>2. f.kind \in {"execute", "precompiled", "directory", "built"}
  BY DEF Fits, Flows
<1>3. Fits(g, m)
  BY <1>1, <1>2 DEF Fits
<1>4. Found(g, m)
  BY DEF Found
<1>5. DOMAIN g.rcs = {}
  OBVIOUS
<1>6. Paired(g, b, m)
  BY <1>1, <1>5 DEF Paired, HeadersThere
<1> QED
  BY <1>3, <1>4, <1>6 DEF Sound

-----------------------------------------------------------------------------
(* The steps.                                                              *)

LEMMA PairingFacts ==
    ASSUME InstallInv, PairingInv
    PROVE  /\ RepoTypeOK /\ PkgTypes /\ LateReplaces
           /\ banner \in [Windows -> BOOLEAN]
           /\ worker \in Flows /\ Sound(worker, banner["main"], Machine)
           /\ \A w \in Windows : /\ flow[w] \in Flows /\ FlowMeans(flow[w], inst)
                                 /\ Sound(flow[w], banner[w], Machine)
BY DEF InstallInv, PairingInv, FlowsSound, FlowsMean, UiTypes

\* One window's flow changes to a sound one.
LEMMA SoundUpdate ==
    ASSUME InstallInv, PairingInv, Later(Machine, Machine'), LateReplaces',
           NEW w \in Windows, NEW g \in Flows, flow' = [flow EXCEPT ![w] = g],
           worker' = worker, Sound(g, banner'[w], Machine'), w = "main" => g.kind # "built",
           \A x \in Windows : x # w => banner'[x] = banner[x],
           Sound(worker, banner'["main"], Machine')
    PROVE  PairingInv'
<1>1. ASSUME NEW x \in Windows PROVE Sound(flow'[x], banner'[x], Machine')
  <2>1. CASE x = w
    BY <2>1 DEF InstallInv, FlowsMean
  <2>2. CASE x # w
    <3>1. flow'[x] = flow[x]
      BY <2>2 DEF InstallInv, FlowsMean
    <3>2. Sound(flow[x], banner[x], Machine')
      BY PairingFacts, SoundLater
    <3> QED
      BY <2>2, <3>1, <3>2
  <2> QED
    BY <2>1, <2>2
<1>2. WorkerCarries'
  BY DEF PairingInv, WorkerCarries, Names, Command
<1>3. MainKinds'
  BY DEF PairingInv, MainKinds, InstallInv, FlowsMean, Windows
<1> QED
  BY <1>1, <1>2, <1>3 DEF PairingInv, FlowsSound

\* No flow changes.
LEMMA SoundStays ==
    ASSUME InstallInv, PairingInv, Later(Machine, Machine'), LateReplaces',
           UNCHANGED <<flow, worker, banner>>
    PROVE  PairingInv'
<1>1. \A x \in Windows : Sound(flow[x], banner[x], Machine')
  BY PairingFacts, SoundLater
<1>2. Sound(worker, banner["main"], Machine')
  BY PairingFacts, SoundLater
<1>3. WorkerCarries'
  BY DEF PairingInv, WorkerCarries, Names, Command
<1>4. MainKinds'
  BY DEF PairingInv, MainKinds
<1> QED
  BY <1>1, <1>2, <1>3, <1>4 DEF PairingInv, FlowsSound

LEMMA UnchangedLater ==
    ASSUME UNCHANGED <<repoVars, pkgVars, late>>
    PROVE  Machine' = Machine /\ Later(Machine, Machine') /\ (LateReplaces => LateReplaces')
<1>1. UNCHANGED <<conf, synced, drivers, hdr, late>>
  BY DEF repoVars, pkgVars
<1>2. Machine' = Machine
  BY <1>1 DEF Machine, InSyncDb, SameReading
<1> QED
  BY <1>1, <1>2, UnchangedRepoLater, RepoMachineLater DEF LateReplaces, Replaces

\* A flow's own step on a machine nobody changed, the window warning or not.
LEMMA SoundMove ==
    ASSUME InstallInv, PairingInv, UNCHANGED <<repoVars, pkgVars, late>>,
           NEW w \in Windows, NEW g \in Flows, flow' = [flow EXCEPT ![w] = g],
           worker' = worker, Sound(g, banner'[w], Machine), w = "main" => g.kind # "built",
           banner' = banner \/ banner' = [banner EXCEPT ![w] = TRUE]
    PROVE  PairingInv'
<1>1. /\ Machine' = Machine /\ Later(Machine, Machine') /\ LateReplaces'
  BY UnchangedLater, PairingFacts
<1>2. /\ \A x \in Windows : x # w => banner'[x] = banner[x]
      /\ banner["main"] => banner'["main"]
  BY PairingFacts DEF Windows
<1>3. Sound(worker, banner'["main"], Machine')
  BY <1>1, <1>2, PairingFacts, WarnedMore
<1> QED
  BY <1>1, <1>2, <1>3, SoundUpdate

LEMMA DropSound ==
    ASSUME InstallInv, PairingInv, UNCHANGED <<repoVars, pkgVars, late, banner>>,
           NEW w \in Windows, Drop(w), worker' = worker
    PROVE  PairingInv'
<1>1. NoFlow \in Flows /\ NoFlow.kind # "built"
  BY EmptyFlow DEF GoodFlow, NoFlow
<1> QED
  BY <1>1, SoundMove, NoFlowSound DEF Drop

LEMMA BeginSound ==
    ASSUME InstallInv, PairingInv,
           Execute \/ InstallPrecompiled \/ InstallFromDirectory \/ BuildDone
    PROVE  PairingInv'
<1>1. UNCHANGED <<repoVars, pkgVars, rows, banner, worker, late>>
  BY DEF Execute, InstallPrecompiled, InstallFromDirectory, BuildDone
<1>2. ASSUME NEW w \in Windows, NEW kind, NEW t, Asks(kind, t, Machine), EnterGate(w, kind, t),
             w = "main" => kind # "built"
      PROVE  PairingInv'
  <2>1. PICK g \in Flows : /\ flow' = [flow EXCEPT ![w] = g] /\ g.kind = kind
                           /\ \A b : Sound(g, b, Machine)
    BY <1>2, EnterSound
  <2>2. Sound(g, banner'[w], Machine)
    BY <2>1
  <2> QED
    BY <1>1, <1>2, <2>1, <2>2, SoundMove
<1>w. "main" \in Windows /\ "conf" \in Windows
  BY DEF Windows
<1>3. CASE Execute
  <2>1. PICK S \in (SUBSET Installable) \ {{}} : \E names \in Orders(S) :
            EnterGate("main", "execute", Target(names, <<names[1], rows>>, NoDir))
    BY <1>3 DEF Execute
  <2>2. PICK names \in Orders(S) :
            EnterGate("main", "execute", Target(names, <<names[1], rows>>, NoDir))
    BY <2>1
  <2>3. S \in SUBSET Kernels /\ S # {} /\ rows > 0
    BY <2>1 DEF Installable, Kernels
  <2>4. names \in Seq(Kernels) /\ names[1] \in Kernels
    BY <2>3, OrdersAreSeqs
  <2>5. rows \in 1..MaxVersion
    <3>1. rows \in 0..upstream /\ upstream \in 1..MaxVersion /\ MaxVersion \in Nat
      BY RepoAssumption DEF InstallInv, UiTypes, RepoTypeOK
    <3> QED
      BY <2>3, <3>1
  <2>6. names # <<>>
    <3>1. Cardinality(S) \in Nat /\ Cardinality(S) # 0
      BY <2>3, InstallAssumption, FS_Subset, FS_CardinalityType, FS_EmptySet
    <3>2. DOMAIN names = 1..Cardinality(S)
      BY DEF Orders
    <3> QED
      BY <3>1, <3>2
  <2> DEFINE t == Target(names, <<names[1], rows>>, NoDir)
  <2>7. t \in Targets
    BY <2>4, <2>5, TargetType
  <2>8. t.names = names /\ t.kver = <<names[1], rows>>
    BY DEF Target
  <2> HIDE DEF t
  <2>9. Asks("execute", t, Machine)
    BY <2>6, <2>7, <2>8 DEF Asks
  <2> QED
    BY <1>2, <1>w, <2>2, <2>9 DEF t
<1>4. CASE InstallPrecompiled
  <2>1. PICK k \in Repo : /\ IsRepoEnabled(conf) /\ synced > 0
                          /\ EnterGate("main", "precompiled", Target(<<k>>, NoKver, NoDir))
    BY <1>4 DEF InstallPrecompiled
  <2> DEFINE t == Target(<<k>>, NoKver, NoDir)
  <2>2. <<k>> \in Seq(Kernels) /\ Len(<<k>>) = 1
    BY DEF Kernels
  <2>3. t \in Targets /\ t.names = <<k>> /\ t.kver = NoKver /\ Names(t) = {k}
    <3>1. t \in Targets
      BY <2>2, TargetType
    <3>2. t.names = <<k>> /\ t.kver = NoKver
      BY DEF Target
    <3> HIDE DEF t
    <3>3. OneName(t) /\ t.names[1] = k
      BY <2>2, <3>2 DEF OneName
    <3> QED
      BY <3>1, <3>2, <3>3, OneOfNames
  <2>d. t.dir = NoDir
    BY DEF Target
  <2>4. SameReading => InSyncDb
    BY <2>1 DEF SameReading, IsRepoEnabled, InSyncDb, PacmanReads, LinesOf
  <2>5. Names(t) \subseteq Machine.offered
    BY <2>3, <2>4, MachineFields
  <2> HIDE DEF t
  <2>6. Asks("precompiled", t, Machine)
    BY <2>2, <2>3, <2>5, <2>d DEF Asks
  <2> QED
    BY <1>2, <1>w, <2>1, <2>6 DEF t
<1>5. ASSUME NEW d \in Dirs, NEW kind \in {"directory", "built"}
      PROVE  Asks(kind, DirTarget(d), Machine)
  <2>1. d.kernels \in Seq(Kernels)
    BY InstallAssumption
  <2>2. CASE d.kernels = <<>>
    <3> DEFINE t == DirTarget(d)
    <3>1. t.names = <<>> /\ t.kver = NoKver /\ t.dir = d /\ t \in Targets
      BY <2>2, DirTargetType DEF DirTarget, Target
    <3> HIDE DEF t
    <3>2. Asks(kind, t, Machine)
      BY <3>1 DEF Asks
    <3> QED
      BY <3>2 DEF t
  <2>3. CASE d.kernels # <<>>
    <3> DEFINE t == DirTarget(d)
    <3>1. /\ t.names = <<d.kernels[1]>> /\ t.kver = <<d.kernels[1], d.version>>
          /\ t.dir = d /\ t \in Targets
      BY <2>3, DirTargetType DEF DirTarget, Target
    <3> HIDE DEF t
    <3>2. Asks(kind, t, Machine)
      BY <3>1 DEF Asks
    <3> QED
      BY <3>2 DEF t
  <2> QED
    BY <2>2, <2>3
<1>6. CASE InstallFromDirectory
  BY <1>2, <1>5, <1>6, <1>w DEF InstallFromDirectory
<1>7. CASE BuildDone
  BY <1>2, <1>5, <1>7, <1>w DEF BuildDone
<1> QED
  BY <1>3, <1>4, <1>6, <1>7

\* The worker's command brings the headers itself.
LEMMA WorkerUnwarned ==
    ASSUME WorkerCarries, NEW b, NEW m, Sound(worker, b, m), Precompiled \notin m.drivers
    PROVE  Sound(worker, FALSE, m)
<1>1. worker.pc \in Past =>
          \A k \in Names(worker.target) : \E i \in DOMAIN worker.steps : k \in worker.steps[i].headers
  <2> SUFFICES ASSUME worker.pc \in Past, NEW k \in Names(worker.target)
               PROVE  \E i \in DOMAIN worker.steps : k \in worker.steps[i].headers
    OBVIOUS
  <2> DEFINE c == Command(Names(worker.target), Names(worker.target), 0, "")
  <2>1. worker.steps = <<c>> /\ c.headers = Names(worker.target)
    BY DEF WorkerCarries, Past, Command
  <2> HIDE DEF c
  <2>2. 1 \in DOMAIN worker.steps /\ worker.steps[1] = c
    BY <2>1
  <2> QED
    BY <2>1, <2>2
<1>2. worker.pc \in Past => Covered(worker, m)
  BY <1>1 DEF Covered, Promised, WorkerCarries, Past
<1> QED
  BY <1>2 DEF Sound, Paired

\* A command that failed leaves its dialog at the question.
LEMMA FailSound ==
    ASSUME NEW f \in Flows, NEW b, NEW m, Sound(f, b, m), f.pc \in {"dialog", "headers"},
           f.rcs = <<>>
    PROVE  [f EXCEPT !.pc = "failed"] \in Flows /\ Sound([f EXCEPT !.pc = "failed"], b, m)
<1> DEFINE g == [f EXCEPT !.pc = "failed"]
<1>1. /\ g \in Flows /\ g.pc = "failed" /\ g.kind = f.kind /\ g.target = f.target /\ g.steps = f.steps
      /\ g.rcs = f.rcs /\ g.clean = f.clean /\ g.act = f.act
  BY DEF Flows
<1> HIDE DEF g
<1>2. Fits(g, m)
  BY <1>1 DEF Sound, Fits
<1>3. Found(g, m)
  BY <1>1 DEF Sound, Found
<1>4. Paired(g, b, m)
  BY <1>1 DEF Sound, Paired, HeadersThere, Past
<1>5. g \in Flows /\ Sound(g, b, m)
  BY <1>1, <1>2, <1>3, <1>4 DEF Sound
<1> QED
  BY <1>5 DEF g

\* The flow as Proceed leaves it.
LEMMA ProceedFields ==
    ASSUME NEW f \in Flows
    PROVE  LET g == [f EXCEPT !.pc = Passed(f)]
           IN /\ g \in Flows /\ g.pc = Passed(f) /\ g.kind = f.kind /\ g.target = f.target
              /\ g.steps = f.steps /\ g.rcs = f.rcs /\ g.clean = f.clean /\ g.anyway = f.anyway
BY PassedPlaces DEF Flows

\* The dialogs that change no package.
LEMMA TalkSound ==
    ASSUME InstallInv, PairingInv,
           \/ Inform \/ Recheck
           \/ \E w \in Windows : Decline(w) \/ Abort(w) \/ ContinueAnyway(w)
    PROVE  PairingInv'
<1>u. UNCHANGED <<repoVars, pkgVars, worker, late>>
  BY DEF Inform, Recheck, Decline, Abort, ContinueAnyway
<1>w. "main" \in Windows /\ "conf" \in Windows
  BY DEF Windows
<1>f. \A w \in Windows :
          /\ flow[w] \in Flows /\ Sound(flow[w], banner[w], Machine)
          /\ flow[w].pc \in {"dialog", "headers", "failed"} => flow[w].rcs = <<>>
  BY PairingFacts, DialogIsFresh DEF FlowMeans
<1>k. flow["main"].kind # "built"
  BY DEF PairingInv, MainKinds
<1>p. ASSUME NEW w \in Windows, Proceed(w), flow[w].pc \in {"dialog", "failed"},
             banner' = banner \/ banner' = [banner EXCEPT ![w] = TRUE],
             LET g == [flow[w] EXCEPT !.pc = Passed(flow[w])]
             IN g.clean /\ ~ banner'[w] /\ ~ g.anyway => Covered(g, Machine)
      PROVE  PairingInv'
  <2> DEFINE f == flow[w]
             g == [f EXCEPT !.pc = Passed(f)]
  <2>1. flow' = [flow EXCEPT ![w] = g]
    BY <1>p DEF Proceed, Goto, InstallInv, FlowsMean
  <2>2. f \in Flows /\ f.rcs = <<>> /\ Fits(f, Machine) /\ Found(f, Machine)
    BY <1>f, <1>p DEF Sound
  <2>3. /\ g \in Flows /\ g.pc = Passed(f) /\ g.kind = f.kind /\ g.target = f.target
        /\ g.steps = f.steps /\ g.rcs = f.rcs /\ g.clean = f.clean
    BY <2>2, ProceedFields
  <2>4. g.clean /\ ~ banner'[w] /\ ~ g.anyway => Covered(g, Machine)
    BY <1>p
  <2>5. f.pc \in {"dialog", "failed"}
    BY <1>p
  <2>k. w = "main" => f.kind # "built"
    BY <1>k
  <2> HIDE DEF f, g
  <2>6. Sound(g, banner'[w], Machine)
    BY <2>2, <2>3, <2>4, <2>5, PassSound
  <2> QED
    BY <1>p, <1>u, <2>1, <2>3, <2>6, <2>k, SoundMove
<1>1. CASE Inform
  <2> DEFINE f == flow["main"]
             g == [f EXCEPT !.pc = Passed(f)]
  <2>1. /\ f.pc = "dialog" /\ f.act = "ENSURE_HEADERS" /\ Proceed("main") /\ banner' = banner
    BY <1>1 DEF Inform, At
  <2>2. f \in Flows /\ Paired(f, banner["main"], Machine) /\ Fits(f, Machine)
    BY <1>f, <1>w DEF Sound
  <2>3. g.pc = Passed(f) /\ g.kind = f.kind /\ g.target = f.target /\ g.clean = f.clean
    BY <2>2, ProceedFields
  <2>4. f.kind # "built"
    BY <1>k
  <2> HIDE DEF f, g
  <2>5. g.pc \in {"start", "plan"}
    BY <2>3, <2>4 DEF Passed
  <2>6. g.clean => Covered(g, Machine)
    BY <2>1, <2>2, <2>3, <2>5 DEF Paired, Covered, Promised
  <2> QED
    BY <1>p, <1>w, <2>1, <2>6 DEF f, g
<1>2. CASE Recheck
  <2>1. /\ flow["conf"].pc = "dialog" /\ flow["conf"].act = "ENSURE_HEADERS" /\ banner' = banner
    BY <1>2 DEF Recheck, At
  <2> DEFINE f == flow["conf"]
  <2>2. f \in Flows /\ Sound(f, banner["conf"], Machine) /\ f.rcs = <<>> /\ f.target \in Targets
    BY <1>f, <1>w, <2>1 DEF Flows
  <2>3. ~ HeadersAvailable(f.target) => ~ f.clean
    BY <2>1, <2>2, AvailableMeans DEF Sound, Paired
  <2>4. CASE Proceed("conf") /\ ~ HeadersAvailable(f.target)
    <3>1. [f EXCEPT !.pc = Passed(f)].clean = f.clean
      BY <2>2, ProceedFields
    <3> QED
      BY <1>p, <1>w, <2>1, <2>3, <2>4, <3>1
  <2>5. CASE /\ flow' = [flow EXCEPT !["conf"].act = "WARN_ONLY"]
             /\ ~ HeadersAvailable(f.target)
    <3> DEFINE g == [f EXCEPT !.act = "WARN_ONLY"]
    <3>1. flow' = [flow EXCEPT !["conf"] = g]
      BY <2>5 DEF InstallInv, FlowsMean
    <3>2. /\ g \in Flows /\ g.pc = f.pc /\ g.kind = f.kind /\ g.target = f.target /\ g.steps = f.steps
          /\ g.rcs = f.rcs /\ g.clean = f.clean /\ g.act = "WARN_ONLY"
      BY <2>2 DEF Flows
    <3>d. f.pc = "dialog" /\ ~ f.clean
      BY <2>1, <2>3, <2>5
    <3> HIDE DEF f, g
    <3>3. Fits(g, Machine)
      BY <2>2, <3>2, <3>d DEF Sound, Fits
    <3>4. Found(g, Machine) /\ Paired(g, banner'["conf"], Machine)
      BY <3>d, <3>2 DEF Found, Paired
    <3>5. Sound(g, banner'["conf"], Machine)
      BY <3>3, <3>4 DEF Sound
    <3> QED
      BY <1>u, <1>w, <2>1, <3>1, <3>2, <3>5, SoundMove
  <2>6. CASE Goto("conf", "headers")
    <3> DEFINE g == [f EXCEPT !.pc = "headers"]
    <3>1. flow' = [flow EXCEPT !["conf"] = g]
      BY <2>6 DEF Goto, InstallInv, FlowsMean
    <3>2. /\ g \in Flows /\ g.pc = "headers" /\ g.kind = f.kind /\ g.target = f.target
          /\ g.steps = f.steps /\ g.rcs = f.rcs /\ g.clean = f.clean /\ g.act = f.act
      BY <2>2 DEF Flows
    <3>d. f.pc = "dialog" /\ f.act = "ENSURE_HEADERS"
      BY <2>1
    <3> HIDE DEF f, g
    <3>3. Fits(g, Machine)
      BY <2>2, <3>2, <3>d DEF Sound, Fits
    <3>4. Found(g, Machine)
      BY <2>2, <3>2 DEF Sound, Found
    <3>5. Paired(g, banner'["conf"], Machine)
      BY <2>1, <2>2, <3>2, <3>d DEF Sound, Paired, HeadersThere, Past
    <3>6. Sound(g, banner'["conf"], Machine)
      BY <3>3, <3>4, <3>5 DEF Sound
    <3> QED
      BY <1>u, <1>w, <2>1, <3>1, <3>2, <3>6, SoundMove
  <2> QED
    BY <1>2, <2>4, <2>5, <2>6 DEF Recheck
<1>3. ASSUME NEW w \in Windows, Decline(w) PROVE PairingInv'
  <2>1. flow[w].pc = "dialog" /\ banner' = [banner EXCEPT ![w] = TRUE] /\ Proceed(w)
    BY <1>3 DEF Decline, At
  <2>2. banner'[w] = TRUE
    BY <2>1, PairingFacts
  <2> QED
    BY <1>p, <2>1, <2>2
<1>4. ASSUME NEW w \in Windows, Abort(w) PROVE PairingInv'
  BY <1>4, DropSound DEF Abort
<1>5. ASSUME NEW w \in Windows, ContinueAnyway(w) PROVE PairingInv'
  <2>1. flow[w].pc = "failed"
    BY <1>5 DEF ContinueAnyway, At
  <2>2. CASE banner' = [banner EXCEPT ![w] = TRUE] /\ Proceed(w)
    <3>1. banner'[w] = TRUE
      BY <2>2, PairingFacts
    <3> QED
      BY <1>p, <2>1, <2>2, <3>1
  <2>3. CASE /\ flow' = [flow EXCEPT ![w].pc = Passed(flow[w]), ![w].anyway = TRUE]
             /\ UNCHANGED banner
    <3> DEFINE f == flow[w]
               g == [f EXCEPT !.pc = Passed(f), !.anyway = TRUE]
    <3>1. flow' = [flow EXCEPT ![w] = g]
      BY <2>3 DEF InstallInv, FlowsMean
    <3>2. f \in Flows /\ f.rcs = <<>> /\ Fits(f, Machine) /\ Found(f, Machine) /\ f.pc = "failed"
      BY <1>f, <2>1 DEF Sound
    <3>3. Passed(f) \in {"start", "ask", "plan"}
      BY PassedPlaces
    <3>4. /\ g \in Flows /\ g.pc = Passed(f) /\ g.kind = f.kind /\ g.target = f.target
          /\ g.steps = f.steps /\ g.rcs = f.rcs /\ g.clean = f.clean /\ g.anyway = TRUE
      BY <3>2, <3>3 DEF Flows
    <3>k. w = "main" => f.kind # "built"
      BY <1>k
    <3> HIDE DEF f, g
    <3>5. Sound(g, banner'[w], Machine)
      BY <3>2, <3>4, PassSound
    <3> QED
      BY <1>u, <2>3, <3>1, <3>4, <3>5, <3>k, SoundMove
  <2> QED
    BY <1>5, <2>2, <2>3 DEF ContinueAnyway
<1> QED
  BY <1>1, <1>2, <1>3, <1>4, <1>5

\* One window's flow ends a command, and the banner stays as it is.
LEMMA SoundAfter ==
    ASSUME InstallInv, PairingInv, Later(Machine, Machine'), LateReplaces', banner' = banner,
           NEW w \in Windows, NEW g \in Flows, flow' = [flow EXCEPT ![w] = g],
           worker' = worker, Sound(g, banner[w], Machine'), w = "main" => g.kind # "built"
    PROVE  PairingInv'
<1>1. Sound(worker, banner'["main"], Machine')
  BY PairingFacts, SoundLater
<1> QED
  BY <1>1, SoundUpdate

LEMMA EnsureSound == ASSUME InstallInv, PairingInv, EnsureHeaders PROVE PairingInv'
<1> DEFINE f == flow["conf"]
           c == Command({}, Names(f.target), 0, "")
           g == [f EXCEPT !.pc = Passed(f)]
<1>w. "conf" \in Windows
  BY DEF Windows
<1>1. PICK rc \in 0..2 : Run(c, rc) /\ IF rc = 0 THEN Proceed("conf") ELSE Goto("conf", "failed")
  BY DEF EnsureHeaders
<1>2. /\ UNCHANGED <<conf, synced>> /\ worker' = worker /\ banner' = banner
      /\ f.pc = "headers"
  BY DEF EnsureHeaders, repoVars, At
<1>3. f \in Flows /\ Sound(f, banner["conf"], Machine) /\ f.rcs = <<>>
  BY <1>2, <1>w, PairingFacts, DialogIsFresh DEF FlowMeans
<1>4. c \in Commands /\ c.headers = Names(f.target) /\ Replaces(c)
  BY <1>3, NamesAreKernels, RepoCommandType DEF Flows, Command, Replaces
<1> HIDE DEF c
<1>5. /\ Later(Machine, Machine') /\ LateReplaces'
      /\ rc = 0 => \A k \in c.headers : hdr'[k] > 0
  BY <1>1, <1>2, <1>4, PairingFacts, RunLater
<1>6. Sound(f, banner["conf"], Machine')
  BY <1>3, <1>5, SoundLater
<1>7. CASE rc = 0
  <2>1. flow' = [flow EXCEPT !["conf"] = g]
    BY <1>1, <1>7 DEF Proceed, Goto, InstallInv, FlowsMean
  <2>2. /\ g \in Flows /\ g.pc = Passed(f) /\ g.kind = f.kind /\ g.target = f.target
        /\ g.steps = f.steps /\ g.rcs = f.rcs /\ g.clean = f.clean
    BY <1>3, ProceedFields
  <2>3. Machine'.hdr = hdr'
    BY DEF Machine
  <2> HIDE DEF f, g
  <2>4. f.clean => Precompiled \notin Machine'.drivers
    BY <1>2, <1>6 DEF Sound, Paired
  <2>5. f.clean => Covered(g, Machine')
    BY <1>4, <1>5, <1>7, <2>2, <2>3, <2>4 DEF Covered
  <2>6. Sound(g, banner["conf"], Machine')
    BY <1>2, <1>3, <1>6, <2>2, <2>5, PassSound DEF Sound
  <2> QED
    BY <1>2, <1>5, <1>w, <2>1, <2>2, <2>6, SoundAfter
<1>8. CASE rc # 0
  <2> DEFINE h == [f EXCEPT !.pc = "failed"]
  <2>1. flow' = [flow EXCEPT !["conf"] = h]
    BY <1>1, <1>8 DEF Goto, InstallInv, FlowsMean
  <2>2. h \in Flows /\ Sound(h, banner["conf"], Machine')
    BY <1>2, <1>3, <1>6, FailSound
  <2> HIDE DEF h
  <2> QED
    BY <1>2, <1>5, <1>w, <2>1, <2>2, SoundAfter
<1> QED
  BY <1>7, <1>8

\* A migration that the window verified leaves the DKMS driver alone.
LEMMA MigrateSound ==
    ASSUME InstallInv, PairingInv, NEW w \in Windows, Migrate(w)
    PROVE  PairingInv'
<1> DEFINE f == flow[w]
           c == Migration(f.target)
           g == [f EXCEPT !.pc = Passed(f)]
<1>1. PICK rc \in 0..2 :
          /\ Run(c, rc)
          /\ IF Verified(f.target, rc)
             THEN banner' = [banner EXCEPT ![w] = FALSE] /\ Proceed(w)
             ELSE UNCHANGED banner /\ Goto(w, "failed")
  BY DEF Migrate
<1>2. /\ UNCHANGED <<conf, synced>> /\ worker' = worker
      /\ f.pc = "dialog" /\ f.act = "WARN_MIGRATE"
  BY DEF Migrate, repoVars, At
<1>3. f \in Flows /\ Sound(f, banner[w], Machine) /\ f.rcs = <<>> /\ f.target \in Targets
  BY <1>2, PairingFacts, DialogIsFresh DEF FlowMeans, Flows
<1>4. drivers # {}
  BY <1>2, <1>3, MachineFields DEF Sound, Fits
<1>5. /\ c \in Commands /\ c.headers = Names(f.target) /\ c.driver = SelectDkms /\ Replaces(c)
  BY <1>3, <1>4, MigrationType DEF Migration, Command, Replaces
<1>k. w = "main" => f.kind # "built"
  BY DEF PairingInv, MainKinds
<1> HIDE DEF c
<1>6. /\ Later(Machine, Machine') /\ LateReplaces'
      /\ rc = 0 => Commit(c)
  BY <1>1, <1>2, <1>5, PairingFacts, RunLater
<1>7. Sound(f, banner[w], Machine')
  BY <1>3, <1>6, SoundLater
<1>8. CASE Verified(f.target, rc)
  <2>1. flow' = [flow EXCEPT ![w] = g] /\ banner' = [banner EXCEPT ![w] = FALSE]
    BY <1>1, <1>8 DEF Proceed, Goto, InstallInv, FlowsMean
  <2>2. /\ g \in Flows /\ g.pc = Passed(f) /\ g.kind = f.kind /\ g.target = f.target
        /\ g.steps = f.steps /\ g.rcs = f.rcs /\ g.clean = f.clean
    BY <1>3, ProceedFields
  <2>3. Machine'.hdr = hdr' /\ Machine'.drivers = drivers'
    BY DEF Machine
  <2>4. Precompiled \notin drivers'
    <3>1. drivers' \in {drivers, {SelectDkms}} /\ (SelectDkms # "" => drivers' = {SelectDkms})
      BY <1>5, <1>6, <1>8 DEF Verified, Commit
    <3>2. SelectDkms \in DkmsDrivers /\ SelectDkms # "" /\ SelectDkms # Precompiled
      BY DEF SelectDkms, DkmsDrivers, Precompiled
    <3> QED
      BY <3>1, <3>2
  <2>5. \A k \in Names(f.target) : hdr'[k] > 0
    BY <1>8 DEF Verified
  <2> HIDE DEF f, g
  <2>6. Covered(g, Machine')
    BY <2>2, <2>3, <2>4, <2>5 DEF Covered
  <2>7. Sound(g, FALSE, Machine')
    BY <1>2, <1>3, <1>7, <2>2, <2>6, PassSound DEF Sound
  <2>8. /\ banner'[w] = FALSE /\ \A x \in Windows : x # w => banner'[x] = banner[x]
        /\ banner'["main"] \in {banner["main"], FALSE}
    BY <2>1, PairingFacts DEF Windows
  <2>9. Sound(worker, banner["main"], Machine')
    BY <1>6, PairingFacts, SoundLater
  <2>10. Sound(worker, banner'["main"], Machine')
    <3>1. Sound(worker, FALSE, Machine')
      BY <2>3, <2>4, <2>9, WorkerUnwarned DEF PairingInv
    <3> QED
      BY <2>8, <2>9, <3>1
  <2> QED
    BY <1>2, <1>6, <1>k, <2>1, <2>2, <2>7, <2>8, <2>10, SoundUpdate
<1>9. CASE ~ Verified(f.target, rc)
  <2> DEFINE h == [f EXCEPT !.pc = "failed"]
  <2>1. flow' = [flow EXCEPT ![w] = h] /\ banner' = banner
    BY <1>1, <1>9 DEF Goto, InstallInv, FlowsMean
  <2>2. h \in Flows /\ Sound(h, banner[w], Machine') /\ h.kind = f.kind
    BY <1>2, <1>3, <1>7, FailSound
  <2> HIDE DEF h
  <2> QED
    BY <1>2, <1>6, <1>k, <2>1, <2>2, SoundAfter
<1> QED
  BY <1>8, <1>9

LEMMA EmptyDomain == \A s : s = <<>> => DOMAIN s = {}
OBVIOUS

\* The commands of an install, as it takes them up.
LEMMA StepsSound ==
    ASSUME NEW f \in Flows, NEW g \in Flows, NEW b, NEW m, Sound(f, b, m),
           f.pc \in {"plan", "ask", "start"}, f.rcs = <<>>, g.pc \in {"run", "async"},
           g.kind = f.kind, g.target = f.target, g.rcs = f.rcs,
           g.clean = f.clean, g.anyway = f.anyway,
           \A i \in DOMAIN g.steps : g.steps[i].driver = "",
           f.clean /\ f.kind # "execute" => \A i \in DOMAIN g.steps : Finds(g.steps[i], m.offered),
           Covered(f, m) => Covered(g, m)
    PROVE  Sound(g, b, m)
<1>1. DOMAIN g.rcs = {}
  BY EmptyDomain
<1>2. Fits(g, m)
  BY <1>1 DEF Sound, Fits
<1>3. Found(g, m)
  BY <1>1 DEF Sound, Found
<1>4. Paired(g, b, m)
  BY <1>1 DEF Sound, Paired, HeadersThere, Past
<1> QED
  BY <1>2, <1>3, <1>4 DEF Sound

LEMMA LocalFinds ==
    ASSUME NEW d \in Dirs
    PROVE  LET c == LocalPackages(d)
           IN /\ c.driver = "" /\ c.headers = d.headers
              /\ \A s : Finds(c, s)
<1>1. d.version > 0
  <2>1. d.version \in 1..MaxVersion
    BY InstallAssumption
  <2> QED
    BY <2>1, RepoAssumption
<1> QED
  BY <1>1 DEF LocalPackages, Command, Finds

\* Headers are paired only when pacman finds them.
LEMMA PairingMeans ==
    ASSUME NEW t \in Targets
    PROVE  /\ Pairing(t) \subseteq Names(t)
           /\ Pairing(t) \subseteq Machine.available /\ Pairing(t) \subseteq Machine.offered
           /\ DkmsInstalled /\ HeadersAvailable(t) =>
                 \A k \in Names(t) : hdr[k] > 0 \/ k \in Pairing(t)
<1>1. Machine.available \subseteq Machine.offered
  BY MachineFields
<1>2. Pairing(t) \subseteq Names(t) /\ Pairing(t) \subseteq Machine.available
  BY AvailableMeans DEF Pairing
<1>3. ASSUME DkmsInstalled, HeadersAvailable(t), NEW k \in Names(t)
      PROVE  hdr[k] > 0 \/ k \in Pairing(t)
  <2>1. OneName(t) /\ k = t.names[1]
    BY <1>3, OneOfNames DEF HeadersAvailable
  <2> QED
    BY <1>3, <2>1 DEF Pairing, HeadersInstalled
<1> QED
  BY <1>1, <1>2, <1>3

\* The plan brings what was promised at the gate.
LEMMA PlanFacts ==
    ASSUME NEW f \in Flows, f.pc = "plan", Fits(f, Machine), Found(f, Machine)
    PROVE  /\ \A i \in DOMAIN Plan(f) : Plan(f)[i].driver = ""
           /\ f.clean => \A i \in DOMAIN Plan(f) : Finds(Plan(f)[i], Machine.offered)
           /\ DkmsInstalled => \A k \in Names(f.target) : Promised(f, k, Machine) =>
                 hdr[k] > 0 \/ \E i \in DOMAIN Plan(f) : k \in Plan(f)[i].headers
<1> DEFINE t == f.target
           paired == Pairing(t)
           a == Command(Names(t), paired, 0, "")
           b == Command({}, paired, 0, "")
           c == LocalPackages(t.dir)
<1>t. t \in Targets
  BY DEF Flows
<1>1. /\ f.kind \in {"precompiled", "directory"}
      /\ f.kind = "precompiled" => t.dir = NoDir
      /\ f.kind = "directory" => t.dir \in Dirs
  BY DEF Fits
<1>2. /\ f.kind = "precompiled" => Plan(f) = <<a>>
      /\ f.kind # "precompiled" /\ paired \subseteq t.dir.headers => Plan(f) = <<c>>
      /\ f.kind # "precompiled" /\ ~ (paired \subseteq t.dir.headers) => Plan(f) = <<b, c>>
  BY DEF Plan
<1>3. /\ a.driver = "" /\ a.headers = paired /\ b.driver = "" /\ b.headers = paired
      /\ Finds(b, Machine.offered)
      /\ Names(t) \subseteq Machine.offered => Finds(a, Machine.offered)
  BY <1>t, PairingMeans DEF Command, Finds
<1>4. ASSUME t.dir \in Dirs
      PROVE  c.driver = "" /\ c.headers = t.dir.headers /\ Finds(c, Machine.offered)
  BY <1>4, LocalFinds
<1>5. ASSUME DkmsInstalled, NEW k \in Names(t), Promised(f, k, Machine)
      PROVE  hdr[k] > 0 \/ k \in t.dir.headers \/ k \in paired
  <2>1. k \in t.dir.headers \/ (OneName(t) /\ k \in Machine.available)
    BY <1>5 DEF Promised
  <2>2. CASE OneName(t) /\ k \in Machine.available
    <3>1. Names(t) \subseteq Machine.available
      BY <1>5, <1>t, <2>2, OneOfNames
    <3> QED
      BY <1>5, <1>t, <2>2, <3>1, AvailableMeans, PairingMeans
  <2> QED
    BY <2>1, <2>2
<1>6. f.clean /\ f.kind = "precompiled" => Names(t) \subseteq Machine.offered
  BY DEF Found
<1>7. f.kind = "precompiled" => t.dir.headers = {}
  BY <1>1 DEF NoDir
<1> HIDE DEF a, b, c, t, paired
<1>8. CASE f.kind = "precompiled"
  <2>1. Plan(f) = <<a>> /\ 1 \in DOMAIN <<a>> /\ DOMAIN <<a>> = {1} /\ <<a>>[1] = a
    BY <1>2, <1>8
  <2> QED
    BY <1>3, <1>5, <1>6, <1>7, <1>8, <2>1 DEF t
<1>9. CASE f.kind # "precompiled" /\ paired \subseteq t.dir.headers
  <2>1. Plan(f) = <<c>> /\ DOMAIN <<c>> = {1} /\ <<c>>[1] = c
    BY <1>2, <1>9
  <2> QED
    BY <1>1, <1>4, <1>5, <1>9, <2>1 DEF t
<1>10. CASE f.kind # "precompiled" /\ ~ (paired \subseteq t.dir.headers)
  <2>1. Plan(f) = <<b, c>> /\ DOMAIN <<b, c>> = {1, 2} /\ <<b, c>>[1] = b /\ <<b, c>>[2] = c
    BY <1>2, <1>10
  <2>2. \A i \in DOMAIN Plan(f) : Plan(f)[i] \in {b, c}
    BY <2>1
  <2>3. \A h : h \in b.headers \/ h \in c.headers => \E i \in DOMAIN Plan(f) : h \in Plan(f)[i].headers
    BY <2>1
  <2>4. t.dir \in Dirs
    BY <1>1, <1>10
  <2>5. \A i \in DOMAIN Plan(f) : Plan(f)[i].driver = "" /\ Finds(Plan(f)[i], Machine.offered)
    BY <1>3, <1>4, <2>2, <2>4
  <2>6. ASSUME DkmsInstalled, NEW k \in Names(t), Promised(f, k, Machine)
        PROVE  hdr[k] > 0 \/ \E i \in DOMAIN Plan(f) : k \in Plan(f)[i].headers
    BY <1>3, <1>4, <1>5, <2>3, <2>4, <2>6
  <2> QED
    BY <2>5, <2>6 DEF t
<1> QED
  BY <1>8, <1>9, <1>10

LEMMA PlanSound == ASSUME InstallInv, PairingInv, PlanInstall PROVE PairingInv'
<1> DEFINE f == flow["main"]
           g == [f EXCEPT !.pc = "run", !.steps = Plan(f)]
<1>w. "main" \in Windows
  BY DEF Windows
<1>1. /\ UNCHANGED <<repoVars, pkgVars, late>> /\ worker' = worker /\ banner' = banner
      /\ f.pc = "plan" /\ flow' = [flow EXCEPT !["main"] = g]
  BY DEF PlanInstall, At, InstallInv, FlowsMean
<1>2. f \in Flows /\ Sound(f, banner["main"], Machine) /\ f.rcs = <<>> /\ f.kind # "built"
  BY <1>1, <1>w, PairingFacts, DialogIsFresh DEF FlowMeans, PairingInv, MainKinds
<1>3. Plan(f) \in Seq(Commands)
  BY <1>2, PlanType
<1>4. /\ g \in Flows /\ g.pc = "run" /\ g.kind = f.kind /\ g.target = f.target /\ g.rcs = f.rcs
      /\ g.clean = f.clean /\ g.anyway = f.anyway /\ g.steps = Plan(f)
  BY <1>2, <1>3 DEF Flows
<1> HIDE DEF f, g
<1>5. /\ \A i \in DOMAIN g.steps : g.steps[i].driver = ""
      /\ f.clean => \A i \in DOMAIN g.steps : Finds(g.steps[i], Machine.offered)
      /\ DkmsInstalled => \A k \in Names(g.target) : Promised(f, k, Machine) =>
            hdr[k] > 0 \/ Promised(g, k, Machine)
  BY <1>1, <1>2, <1>4, PlanFacts DEF Sound, Promised
<1>6. Covered(f, Machine) => Covered(g, Machine)
  BY <1>4, <1>5, MachineFields DEF Covered, DkmsInstalled
<1>7. Sound(g, banner["main"], Machine)
  BY <1>1, <1>2, <1>4, <1>5, <1>6, StepsSound
<1> QED
  BY <1>1, <1>2, <1>4, <1>7, <1>w, SoundMove

LEMMA AnswerSound ==
    ASSUME InstallInv, PairingInv, NEW yes \in BOOLEAN, AnswerInstall(yes)
    PROVE  PairingInv'
<1> DEFINE f == flow["conf"]
           c == LocalPackages(f.target.dir)
           g == [f EXCEPT !.pc = "async", !.steps = <<c>>]
<1>w. "conf" \in Windows
  BY DEF Windows
<1>1. /\ UNCHANGED <<repoVars, pkgVars, late>> /\ worker' = worker /\ banner' = banner
      /\ f.pc = "ask"
  BY DEF AnswerInstall, At
<1>2. CASE Drop("conf")
  BY <1>1, <1>2, <1>w, DropSound
<1>3. CASE flow' = [flow EXCEPT !["conf"].pc = "async", !["conf"].steps = <<c>>]
  <2>1. flow' = [flow EXCEPT !["conf"] = g]
    BY <1>3 DEF InstallInv, FlowsMean
  <2>2. f \in Flows /\ Sound(f, banner["conf"], Machine) /\ f.rcs = <<>>
    BY <1>1, <1>w, PairingFacts, DialogIsFresh DEF FlowMeans
  <2>3. f.target.dir \in Dirs
    BY <1>1, <2>2 DEF Sound, Fits
  <2>4. c \in Commands /\ c.driver = "" /\ c.headers = f.target.dir.headers /\ \A s : Finds(c, s)
    BY <2>3, LocalType, LocalFinds
  <2> HIDE DEF c
  <2>5. <<c>> \in Seq(Commands) /\ DOMAIN <<c>> = {1} /\ <<c>>[1] = c
    <3>1. c \in Commands
      BY <2>4
    <3>2. <<c>> \in Seq(Commands)
      BY <3>1
    <3>3. DOMAIN <<c>> = {1} /\ <<c>>[1] = c
      OBVIOUS
    <3> QED
      BY <3>2, <3>3
  <2>6. /\ g \in Flows /\ g.pc = "async" /\ g.kind = f.kind /\ g.target = f.target /\ g.rcs = f.rcs
        /\ g.clean = f.clean /\ g.anyway = f.anyway /\ g.steps = <<c>>
    BY <2>2, <2>5 DEF Flows
  <2> HIDE DEF f, g
  <2>7. \A k : Promised(f, k, Machine) => Promised(g, k, Machine)
    <3>1. 1 \in DOMAIN g.steps /\ g.steps[1].headers = f.target.dir.headers
      BY <2>4, <2>5, <2>6
    <3> QED
      BY <1>1, <2>6, <3>1 DEF Promised
  <2>8. Covered(f, Machine) => Covered(g, Machine)
    BY <2>6, <2>7 DEF Covered
  <2>9. Sound(g, banner["conf"], Machine)
    BY <1>1, <2>2, <2>4, <2>5, <2>6, <2>8, StepsSound
  <2> QED
    BY <1>1, <1>w, <2>1, <2>6, <2>9, SoundMove
<1> QED
  BY <1>2, <1>3 DEF AnswerInstall

\* A flow whose command has ended.
LEMMA AppendSound ==
    ASSUME NEW f \in Flows, NEW g \in Flows, NEW b, NEW m, Sound(f, b, m),
           NEW rc \in 0..2, Len(f.rcs) + 1 \in DOMAIN f.steps,
           f.pc \in {"run", "async"}, g.pc \in {"run", "async", "report"},
           g.rcs = Append(f.rcs, rc), g.steps = f.steps, g.kind = f.kind, g.target = f.target,
           g.clean = f.clean, g.anyway = f.anyway,
           f.clean /\ f.kind # "execute" => rc \notin m.refused,
           rc = 0 => \A k \in f.steps[Len(f.rcs) + 1].headers : m.hdr[k] > 0
    PROVE  Sound(g, b, m)
<1>1. f.rcs \in Seq(0..2)
  BY DEF Flows
<1>2. \A n \in DOMAIN g.rcs :
          \/ n \in DOMAIN f.rcs /\ g.rcs[n] = f.rcs[n]
          \/ n = Len(f.rcs) + 1 /\ g.rcs[n] = rc
  BY <1>1
<1>3. Fits(g, m)
  BY <1>2 DEF Sound, Fits
<1>4. Found(g, m)
  BY <1>2 DEF Sound, Found
<1>5. f.clean => HeadersThere(g, m)
  BY <1>2 DEF Sound, Paired, HeadersThere
<1>6. Covered(f, m) => Covered(g, m)
  BY DEF Covered, Promised
<1>7. Paired(g, b, m)
  BY <1>5, <1>6 DEF Sound, Paired, Past
<1> QED
  BY <1>3, <1>4, <1>7 DEF Sound

LEMMA AfterStepFields ==
    ASSUME NEW f \in Flows, f.pc = "run", NEW rc \in 0..2
    PROVE  LET g == AfterStep(f, rc)
           IN /\ g \in Flows /\ g.pc \in {"run", "report"} /\ g.rcs = Append(f.rcs, rc)
              /\ g.steps = f.steps /\ g.kind = f.kind /\ g.target = f.target
              /\ g.clean = f.clean /\ g.anyway = f.anyway
<1>1. Append(f.rcs, rc) \in Seq(0..2)
  BY DEF Flows
<1> QED
  BY <1>1 DEF AfterStep, Flows

\* A step of a flow ends with rc.
LEMMA EndSound ==
    ASSUME InstallInv, PairingInv, NEW w \in Windows, NEW g \in Flows, NEW rc \in 0..2,
           flow[w].pc \in {"run", "async"}, Len(flow[w].rcs) + 1 \in DOMAIN flow[w].steps,
           Run(flow[w].steps[Len(flow[w].rcs) + 1], rc), UNCHANGED <<repoVars, worker, banner>>,
           flow' = [flow EXCEPT ![w] = g],
           g.pc \in {"run", "async", "report"},
           g.rcs = Append(flow[w].rcs, rc), g.steps = flow[w].steps, g.kind = flow[w].kind,
           g.target = flow[w].target, g.clean = flow[w].clean, g.anyway = flow[w].anyway
    PROVE  PairingInv'
<1> DEFINE f == flow[w]
           n == Len(f.rcs) + 1
           c == f.steps[n]
<1>1. f \in Flows /\ Sound(f, banner[w], Machine)
  BY PairingFacts
<1>2. c \in Commands /\ Replaces(c)
  BY <1>1, StepHeaders DEF Sound, Fits, Replaces
<1>3. UNCHANGED <<conf, synced>> /\ Run(c, rc)
  BY DEF repoVars
<1>k. w = "main" => g.kind # "built"
  BY DEF PairingInv, MainKinds
<1>a. /\ f.pc \in {"run", "async"} /\ n \in DOMAIN f.steps /\ g.pc \in {"run", "async", "report"}
      /\ g.rcs = Append(f.rcs, rc) /\ g.steps = f.steps /\ g.kind = f.kind
      /\ g.target = f.target /\ g.clean = f.clean /\ g.anyway = f.anyway
  OBVIOUS
<1>4. /\ Later(Machine, Machine') /\ LateReplaces'
      /\ rc = 0 => \A k \in c.headers : hdr'[k] > 0
      /\ Finds(c, Machine.offered) => rc \notin Machine'.refused
  BY <1>2, <1>3, PairingFacts, RunLater
<1>5. Sound(f, banner[w], Machine')
  BY <1>1, <1>4, SoundLater
<1>6. Machine'.hdr = hdr'
  BY DEF Machine
<1> HIDE DEF f
<1>7. f.clean /\ f.kind # "execute" => rc \notin Machine'.refused
  BY <1>1, <1>4, <1>a DEF Sound, Found
<1>8. Sound(g, banner[w], Machine')
  BY <1>1, <1>4, <1>5, <1>6, <1>7, <1>a, AppendSound
<1> QED
  BY <1>4, <1>8, <1>k, SoundAfter

LEMMA InstallSound ==
    ASSUME InstallInv, PairingInv,
           \/ PlanInstall \/ RunStep \/ CloseReport
           \/ \E yes \in BOOLEAN : AnswerInstall(yes)
           \/ InstallBuilt \/ BuiltInstalled
    PROVE  PairingInv'
<1>w. "main" \in Windows /\ "conf" \in Windows
  BY DEF Windows
<1>1. CASE RunStep
  <2> DEFINE f == flow["main"]
  <2>1. PICK rc \in 0..2 : /\ Run(f.steps[Len(f.rcs) + 1], rc)
                           /\ flow' = [flow EXCEPT !["main"] = AfterStep(@, rc)]
    BY <1>1 DEF RunStep
  <2>2. flow' = [flow EXCEPT !["main"] = AfterStep(f, rc)]
    BY <2>1 DEF InstallInv, FlowsMean
  <2>3. f.pc = "run" /\ UNCHANGED <<repoVars, worker, banner>>
    BY <1>1 DEF RunStep, At
  <2>4. f \in Flows /\ FlowMeans(f, inst)
    BY <1>w, PairingFacts
  <2>5. Len(f.rcs) + 1 \in DOMAIN f.steps
    <3>1. f.steps \in Seq(Commands) /\ f.rcs \in Seq(0..2) /\ Len(f.rcs) < Len(f.steps)
      BY <2>3, <2>4 DEF Flows, FlowMeans
    <3> QED
      BY <3>1
  <2> DEFINE h == AfterStep(f, rc)
  <2>6. /\ h \in Flows /\ h.pc \in {"run", "report"} /\ h.rcs = Append(f.rcs, rc)
        /\ h.steps = f.steps /\ h.kind = f.kind /\ h.target = f.target
        /\ h.clean = f.clean /\ h.anyway = f.anyway
    BY <2>3, <2>4, AfterStepFields
  <2>7. flow' = [flow EXCEPT !["main"] = h]
    BY <2>2
  <2> HIDE DEF h
  <2> QED
    BY <1>w, <2>1, <2>3, <2>5, <2>6, <2>7, EndSound
<1>2. CASE CloseReport
  BY <1>2, <1>w, DropSound DEF CloseReport
<1>3. CASE InstallBuilt
  <2> DEFINE f == flow["conf"]
  <2>1. PICK rc \in 0..2 : Run(f.steps[1], rc) /\ flow' = [flow EXCEPT !["conf"].rcs = <<rc>>]
    BY <1>3 DEF InstallBuilt
  <2> DEFINE h == [f EXCEPT !.rcs = <<rc>>]
  <2>2. flow' = [flow EXCEPT !["conf"] = h]
    BY <2>1 DEF InstallInv, FlowsMean
  <2>3. f.pc = "async" /\ f.rcs = <<>> /\ UNCHANGED <<repoVars, worker, banner>>
    BY <1>3 DEF InstallBuilt
  <2>4. f \in Flows /\ Len(f.steps) = 1 /\ f.steps \in Seq(Commands)
    BY <1>w, <2>3, PairingFacts DEF FlowMeans, Flows
  <2>5. Len(f.rcs) + 1 = 1 /\ 1 \in DOMAIN f.steps
    BY <2>3, <2>4
  <2>6. <<rc>> \in Seq(0..2) /\ <<rc>> = Append(f.rcs, rc)
    BY <2>3
  <2>7. /\ h \in Flows /\ h.pc = "async" /\ h.rcs = Append(f.rcs, rc)
        /\ h.steps = f.steps /\ h.kind = f.kind /\ h.target = f.target
        /\ h.clean = f.clean /\ h.anyway = f.anyway
    BY <2>3, <2>4, <2>6 DEF Flows
  <2> HIDE DEF h
  <2> QED
    BY <1>w, <2>1, <2>2, <2>3, <2>5, <2>7, EndSound
<1>4. CASE BuiltInstalled
  BY <1>4, <1>w, DropSound DEF BuiltInstalled
<1> QED
  BY <1>1, <1>2, <1>3, <1>4, PlanSound, AnswerSound

\* The worker's flow changes, and the main window's may go.
LEMMA WorkerUpdate ==
    ASSUME InstallInv, PairingInv, Later(Machine, Machine'), LateReplaces', banner' = banner,
           UNCHANGED flow \/ Drop("main"), Sound(worker', banner["main"], Machine'), WorkerCarries'
    PROVE  PairingInv'
<1>1. ASSUME NEW x \in Windows PROVE Sound(flow'[x], banner'[x], Machine')
  <2>1. flow'[x] = flow[x] \/ flow'[x] = NoFlow
    BY DEF Drop, InstallInv, FlowsMean
  <2>2. Sound(flow[x], banner[x], Machine')
    BY PairingFacts, SoundLater
  <2> QED
    BY <2>1, <2>2, NoFlowSound
<1>2. MainKinds'
  BY DEF PairingInv, MainKinds, Drop, NoFlow, InstallInv, FlowsMean, Windows
<1> QED
  BY <1>1, <1>2 DEF PairingInv, FlowsSound

LEMMA WorkerSound ==
    ASSUME InstallInv, PairingInv, StartWorker \/ RunWorker \/ WorkerDone
    PROVE  PairingInv'
<1>w. "main" \in Windows
  BY DEF Windows
<1>1. CASE StartWorker
  <2> DEFINE f == flow["main"]
             names == Names(f.target)
             c == Command(names, names, 0, "")
             g == [f EXCEPT !.pc = "run", !.steps = <<c>>]
  <2>1. /\ UNCHANGED <<repoVars, pkgVars, late>> /\ banner' = banner
        /\ f.pc = "start" /\ worker' = g /\ Drop("main")
    BY <1>1 DEF StartWorker, At
  <2>2. f \in Flows /\ Sound(f, banner["main"], Machine) /\ f.rcs = <<>>
    BY <1>w, <2>1, PairingFacts, DialogIsFresh DEF FlowMeans
  <2>3. c \in Commands /\ c.driver = "" /\ c.headers = names
    BY <2>2, NamesAreKernels, RepoCommandType DEF Flows, Command
  <2>4. f.kind = "execute"
    BY <2>1, <2>2 DEF Sound, Fits
  <2> HIDE DEF c
  <2>5. <<c>> \in Seq(Commands)
    <3>1. c \in Commands
      BY <2>3
    <3> QED
      BY <3>1
  <2>6. 1 \in DOMAIN <<c>> /\ \A i \in DOMAIN <<c>> : <<c>>[i] = c
    OBVIOUS
  <2>7. /\ g \in Flows /\ g.pc = "run" /\ g.kind = f.kind /\ g.target = f.target /\ g.rcs = f.rcs
        /\ g.clean = f.clean /\ g.anyway = f.anyway /\ g.steps = <<c>>
    BY <2>2, <2>5 DEF Flows
  <2>8. Machine' = Machine /\ Later(Machine, Machine') /\ LateReplaces'
    BY <2>1, UnchangedLater, PairingFacts
  <2> HIDE DEF f, g
  <2>9. \A i \in DOMAIN g.steps : g.steps[i].driver = ""
    BY <2>3, <2>6, <2>7
  <2>10. \A k \in Names(g.target) : Promised(g, k, Machine)
    <3>1. 1 \in DOMAIN g.steps /\ g.steps[1].headers = Names(g.target)
      BY <2>3, <2>6, <2>7
    <3> QED
      BY <2>7, <3>1 DEF Promised
  <2>11. Covered(f, Machine) => Covered(g, Machine)
    BY <2>7, <2>10 DEF Covered
  <2>12. Sound(g, banner["main"], Machine)
    BY <2>1, <2>2, <2>4, <2>7, <2>9, <2>11, StepsSound
  <2>13. WorkerCarries'
    BY <2>1, <2>4, <2>7 DEF WorkerCarries, c, Names, Command
  <2> QED
    BY <2>1, <2>8, <2>12, <2>13, WorkerUpdate
<1>2. CASE RunWorker
  <2> DEFINE n == Len(worker.rcs) + 1
             c == worker.steps[n]
  <2>1. PICK rc \in 0..2 : Run(worker.steps[1], rc) /\ worker' = AfterStep(worker, rc)
    BY <1>2 DEF RunWorker
  <2>2. /\ worker.pc = "run" /\ UNCHANGED <<conf, synced>> /\ banner' = banner /\ UNCHANGED flow
    BY <1>2 DEF RunWorker, repoVars
  <2>3. worker \in Flows /\ Sound(worker, banner["main"], Machine)
    BY PairingFacts
  <2>4. worker.rcs = <<>> /\ Len(worker.steps) = 1 /\ worker.steps \in Seq(Commands)
    BY <2>2, <2>3 DEF InstallInv, FlowsMean, WorkerMeans, Flows
  <2>5. n = 1 /\ n \in DOMAIN worker.steps
    BY <2>4
  <2>6. c \in Commands /\ Replaces(c)
    BY <2>3, <2>5, StepHeaders DEF Sound, Fits, Replaces
  <2>7. /\ Later(Machine, Machine') /\ LateReplaces'
        /\ rc = 0 => \A k \in c.headers : hdr'[k] > 0
    BY <2>1, <2>2, <2>5, <2>6, PairingFacts, RunLater
  <2>8. Sound(worker, banner["main"], Machine')
    BY <2>3, <2>7, SoundLater
  <2> DEFINE g == AfterStep(worker, rc)
  <2>9. /\ g \in Flows /\ g.pc \in {"run", "report"} /\ g.rcs = Append(worker.rcs, rc)
        /\ g.steps = worker.steps /\ g.kind = worker.kind /\ g.target = worker.target
        /\ g.clean = worker.clean /\ g.anyway = worker.anyway
    BY <2>2, <2>3, AfterStepFields
  <2>10. Machine'.hdr = hdr' /\ worker' = g
    BY <2>1 DEF Machine
  <2>11. worker.kind = "execute"
    BY <2>2 DEF PairingInv, WorkerCarries
  <2> HIDE DEF g
  <2>12. Sound(g, banner["main"], Machine')
    BY <2>2, <2>3, <2>5, <2>7, <2>8, <2>9, <2>10, <2>11, AppendSound
  <2>13. WorkerCarries'
    BY <2>2, <2>9, <2>10 DEF PairingInv, WorkerCarries, Names, Command
  <2> QED
    BY <2>2, <2>7, <2>10, <2>12, <2>13, WorkerUpdate
<1>3. CASE WorkerDone
  <2>1. UNCHANGED <<repoVars, pkgVars, late>> /\ banner' = banner /\ UNCHANGED flow /\ worker' = NoFlow
    BY <1>3 DEF WorkerDone
  <2>2. Later(Machine, Machine') /\ LateReplaces'
    BY <2>1, UnchangedLater, PairingFacts
  <2>3. WorkerCarries'
    BY <2>1 DEF WorkerCarries, NoFlow
  <2> QED
    BY <2>1, <2>2, <2>3, NoFlowSound, WorkerUpdate
<1> QED
  BY <1>1, <1>2, <1>3

\* What other programs change no flow under way relies on.
LEMMA UncleanSound ==
    ASSUME NEW f \in Flows, NEW b, NEW m, NEW n, Fits(f, m), m.drivers # {} => n.drivers # {}
    PROVE  Sound(Unclean(f), b, n)
<1>1. CASE f.pc = "idle"
  BY <1>1, NoFlowSound DEF Unclean, Fits
<1>2. CASE f.pc # "idle"
  <2> DEFINE g == [f EXCEPT !.clean = FALSE]
  <2>1. /\ g.pc = f.pc /\ g.kind = f.kind /\ g.target = f.target /\ g.act = f.act
        /\ g.steps = f.steps /\ g.rcs = f.rcs /\ ~ g.clean
    BY DEF Flows
  <2>2. Unclean(f) = g
    BY <1>2 DEF Unclean
  <2> HIDE DEF g
  <2>3. Fits(g, n)
    BY <1>2, <2>1 DEF Fits
  <2>4. Found(g, n) /\ Paired(g, b, n)
    BY <2>1 DEF Found, Paired
  <2> QED
    BY <2>2, <2>3, <2>4 DEF Sound
<1> QED
  BY <1>1, <1>2

LEMMA ExternalSound == ASSUME InstallInv, PairingInv, External PROVE PairingInv'
<1>1. /\ flow' = [w \in Windows |-> Unclean(flow[w])] /\ worker' = Unclean(worker)
      /\ late' = late /\ banner' = banner
  BY DEF External
<1>2. drivers # {} => drivers' # {}
  BY DEF External, pkgVars
<1>3. Machine.drivers # {} => Machine'.drivers # {}
  BY <1>2 DEF Machine
<1>4. LateReplaces'
  BY <1>1, <1>2 DEF PairingInv, LateReplaces, Replaces
<1>5. \A w \in Windows : Sound(flow'[w], banner'[w], Machine')
  BY <1>1, <1>3, PairingFacts, UncleanSound DEF Sound
<1>6. Sound(worker', banner'["main"], Machine')
  BY <1>1, <1>3, PairingFacts, UncleanSound DEF Sound
<1>7. WorkerCarries'
  BY <1>1, PairingFacts, ZenonT(30) DEF PairingInv, WorkerCarries, Unclean, Flows, Names, Command
<1>8. MainKinds'
  BY <1>1, PairingFacts DEF PairingInv, MainKinds, Unclean, Flows, Windows
<1> QED
  BY <1>4, <1>5, <1>6, <1>7, <1>8 DEF PairingInv, FlowsSound

LEMMA OtherSound ==
    ASSUME InstallInv, PairingInv,
           AddRepo \/ RepoAnswered \/ LateCommand \/ Scripting \/ Publishing \/ UNCHANGED vars
    PROVE  PairingInv'
<1>1. CASE LateCommand
  <2>1. UNCHANGED <<flow, worker, banner>>
    BY <1>1 DEF LateCommand, uiVars
  <2> QED
    BY <1>1, <2>1, PairingFacts, LateLater, SoundStays
<1>2. ASSUME RepoLater, UNCHANGED <<pkgVars, late, flow, worker, banner>> PROVE PairingInv'
  <2>1. Later(Machine, Machine')
    BY <1>2, RepoMachineLater DEF pkgVars
  <2>2. LateReplaces'
    BY <1>2, PairingFacts DEF LateReplaces, Replaces, pkgVars
  <2> QED
    BY <1>2, <2>1, <2>2, SoundStays
<1>3. CASE AddRepo
  BY <1>2, <1>3, UnchangedRepoLater DEF AddRepo, Begin
<1>4. CASE RepoAnswered
  BY <1>2, <1>4, UnchangedRepoLater DEF RepoAnswered, repoVars
<1>5. CASE Scripting
  BY <1>2, <1>5, ScriptLater, PairingFacts DEF Scripting, uiVars
<1>6. CASE Publishing
  BY <1>2, <1>6, UnchangedRepoLater DEF Publishing, Release, uiVars
<1>7. CASE UNCHANGED vars
  BY <1>2, <1>7, UnchangedRepoLater DEF vars, repoVars, uiVars
<1> QED
  BY <1>1, <1>3, <1>4, <1>5, <1>6, <1>7

LEMMA InitPairingInv == Init => PairingInv
<1> SUFFICES ASSUME Init PROVE PairingInv
  OBVIOUS
<1>1. LateReplaces
  BY DEF Init, LateReplaces, Replaces, NoCommand, Command
<1>2. WorkerCarries /\ MainKinds
  BY DEF Init, WorkerCarries, MainKinds, NoFlow, Windows
<1>3. FlowsSound
  BY NoFlowSound DEF Init, FlowsSound
<1> QED
  BY <1>1, <1>2, <1>3 DEF PairingInv

LEMMA StepSound == ASSUME InstallInv, PairingInv, [Next]_vars PROVE PairingInv'
<1>1. CASE Execute \/ InstallPrecompiled \/ InstallFromDirectory \/ BuildDone
  BY <1>1, BeginSound
<1>2. CASE \/ Inform \/ Recheck
           \/ \E w \in Windows : Decline(w) \/ Abort(w) \/ ContinueAnyway(w)
  BY <1>2, TalkSound
<1>3. CASE EnsureHeaders \/ \E w \in Windows : Migrate(w)
  BY <1>3, EnsureSound, MigrateSound
<1>4. CASE \/ PlanInstall \/ RunStep \/ CloseReport
           \/ \E yes \in BOOLEAN : AnswerInstall(yes)
           \/ InstallBuilt \/ BuiltInstalled
  BY <1>4, InstallSound
<1>5. CASE StartWorker \/ RunWorker \/ WorkerDone
  BY <1>5, WorkerSound
<1>6. CASE External
  BY <1>6, ExternalSound
<1>7. CASE AddRepo \/ RepoAnswered \/ LateCommand \/ Scripting \/ Publishing \/ UNCHANGED vars
  BY <1>7, OtherSound
<1> QED
  BY <1>1, <1>2, <1>3, <1>4, <1>5, <1>6, <1>7 DEF Next

\* A flow behind the gate that nothing disturbed relies on no driver that is
\* gone, brings the headers it promised, and runs nothing pacman cannot find.
THEOREM PairingInvariant == Spec => []PairingInv
<1>1. Init => PairingInv
  BY InitPairingInv
<1>2. PairingInv /\ InstallInv /\ [Next]_vars => PairingInv'
  BY StepSound
<1> QED
  BY <1>1, <1>2, InstallInvariant, PTL DEF Spec

-----------------------------------------------------------------------------
(* What it means for an install that has ended.                            *)

LEMMA FinishedFacts ==
    ASSUME InstallInv, PairingInv, NEW w \in Windows, NEW f \in Finished(w)
    PROVE  /\ f \in Flows /\ Sound(f, banner[w], Machine)
           /\ f.pc \in {"report", "async"}
<1>1. f = flow[w] \/ (w = "main" /\ f = worker)
  BY DEF Finished
<1>2. f.pc \in {"report", "async"}
  BY DEF Finished
<1> QED
  BY <1>1, <1>2, PairingFacts

LEMMA InvGivesPaired == InstallInv /\ PairingInv => UnwarnedIsPaired
<1> SUFFICES ASSUME InstallInv, PairingInv, NEW w \in Windows, NEW f \in Finished(w),
                    f.clean, AllOk(f), ~ banner[w], ~ f.anyway
             PROVE  /\ Precompiled \notin drivers
                    /\ DkmsInstalled => \A k \in Names(f.target) : hdr[k] > 0
  BY DEF UnwarnedIsPaired
<1>1. /\ f \in Flows /\ Sound(f, banner[w], Machine) /\ f.pc \in {"report", "async"}
  BY FinishedFacts
<1>2. Covered(f, Machine) /\ HeadersThere(f, Machine)
  BY <1>1 DEF Sound, Paired, Past
<1>3. ASSUME NEW i \in DOMAIN f.steps, NEW k \in f.steps[i].headers PROVE hdr[k] > 0
  <2>1. f.steps \in Seq(Commands) /\ f.rcs \in Seq(0..2) /\ Len(f.rcs) = Len(f.steps)
    BY <1>1 DEF Flows, AllOk
  <2>2. i \in DOMAIN f.rcs
    BY <2>1
  <2>3. f.rcs[i] = 0
    BY <2>2 DEF AllOk
  <2> QED
    BY <1>2, <2>2, <2>3, MachineFields DEF HeadersThere
<1>4. ASSUME DkmsInstalled, NEW k \in Names(f.target) PROVE hdr[k] > 0
  <2>1. Machine.drivers \cap DkmsDrivers # {}
    BY <1>4, MachineFields DEF DkmsInstalled
  <2>2. Machine.hdr[k] > 0 \/ Promised(f, k, Machine)
    BY <1>2, <1>4, <2>1 DEF Covered
  <2>3. Promised(f, k, Machine) => \E i \in DOMAIN f.steps : k \in f.steps[i].headers
    BY <1>1 DEF Promised
  <2> QED
    BY <1>3, <2>2, <2>3, MachineFields
<1> QED
  BY <1>2, <1>4, MachineFields DEF Covered

LEMMA InvGivesFound == InstallInv /\ PairingInv => InstallFindsItsTargets
<1> SUFFICES ASSUME InstallInv, PairingInv, SameReading, NEW w \in Windows, NEW f \in Finished(w),
                    f.clean, f.kind # "execute", NEW i \in DOMAIN f.rcs
             PROVE  f.rcs[i] # 2
  BY DEF InstallFindsItsTargets
<1>1. Found(f, Machine)
  BY FinishedFacts DEF Sound
<1>2. f.rcs[i] \notin Machine.refused
  BY <1>1 DEF Found
<1> QED
  BY <1>2, MachineFields

\* A kernel installed while nothing else touched the packages gets its driver: no
\* precompiled one is left, and a DKMS one has the kernel's headers, unless the
\* window warned or the user went on after a failure (km-window.cpp:1436).
THEOREM UnwarnedGetsItsDriver == Spec => []UnwarnedIsPaired
BY PairingInvariant, InstallInvariant, InvGivesPaired, PTL

\* Pairing the headers makes pacman refuse no install it would have done: while
\* the section is one both read alike, no command of an install names a package
\* that is in no database (install_kernel.cpp:60).
THEOREM PairingNeverRefuses == Spec => []InstallFindsItsTargets
BY PairingInvariant, InstallInvariant, InvGivesFound, PTL
=============================================================================
