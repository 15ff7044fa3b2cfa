----------------------------- MODULE BuildSession -----------------------------
(***************************************************************************)
(* Custom builds: ConfWindow (conf-window.cpp) launches a build through    *)
(* terminal-helper, learns of its completion from the marker .done-status, *)
(* and offers to install the packages.  The background prepare that        *)
(* MainWindow::on_configure starts works on the same checkout.             *)
(*                                                                         *)
(* A job is one command given to terminal-helper; of the helper this       *)
(* module keeps what LaunchContract promises: it answers when the job has  *)
(* ended, was refused or died, or after a time-out while the job runs on.  *)
(* A marker or a package file is the number of the job that made it, 0 is  *)
(* none.  A launch that is refused, or whose Polkit dialog outlives the    *)
(* helper's start deadline, is a job that ends before it runs.             *)
(*                                                                         *)
(* A prepare may remove the checkout, and with it the directory a command  *)
(* is to be started in: dirs is the flavors whose directory is there.      *)
(***************************************************************************)
EXTENDS Naturals, FiniteSets

CONSTANTS
    Flavors,      \* build directories, the flavors of the source repositories
    Checkouts,    \* the sets of flavors a prepare may leave, {} when a clone fails
    MaxJobs,      \* bound on commands launched
    MaxActs,      \* bound on the user's other actions
    MaxPolls,     \* m_done_polls_left after a helper exit (10 in the code)
    MaxPools      \* bound on background prepares at the same time

ASSUME BuildAssumption ==
    /\ Flavors # {} /\ Checkouts \subseteq SUBSET Flavors
    /\ {MaxJobs, MaxActs, MaxPools} \subseteq Nat
    /\ MaxPolls \in Nat \ {0}

Jobs == 1..MaxJobs

VARIABLES
    missing,   \* terminal-helper cannot be started (not installed)
    visible,   \* the ConfWindow is shown
    selected,  \* the flavor selected in main_combo_box
    running,   \* m_running
    expect,    \* m_expect_done
    confDir,   \* m_build_conf_path; "none" before the first launch
    timer,     \* m_done_status_timer is active
    polls,     \* m_done_polls_left
    upc,       \* where the UI thread is
    current,   \* the job whose helper m_cmd runs, 0 when m_cmd is not running
    jobs,      \* every command launched: [kind, dir, st]
    count,     \* commands launched
    marker,    \* .done-status of each flavor
    pkgs,      \* the built packages in each flavor's directory
    dirs,      \* the flavors whose directory exists
    pools,     \* background prepares running
    offered,   \* history: the job whose marker the last handle_build_done removed
    orphans,   \* history: jobs that went on without a helper waiting for them
    lost,      \* history: m_cmd could not start the last command
    acts       \* user actions so far

windowVars == <<visible, selected>>
buildVars  == <<running, expect, confDir, current>>
pollVars   == <<timer, polls>>
jobVars    == <<jobs, count>>
fileVars   == <<marker, pkgs, dirs>>
histVars   == <<offered, orphans, lost>>
vars == <<missing, windowVars, buildVars, pollVars, upc, jobVars, fileVars, pools, histVars, acts>>

States == {"none", "pending", "running", "built", "over"}
Active == {"pending", "running", "built"}
Job(kind, dir) == [kind |-> kind, dir |-> dir, st |-> "pending"]
NoJob == [kind |-> "none", dir |-> "none", st |-> "none"]
Empty == [f \in Flavors |-> 0]

Live(i) == jobs[i].st \in Active
First(D) == CHOOSE f \in D : TRUE   \* the base flavor, the combo's first entry
-----------------------------------------------------------------------------
(* Variants with one planted fault each, not part of Next.                 *)

TimerKept       == timer      \* TimerAfterLaunch: no m_done_status_timer.stop()
MarkerKept      == marker     \* MarkerAfterDone: .done-status not removed
SelectedFlavor  == selected   \* InstallDir: not the directory remembered at launch
PollsKept       == polls      \* PollsAfter: m_done_polls_left not counted down
PollsLeftLate   == polls >= 0 \* PollsLeft: counted down below its last poll
NeverFree       == running    \* RunningAfterExit: finished_proc keeps m_running
HalfCleaned     == UNCHANGED <<marker, dirs>> /\ pkgs' = Empty   \* PrepareRepo: the marker outlives it
-----------------------------------------------------------------------------
(* User actions.                                                           *)

UserActs == upc = "ready" /\ acts < MaxActs /\ acts' = acts + 1

SelectFlavor(f) ==
    /\ UserActs
    /\ visible /\ f # selected
    /\ selected' = f
    /\ UNCHANGED <<missing, visible, buildVars, pollVars, upc, jobVars, fileVars, pools, histVars>>

\* closeEvent does nothing but close the window: the build goes on.
CloseConf ==
    /\ UserActs
    /\ visible
    /\ visible' = FALSE
    /\ UNCHANGED <<missing, selected, buildVars, pollVars, upc, jobVars, fileVars, pools, histVars>>

\* MainWindow::on_configure, reachable while the application-modal ConfWindow is
\* hidden.  The progress dialog can be cancelled, which stops nothing, and
\* Configure clicked again.
Configure ==
    /\ UserActs
    /\ ~visible /\ pools < MaxPools
    /\ pools' = pools + 1
    /\ UNCHANGED <<missing, windowVars, buildVars, pollVars, upc, jobVars, fileVars, histVars>>

\* on_execute: nothing while m_running, else the synchronous prepare.
ExecuteClick ==
    /\ upc = "ready" /\ count < MaxJobs
    /\ visible /\ ~running
    /\ running' = TRUE
    /\ upc' = "prepare"
    /\ UNCHANGED <<missing, windowVars, expect, confDir, current, pollVars, jobVars, fileVars,
                   pools, histVars, acts>>

\* The program is closed and started again: QProcess kills the helper, not the
\* terminal; nothing of the session is saved.
Restart ==
    /\ UserActs
    /\ ~visible /\ pools = 0
    /\ orphans' = orphans \cup {i \in Jobs : Live(i) \/ i = current}
    /\ running' = FALSE /\ expect' = TRUE /\ confDir' = "none" /\ current' = 0
    /\ timer' = FALSE /\ polls' = 0 /\ lost' = FALSE
    /\ UNCHANGED <<missing, windowVars, upc, jobVars, fileVars, pools, offered>>
-----------------------------------------------------------------------------
(* prepare_git_repo and the rest of on_execute.                            *)

\* git checkout, git clean and git pull stop at the first failure, so untracked
\* files stay or go.  A changed source removes the repository, and the clone of
\* the new one may fail or hold other flavors.
PrepareRepo == \/ UNCHANGED fileVars
               \/ marker' = Empty /\ pkgs' = Empty /\ dirs' \in Checkouts

\* refresh_flavors: without a flavor the combo stays as it is; else the selection
\* is kept if its flavor is still there and the last refresh knew it.
RefreshFlavors ==
    selected' \in IF dirs' = {} THEN {selected} ELSE {First(dirs')} \cup ({selected} \cap dirs')

\* The prepare and the edits of the PKGBUILD; without a flavor or a PKGBUILD
\* that can be edited on_execute returns.
Prepare ==
    /\ upc = "prepare"
    /\ PrepareRepo /\ RefreshFlavors
    /\ \/ selected' \in dirs' /\ upc' = "launch" /\ UNCHANGED running
       \/ upc' = "ready" /\ running' = FALSE
    /\ UNCHANGED <<missing, visible, expect, confDir, current, pollVars, jobVars, pools,
                   histVars, acts>>

TimerAfterLaunch == FALSE

\* run_cmd_async.  QProcess::start does nothing while m_cmd runs; it fails when
\* the helper is not there or the working directory is gone, and a process that
\* failed to start never emits finished.
RunCmdAsync(kind, dir) ==
    /\ timer' = TimerAfterLaunch
    /\ expect' = (kind = "build")
    /\ confDir' = dir
    /\ lost' = (missing \/ dir \notin dirs)
    /\ IF current # 0 \/ lost'
       THEN UNCHANGED <<current, jobVars>>
       ELSE /\ count' = count + 1
            /\ jobs' = [jobs EXCEPT ![count + 1] = Job(kind, dir)]
            /\ current' = count + 1
    /\ upc' = "ready"
    /\ UNCHANGED <<polls, offered, orphans>>

LaunchBuild ==
    /\ upc = "launch"
    /\ RunCmdAsync("build", selected)
    /\ UNCHANGED <<missing, windowVars, running, fileVars, pools, acts>>

\* The background prepare finds another source's checkout and removes it; the
\* clone is still to come.
PoolRemoves ==
    /\ pools > 0
    /\ marker' = Empty /\ pkgs' = Empty /\ dirs' = {}
    /\ UNCHANGED <<missing, windowVars, buildVars, pollVars, upc, jobVars, pools, histVars, acts>>

\* The background prepare; when the future the watcher still follows finishes,
\* the ConfWindow is shown.
PoolPrepares ==
    /\ pools > 0
    /\ PrepareRepo /\ RefreshFlavors
    /\ pools' = pools - 1
    /\ visible' \in {TRUE, visible}
    /\ UNCHANGED <<missing, buildVars, pollVars, upc, jobVars, histVars, acts>>
-----------------------------------------------------------------------------
(* The command in its terminal.                                            *)

SetState(i, st) == jobs' = [jobs EXCEPT ![i].st = st]

JobStarts(i) ==
    /\ jobs[i].st = "pending"
    /\ SetState(i, "running")
    /\ UNCHANGED <<missing, windowVars, buildVars, pollVars, upc, count, fileVars, pools,
                   histVars, acts>>

\* makepkg succeeds: the packages are there and .done-status is touched.  (In a
\* directory removed and cloned again this may be more than the shell still can.)
JobBuilds(i) ==
    /\ jobs[i].st = "running" /\ jobs[i].kind = "build" /\ jobs[i].dir \in dirs
    /\ SetState(i, "built")
    /\ pkgs' = [pkgs EXCEPT ![jobs[i].dir] = i]
    /\ marker' = [marker EXCEPT ![jobs[i].dir] = i]
    /\ UNCHANGED <<missing, windowVars, buildVars, pollVars, upc, count, dirs, pools, histVars, acts>>

\* The command ends, after "Press enter"; or Polkit is refused, or its window is
\* closed or crashes.  A build that ends before it was "built" left no marker.
JobEnds(i) ==
    /\ Live(i)
    /\ SetState(i, "over")
    /\ UNCHANGED <<missing, windowVars, buildVars, pollVars, upc, count, fileVars, pools,
                   histVars, acts>>
-----------------------------------------------------------------------------
(* The end of a launch.                                                    *)

RunningAfterExit == FALSE

\* finished_proc, when the helper has answered: with the job's end, or with 124
\* while the job goes on.
FinishedProc ==
    /\ upc = "ready" /\ current # 0
    /\ jobs[current].st # "pending"
    /\ orphans' = IF Live(current) THEN orphans \cup {current} ELSE orphans
    /\ running' = RunningAfterExit
    /\ current' = 0
    /\ IF ~expect
       THEN UNCHANGED <<upc, pollVars>>
       ELSE IF marker[confDir] # 0
       THEN upc' = "done" /\ UNCHANGED pollVars
       ELSE timer' = TRUE /\ polls' = MaxPolls /\ UNCHANGED upc
    /\ offered' = IF upc' = "done" THEN marker[confDir] ELSE offered
    /\ UNCHANGED <<missing, windowVars, expect, confDir, jobVars, fileVars, pools, lost, acts>>

PollsLeft == polls > 1
PollsAfter == polls - 1

\* on_done_status_tick.
Tick ==
    /\ upc = "ready" /\ timer
    /\ \/ /\ marker[confDir] # 0
          /\ timer' = FALSE /\ upc' = "done"
          /\ offered' = marker[confDir]
          /\ UNCHANGED polls
       \/ /\ marker[confDir] = 0
          /\ IF PollsLeft THEN polls' = PollsAfter /\ UNCHANGED timer
                          ELSE timer' = FALSE /\ UNCHANGED polls
          /\ UNCHANGED <<upc, offered>>
    /\ UNCHANGED <<missing, windowVars, buildVars, jobVars, fileVars, pools, orphans, lost, acts>>

MarkerAfterDone == [marker EXCEPT ![confDir] = 0]

\* handle_build_done: remove the marker, then the driver gate and the question.
HandleBuildDone ==
    /\ upc = "done"
    /\ marker' = MarkerAfterDone
    /\ upc' = "question"
    /\ UNCHANGED <<missing, windowVars, buildVars, pollVars, jobVars, pkgs, dirs, pools, histVars, acts>>

\* The gate aborts or the user declines.
Declined ==
    /\ upc = "question"
    /\ upc' = "ready"
    /\ UNCHANGED <<missing, windowVars, buildVars, pollVars, jobVars, fileVars, pools, histVars, acts>>

InstallDir == confDir
RunningOnInstall == TRUE

\* "Yes": pacman -U on the packages of m_build_conf_path.
InstallPackages ==
    /\ upc = "question" /\ count < MaxJobs
    /\ running' = RunningOnInstall
    /\ RunCmdAsync("install", InstallDir)
    /\ UNCHANGED <<missing, windowVars, fileVars, pools, acts>>
-----------------------------------------------------------------------------
Init ==
    /\ missing \in BOOLEAN
    /\ visible = FALSE
    /\ selected = First(Flavors)
    /\ running = FALSE /\ expect = TRUE /\ confDir = "none" /\ current = 0
    /\ timer = FALSE /\ polls = 0
    /\ upc = "ready"
    /\ jobs = [i \in Jobs |-> NoJob] /\ count = 0
    /\ marker = Empty /\ pkgs = Empty /\ dirs \in Checkouts
    /\ pools = 0
    /\ offered = 0 /\ orphans = {} /\ lost = FALSE
    /\ acts = 0

UserSteps == \/ \E f \in Flavors : SelectFlavor(f)
             \/ CloseConf \/ Configure \/ ExecuteClick \/ Restart

UiSteps == Prepare \/ LaunchBuild \/ HandleBuildDone \/ Declined \/ InstallPackages

JobSteps(i) == JobStarts(i) \/ JobBuilds(i) \/ JobEnds(i)

Next == \/ UserSteps \/ UiSteps \/ PoolRemoves \/ PoolPrepares \/ FinishedProc \/ Tick
        \/ \E i \in Jobs : JobSteps(i)

Spec == Init /\ [][Next]_vars

\* Handlers, the background task and the 3 s timer run; a launch starts or ends,
\* and its helper answers, for the reasons HelperEnds of TerminalHelper gives.
\* The timer's event is delivered between two clicks, however often the user tries
\* an Execute that comes back without a launch: strong fairness.
FairSpec == /\ Spec
            /\ WF_vars(UiSteps) /\ WF_vars(PoolPrepares)
            /\ WF_vars(FinishedProc) /\ SF_vars(Tick)
            /\ \A i \in Jobs : WF_vars(JobStarts(i))
-----------------------------------------------------------------------------
(* Properties.                                                             *)

\* Every variable keeps its type.
TypeOK ==
    /\ {missing, visible, running, expect, timer, lost} \subseteq BOOLEAN
    /\ selected \in Flavors /\ confDir \in Flavors \cup {"none"}
    /\ polls \in 0..MaxPolls /\ pools \in 0..MaxPools /\ acts \in 0..MaxActs
    /\ upc \in {"ready", "prepare", "launch", "done", "question"}
    /\ jobs \in [Jobs -> [kind : {"none", "build", "install"},
                          dir : Flavors \cup {"none"}, st : States]]
    /\ {current, count, offered} \subseteq 0..MaxJobs
    /\ marker \in [Flavors -> 0..MaxJobs] /\ pkgs \in [Flavors -> 0..MaxJobs]
    /\ orphans \subseteq Jobs /\ dirs \subseteq Flavors

\* m_running guards m_cmd, the one QProcess of the window: it is set while the
\* helper runs, and every way to a run_cmd_async (Execute, the end of a build,
\* the poll timer) finds m_cmd idle, so that no command is dropped by start().
HelperIsProtected ==
    /\ current # 0 => running
    /\ timer \/ upc # "ready" => current = 0

Builds == {i \in Jobs : jobs[i].kind = "build"}

\* The install question is about the build launched last, except when a build
\* nobody waited for any more left a marker that the prepare did not remove.
StaleOfferIsOrphan ==
    upc \in {"done", "question"} =>
        \/ offered \in orphans
        \/ offered \in Builds /\ \A i \in Builds : i <= offered

\* pacman -U is given the directory of the build that was offered, whatever
\* flavor is selected by then, and no other build's packages are in it, again
\* but for those of builds nobody waits for.
InstallsOfferedBuild ==
    [][upc = "question" /\ current' # current =>
         /\ jobs'[current'].dir = jobs[offered].dir
         /\ pkgs[jobs[offered].dir] \in {0, offered} \cup orphans]_vars

-----------------------------------------------------------------------------
(* The inductive invariant: what the window knows of its launches at each  *)
(* place, and what a marker on the disk can mean.                          *)

\* m_running is set with nothing to wait for exactly after a command that m_cmd
\* could not start.
LockedMeans ==
    /\ (running /\ current = 0 /\ upc = "ready") <=> lost
    /\ lost => ~timer
    /\ upc \in {"done", "question"} => ~running

LaunchesCounted ==
    /\ upc \in {"prepare", "launch"} => running /\ count < MaxJobs
    /\ \A i \in Jobs : i > count => jobs[i] = NoJob
    /\ \A i \in Jobs : Live(i) => i = current \/ i \in orphans

HelperKnown ==
    /\ current # 0 => /\ current = count /\ jobs[current].dir = confDir
                      /\ expect = (jobs[current].kind = "build")
    /\ current # 0 \/ timer \/ upc \in {"done", "question"} => confDir \in Flavors

\* A marker is its build's, beside its packages, and either some handler still
\* waits for it or nobody has waited for the build for some time.
MarkersMean ==
    \A f \in Flavors : marker[f] # 0 =>
        /\ marker[f] \in Builds /\ jobs[marker[f]].dir = f /\ pkgs[f] = marker[f]
        /\ \/ marker[f] \in orphans
           \/ marker[f] = current
           \/ upc = "done" /\ marker[f] = offered

OfferMeans ==
    upc \in {"done", "question"} =>
        /\ offered \in Jobs /\ jobs[offered].dir = confDir
        /\ pkgs[confDir] \in {0, offered} \cup orphans

\* The conjunction is inductive, and HelperIsProtected, StaleOfferIsOrphan and
\* InstallsOfferedBuild follow from it (finished_proc, on_done_status_tick,
\* handle_build_done).
IInv == /\ TypeOK /\ HelperIsProtected /\ StaleOfferIsOrphan
        /\ LockedMeans /\ LaunchesCounted /\ HelperKnown /\ MarkersMean /\ OfferMeans
-----------------------------------------------------------------------------

\* "Skip execution of the build, if already one is running" (on_execute).
OneBuild == Cardinality({i \in Builds : jobs[i].st = "running"}) <= 1

\* The window is locked for good only by a command that could not be started:
\* terminal-helper not installed, or the directory removed by a prepare while
\* the question was open.  Then nothing but a new program clears m_running.
RunningSettles == running ~> (~running \/ lost)

\* The poll for a late marker is bounded.
PollingEnds == timer ~> ~timer

HasMarker(i) == i \in {marker[f] : f \in Flavors}

\* A build that touched its marker while its helper was waited for is offered:
\* the marker does not stay behind, unless the program is closed before.
MarkerConsumed ==
    \A i \in Jobs :
        (current = i /\ HasMarker(i)) ~> (~HasMarker(i) \/ i \in orphans)
=============================================================================
