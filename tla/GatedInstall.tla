------------------------------ MODULE GatedInstall ------------------------------
(***************************************************************************)
(* What may be installed, and how the program says so: the nvidia driver   *)
(* gate (driver_gate.cpp and the run_driver_gate of both windows) in front *)
(* of its four triggers, the installs behind it (install_kernel.cpp), and  *)
(* the context menu's "Add repo", which runs RepoAdd's script.             *)
(*                                                                         *)
(* Three actors: the UI thread in the main window, the same thread in a    *)
(* handler of the configuration window, which a finished build can start   *)
(* inside any dialog of the main window, and the transaction worker.  The  *)
(* rest of the system changes packages and databases too.                  *)
(***************************************************************************)
EXTENDS RepoAdd

CONSTANTS
    Repo,         \* kernels of the repository, each with its headers package
    Custom,       \* kernels that exist only as built packages
    SameRelease,  \* kernels whose release string is their package version
    Dirs,         \* directories with built packages
    Gpus,         \* the generations of the GPUs lspci lists, in its order
    MaxFlows,     \* bound on installs and repositories the user asks for
    MaxBuilds,    \* bound on builds that finish
    MaxExternal,  \* bound on package changes from outside
    MaxEvents     \* bound on all of these together

Kernels == Repo \cup Custom
Generations == {"TURING_PLUS", "PRE_TURING", "UNKNOWN"}

(***************************************************************************)
(* A directory: the kernels of its packages in the order of the file names *)
(* (none when no .PKGINFO parses to one), whose headers it holds, and the  *)
(* version they were built at.                                             *)
(***************************************************************************)
NoDir == [kernels |-> <<>>, headers |-> {}, version |-> 0]

ASSUME InstallAssumption ==
    /\ IsFiniteSet(Kernels) /\ "" \notin Kernels
    /\ Repo \cap Custom = {} /\ SameRelease \subseteq Kernels
    /\ \A d \in Dirs : /\ d.kernels \in Seq(Kernels) /\ d.headers \subseteq Kernels
                       /\ d.version \in 1..MaxVersion
    /\ Gpus \in Seq(Generations)
    /\ {MaxFlows, MaxBuilds, MaxExternal, MaxEvents} \subseteq Nat

VARIABLES
    inst,      \* the installed version of each kernel, 0 for none
    hdr,       \* the installed version of its headers
    drivers,   \* the nvidia driver packages installed
    rows,      \* the repository's release the kernel list was built from
    banner,    \* m_driver_banner of each window
    flow,      \* the install each window is in
    worker,    \* the transaction worker's
    late,      \* a command that still runs though terminal-helper has answered
    adding,    \* the run of repo_add.sh the main window waits for
    count      \* how many flows, builds and outside changes there were

pkgVars == <<inst, hdr, drivers>>
uiVars == <<rows, banner, flow, worker, adding>>
vars == <<repoVars, pkgVars, uiVars, late, count>>

Windows == {"main", "conf"}
Precompiled == "nvidia"
DkmsDrivers == {"nvidia-dkms", "nvidia-open-dkms"}

Target(names, kver, dir) == [names |-> names, kver |-> kver, dir |-> dir]
NoKver == <<"", 0>>
NoTarget == Target(<<>>, NoKver, NoDir)
NoFlow == [pc |-> "idle", kind |-> "none", target |-> NoTarget, act |-> "PROCEED",
           steps |-> <<>>, rcs |-> <<>>, clean |-> TRUE, anyway |-> FALSE]

-----------------------------------------------------------------------------
\* The probes of the gate.  derive_headers_pkg of names joined with spaces is
\* no package name: every probe answers no to it.
DkmsInstalled == drivers \cap DkmsDrivers # {}
OneName(t) == Len(t.names) = 1
HeadersInstalled(t) == OneName(t) /\ hdr[t.names[1]] > 0
HeadersInDir(t) == OneName(t) /\ t.names[1] \in t.dir.headers
KernelInSyncDb(k) == k \in Repo /\ InSyncDb
HeadersAvailable(t) == OneName(t) /\ KernelInSyncDb(t.names[1])

\* /usr/lib/modules/<kver>/build: kver is the version of the package, which
\* names the directory only when the release string is the same.
BuildDirExists(kver) ==
    kver[1] \in SameRelease /\ hdr[kver[1]] = kver[2]

FirstGpuGeneration ==
    LET KnownAt(i) == Gpus[i] # "UNKNOWN"
        hits == {i \in DOMAIN Gpus : KnownAt(i)}
    IN IF hits = {} THEN "UNKNOWN"
       ELSE Gpus[CHOOSE i \in hits : \A j \in hits : i <= j]

\* Variant, for the mutants: the precompiled package of that generation.
SelectPrecompiled ==
    IF FirstGpuGeneration = "TURING_PLUS" THEN "nvidia-open" ELSE "nvidia"

SelectDkms ==
    IF FirstGpuGeneration = "TURING_PLUS" THEN "nvidia-open-dkms" ELSE "nvidia-dkms"

\* Variant, for the mutants: the headers in a repository count as installed.
HeadersSomewhere(t) == HeadersInstalled(t) \/ HeadersInDir(t) \/ HeadersAvailable(t)

HeadersOk(t) == BuildDirExists(t.kver) \/ HeadersInstalled(t) \/ HeadersInDir(t)

\* evaluate_gate, on hardware with an nvidia GPU.
EvaluateGate(t) ==
    IF Precompiled \in drivers THEN "WARN_MIGRATE"
    ELSE IF ~ DkmsInstalled \/ HeadersOk(t) THEN "PROCEED"
    ELSE IF HeadersAvailable(t) THEN "ENSURE_HEADERS"
    ELSE "WARN_ONLY"

-----------------------------------------------------------------------------
(***************************************************************************)
(* A command in a terminal: pacman installs all its targets or nothing.    *)
(* The answer is its exit code (0), a failure with nothing done, one that  *)
(* came after the change (the terminal went away), or one that came while  *)
(* the command still runs, which may then end later.                       *)
(***************************************************************************)
Command(kernels, headers, version, driver) ==
    [kernels |-> kernels, headers |-> headers, version |-> version, driver |-> driver]
NoCommand == Command({}, {}, 0, "")

\* pacman -S takes the database's version at the moment it runs.
VersionOf(c) == IF c.version = 0 THEN synced ELSE c.version
Findable(c) == \/ c.version > 0
               \/ /\ c.kernels \cup c.headers \subseteq Repo
                  /\ c.kernels \cup c.headers # {} => InSyncDb

\* The drivers exclude each other: installing one removes the rest.
Commit(c) ==
    /\ inst' = [k \in Kernels |-> IF k \in c.kernels THEN VersionOf(c) ELSE inst[k]]
    /\ hdr' = [k \in Kernels |-> IF k \in c.headers THEN VersionOf(c) ELSE hdr[k]]
    /\ drivers' = IF c.driver = "" THEN drivers ELSE {c.driver}

\* The exit codes that stand for them: 0, 1 and "target not found".
Run(c, rc) ==
    \/ rc = 0 /\ Findable(c) /\ Commit(c) /\ UNCHANGED late
    \/ rc = 1 /\ UNCHANGED <<pkgVars, late>>
    \/ rc = 1 /\ Findable(c) /\ Commit(c) /\ UNCHANGED late
    \/ rc = 1 /\ Findable(c) /\ late = NoCommand /\ late' = c /\ UNCHANGED pkgVars
    \/ rc = 2 /\ ~ Findable(c) /\ UNCHANGED <<pkgVars, late>>

LateCommand ==
    /\ late # NoCommand
    /\ late' = NoCommand
    /\ IF Findable(late) THEN Commit(late) ELSE UNCHANGED pkgVars
    /\ UNCHANGED <<repoVars, uiVars, count>>

-----------------------------------------------------------------------------
\* A finished build's handler runs on the UI thread, in the main loop or in
\* the loop of a dialog; what runs below it waits.  A terminal blocks both.
ConfBusy == flow["conf"].pc \notin {"idle", "async"}
Turn(w) == w = "main" => ~ ConfBusy
At(w, pc) == Turn(w) /\ adding = {} /\ flow[w].pc = pc

Goto(w, pc) == flow' = [flow EXCEPT ![w].pc = pc]
Drop(w) == flow' = [flow EXCEPT ![w] = NoFlow]

\* What follows a gate that did not refuse.
Passed(f) ==
    IF f.kind = "execute" THEN "start" ELSE IF f.kind = "built" THEN "ask" ELSE "plan"

EnterGate(w, kind, t) ==
    LET act == EvaluateGate(t)
        f == [NoFlow EXCEPT !.kind = kind, !.target = t, !.act = act]
    IN flow' = [flow EXCEPT ![w] =
                   [f EXCEPT !.pc = IF act = "PROCEED" THEN Passed(f) ELSE "dialog"]]

Proceed(w) == Goto(w, Passed(flow[w]))

Happens(event, bound) ==
    /\ count[event] < bound
    /\ count.flows + count.builds + count.external < MaxEvents
    /\ count' = [count EXCEPT ![event] = @ + 1]

NewFlow ==
    /\ At("main", "idle")
    /\ Happens("flows", MaxFlows)

\* Trigger A: the checked rows that can be installed, their names joined; the
\* version is the first row's.
Installable == {k \in Repo : rows > 0 /\ inst[k] < rows}
Orders(S) == {s \in [1..Cardinality(S) -> S] : \A i, j \in DOMAIN s : s[i] = s[j] => i = j}

Execute ==
    /\ NewFlow
    /\ worker.pc = "idle"
    /\ \E S \in (SUBSET Installable) \ {{}} : \E names \in Orders(S) :
          EnterGate("main", "execute", Target(names, <<names[1], rows>>, NoDir))
    /\ UNCHANGED <<repoVars, pkgVars, rows, banner, worker, adding, late>>

\* Trigger B, offered when the curated package is in an enabled database.
InstallPrecompiled ==
    /\ NewFlow
    /\ \E k \in Repo : /\ IsRepoEnabled(conf) /\ synced > 0
                       /\ EnterGate("main", "precompiled", Target(<<k>>, NoKver, NoDir))
    /\ UNCHANGED <<repoVars, pkgVars, rows, banner, worker, adding, late>>

\* Triggers C and D: the first package that is a kernel names the target.
DirTarget(d) ==
    IF d.kernels = <<>> THEN Target(<<>>, NoKver, d)
    ELSE Target(<<d.kernels[1]>>, <<d.kernels[1], d.version>>, d)

InstallFromDirectory ==
    /\ NewFlow
    /\ \E d \in Dirs : EnterGate("main", "directory", DirTarget(d))
    /\ UNCHANGED <<repoVars, pkgVars, rows, banner, worker, adding, late>>

BuildDone ==
    /\ flow["conf"].pc = "idle" /\ adding = {}
    /\ flow["main"].pc \in {"idle", "dialog", "failed", "report"}
    /\ Happens("builds", MaxBuilds)
    /\ \E d \in Dirs : EnterGate("conf", "built", DirTarget(d))
    /\ UNCHANGED <<repoVars, pkgVars, rows, banner, worker, adding, late>>

-----------------------------------------------------------------------------
\* The dialogs of run_driver_gate.
\* ENSURE_HEADERS in the main window only informs.
Inform ==
    /\ At("main", "dialog") /\ flow["main"].act = "ENSURE_HEADERS"
    /\ Proceed("main")
    /\ UNCHANGED <<repoVars, pkgVars, rows, banner, worker, adding, late, count>>

\* "Proceed without", "Proceed".
Decline(w) ==
    /\ At(w, "dialog") /\ flow[w].act \in {"WARN_ONLY", "WARN_MIGRATE"}
    /\ banner' = [banner EXCEPT ![w] = TRUE]
    /\ Proceed(w)
    /\ UNCHANGED <<repoVars, pkgVars, rows, worker, adding, late, count>>

Abort(w) ==
    /\ \/ At(w, "dialog") /\ flow[w].act \in {"WARN_ONLY", "WARN_MIGRATE"}
       \/ At(w, "failed")
    /\ Drop(w)
    /\ UNCHANGED <<repoVars, pkgVars, rows, banner, worker, adding, late, count>>

\* migration_command; one name gives the verdict's own command.
Names(t) == {t.names[i] : i \in DOMAIN t.names}
Migration(t) == Command({}, Names(t), 0, SelectDkms)

\* What the window checks after the command.
Verified(t, rc) ==
    /\ rc = 0
    /\ drivers' \cap DkmsDrivers # {}
    /\ \A k \in Names(t) : hdr'[k] > 0
    /\ \/ t.kver = NoKver
       \/ t.kver[1] \in SameRelease /\ hdr'[t.kver[1]] = t.kver[2]
       \/ Len(t.names) > 0 /\ KernelInSyncDb(t.names[1])

Migrate(w) ==
    /\ At(w, "dialog") /\ flow[w].act = "WARN_MIGRATE"
    /\ \E rc \in 0..2 :
          LET t == flow[w].target
          IN /\ Run(Migration(t), rc)
             /\ IF Verified(t, rc)
                THEN banner' = [banner EXCEPT ![w] = FALSE] /\ Proceed(w)
                ELSE UNCHANGED banner /\ Goto(w, "failed")
    /\ UNCHANGED <<repoVars, rows, worker, adding, count>>

\* "Continue with the install anyway?"
ContinueAnyway(w) ==
    /\ At(w, "failed")
    /\ IF flow[w].act = "WARN_MIGRATE"
       THEN banner' = [banner EXCEPT ![w] = TRUE] /\ Proceed(w)
       ELSE /\ flow' = [flow EXCEPT ![w].pc = Passed(flow[w]), ![w].anyway = TRUE]
            /\ UNCHANGED banner
    /\ UNCHANGED <<repoVars, pkgVars, rows, worker, adding, late, count>>

\* ENSURE_HEADERS in the configuration window looks again, and warns when the
\* headers have left the databases.
Recheck ==
    /\ At("conf", "dialog") /\ flow["conf"].act = "ENSURE_HEADERS"
    /\ IF HeadersAvailable(flow["conf"].target) THEN Goto("conf", "headers")
       ELSE IF EvaluateGate(flow["conf"].target) = "WARN_ONLY"
       THEN flow' = [flow EXCEPT !["conf"].act = "WARN_ONLY"]
       ELSE Proceed("conf")
    /\ UNCHANGED <<repoVars, pkgVars, rows, banner, worker, adding, late, count>>

\* ... and else says so and, when that dialog is closed, installs them before
\* the build's packages.
EnsureHeaders ==
    /\ At("conf", "headers")
    /\ \E rc \in 0..2 :
          /\ Run(Command({}, Names(flow["conf"].target), 0, ""), rc)
          /\ IF rc = 0 THEN Proceed("conf") ELSE Goto("conf", "failed")
    /\ UNCHANGED <<repoVars, rows, banner, worker, adding, count>>

-----------------------------------------------------------------------------
\* Variant, for the mutants: no look at the databases.
PairAlways(t) == IF OneName(t) /\ DkmsInstalled /\ ~ HeadersInstalled(t)
                 THEN Names(t) ELSE {}

\* pairing_headers_default, asked again when the install is planned.
Pairing(t) ==
    IF OneName(t) /\ DkmsInstalled /\ ~ HeadersInstalled(t) /\ HeadersAvailable(t)
    THEN Names(t) ELSE {}

LocalPackages(d) ==
    Command({d.kernels[i] : i \in DOMAIN d.kernels}, d.headers, d.version, "")

\* install_kernel: one command, the headers in it.  install_from_directory: a
\* step of its own for headers the directory lacks, then pacman -U.
Plan(f) ==
    LET t == f.target
        paired == Pairing(t)
    IN IF f.kind = "precompiled" THEN <<Command(Names(t), paired, 0, "")>>
       ELSE IF paired \subseteq t.dir.headers THEN <<LocalPackages(t.dir)>>
       ELSE <<Command({}, paired, 0, ""), LocalPackages(t.dir)>>

PlanInstall ==
    /\ At("main", "plan")
    /\ flow' = [flow EXCEPT !["main"].pc = "run", !["main"].steps = Plan(flow["main"])]
    /\ UNCHANGED <<repoVars, pkgVars, rows, banner, worker, adding, late, count>>

\* Variant, for the mutants: the loop goes on.
RunsThemAll(f, rc) ==
    LET g == [f EXCEPT !.rcs = Append(@, rc)]
    IN IF Len(g.rcs) = Len(g.steps) THEN [g EXCEPT !.pc = "report"] ELSE g

\* The loop stops at the first command that fails.
AfterStep(f, rc) ==
    LET g == [f EXCEPT !.rcs = Append(@, rc)]
    IN IF rc # 0 \/ Len(g.rcs) = Len(g.steps) THEN [g EXCEPT !.pc = "report"] ELSE g

RunStep ==
    /\ At("main", "run")
    /\ \E rc \in 0..2 :
          /\ Run(flow["main"].steps[Len(flow["main"].rcs) + 1], rc)
          /\ flow' = [flow EXCEPT !["main"] = AfterStep(@, rc)]
    /\ UNCHANGED <<repoVars, rows, banner, worker, adding, count>>

\* The verdict is the last command's.
Verdict(f) == IF f.rcs[Len(f.rcs)] = 0 THEN "SUCCESS" ELSE "FAILED"

CloseReport ==
    /\ At("main", "report")
    /\ rows' = IF flow["main"].kind = "directory" /\ Verdict(flow["main"]) = "SUCCESS"
               THEN IF IsRepoEnabled(conf) THEN synced ELSE 0
               ELSE rows
    /\ Drop("main")
    /\ UNCHANGED <<repoVars, pkgVars, banner, worker, adding, late, count>>

\* The configuration window asks, and hands its command to terminal-helper.
AnswerInstall(yes) ==
    /\ At("conf", "ask")
    /\ IF yes THEN flow' = [flow EXCEPT !["conf"].pc = "async",
                                !["conf"].steps = <<LocalPackages(flow["conf"].target.dir)>>]
              ELSE Drop("conf")
    /\ UNCHANGED <<repoVars, pkgVars, rows, banner, worker, adding, late, count>>

InstallBuilt ==
    /\ flow["conf"].pc = "async" /\ flow["conf"].rcs = <<>>
    /\ \E rc \in 0..2 :
          /\ Run(flow["conf"].steps[1], rc)
          /\ flow' = [flow EXCEPT !["conf"].rcs = <<rc>>]
    /\ UNCHANGED <<repoVars, rows, banner, worker, adding, count>>

\* finished_proc: nobody looks at the code.
BuiltInstalled ==
    /\ flow["conf"].pc = "async" /\ flow["conf"].rcs # <<>>
    /\ Drop("conf")
    /\ UNCHANGED <<repoVars, pkgVars, rows, banner, worker, adding, late, count>>

-----------------------------------------------------------------------------
\* The gate of Execute let it pass: the worker's command holds each kernel and
\* its headers.
StartWorker ==
    /\ At("main", "start")
    /\ worker' = [flow["main"] EXCEPT !.pc = "run",
                      !.steps = <<Command(Names(flow["main"].target),
                                          Names(flow["main"].target), 0, "")>>]
    /\ Drop("main")
    /\ UNCHANGED <<repoVars, pkgVars, rows, banner, adding, late, count>>

RunWorker ==
    /\ worker.pc = "run"
    /\ \E rc \in 0..2 :
          /\ Run(worker.steps[1], rc)
          /\ worker' = AfterStep(worker, rc)
    /\ UNCHANGED <<repoVars, rows, banner, flow, adding, count>>

\* m_kernels is read again when a package of the command is there.
WorkerDone ==
    /\ worker.pc = "report"
    /\ worker' = NoFlow
    /\ rows' = IF \E k \in Names(worker.target) : inst[k] > 0 \/ hdr[k] > 0
               THEN IF IsRepoEnabled(conf) THEN synced ELSE 0
               ELSE rows
    /\ UNCHANGED <<repoVars, pkgVars, banner, flow, adding, late, count>>

-----------------------------------------------------------------------------
\* "Add repo": offered while the program reads no such section.
AddRepo ==
    /\ NewFlow
    /\ ~ IsRepoEnabled(conf)
    /\ \E i \in Scripts : Begin(i) /\ adding' = {i}
    /\ UNCHANGED <<pkgVars, rows, banner, flow, worker, late>>

\* The answer, which may come while the script still runs; what counts is the
\* section, not the code.
RepoAnswered ==
    /\ adding # {}
    /\ adding' = {}
    /\ rows' = IF IsRepoEnabled(conf) THEN synced ELSE rows
    /\ UNCHANGED <<repoVars, pkgVars, banner, flow, worker, late, count>>

\* Other programs: whatever they change, the flows under way are not clean.
Unclean(f) == IF f.pc = "idle" THEN f ELSE [f EXCEPT !.clean = FALSE]

External ==
    /\ Happens("external", MaxExternal)
    /\ flow' = [w \in Windows |-> Unclean(flow[w])]
    /\ worker' = Unclean(worker)
    /\ \/ CommentOut /\ UNCHANGED pkgVars
       \/ RefreshDatabases /\ UNCHANGED pkgVars
       \/ \E k \in Kernels : /\ hdr[k] > 0
                             /\ hdr' = [hdr EXCEPT ![k] = 0]
                             /\ UNCHANGED <<repoVars, inst, drivers>>
       \/ /\ drivers' = {Precompiled}
          /\ UNCHANGED <<repoVars, inst, hdr>>
    /\ UNCHANGED <<rows, banner, adding, late>>

Init ==
    /\ RepoInit
    /\ drivers \in {{}, {Precompiled}, {"nvidia-dkms"}}
    /\ inst = [k \in Kernels |-> 0]
    /\ hdr \in [Kernels -> {0}]
    /\ rows = IF IsRepoEnabled(conf) THEN synced ELSE 0
    /\ banner = [w \in Windows |-> FALSE]
    /\ flow = [w \in Windows |-> NoFlow]
    /\ worker = NoFlow
    /\ late = NoCommand
    /\ adding = {}
    /\ count = [flows |-> 0, builds |-> 0, external |-> 0]

Scripting == ScriptStep /\ UNCHANGED <<pkgVars, uiVars, late, count>>
Publishing == Release /\ UNCHANGED <<pkgVars, uiVars, late, count>>

Next ==
    \/ Scripting \/ Publishing \/ External \/ LateCommand
    \/ AddRepo \/ RepoAnswered
    \/ Execute \/ InstallPrecompiled \/ InstallFromDirectory \/ BuildDone
    \/ Inform \/ Recheck \/ EnsureHeaders
    \/ \E w \in Windows : Decline(w) \/ Abort(w) \/ Migrate(w) \/ ContinueAnyway(w)
    \/ PlanInstall \/ RunStep \/ CloseReport
    \/ \E yes \in BOOLEAN : AnswerInstall(yes)
    \/ InstallBuilt \/ BuiltInstalled
    \/ StartWorker \/ RunWorker \/ WorkerDone

Spec == Init /\ [][Next]_vars

-----------------------------------------------------------------------------
Commands == [kernels: SUBSET Kernels, headers: SUBSET Kernels,
             version: 0..MaxVersion, driver: DkmsDrivers \cup {""}]
Targets == [names: Seq(Kernels), kver: {NoKver} \cup (Kernels \X (1..MaxVersion)),
            dir: Dirs \cup {NoDir}]
Flows == [pc: {"idle", "dialog", "headers", "failed", "ask", "plan", "start", "run", "async",
               "report"},
          kind: {"none", "execute", "precompiled", "directory", "built"},
          target: Targets,
          act: {"PROCEED", "WARN_MIGRATE", "ENSURE_HEADERS", "WARN_ONLY"},
          steps: Seq(Commands), rcs: Seq(0..2), clean: BOOLEAN, anyway: BOOLEAN]

\* Every variable keeps its type, and no database or row is ahead of upstream.
TypeOK ==
    /\ conf \in Seq(Lines) /\ backups \subseteq Seq(Lines)
    /\ key \in {"absent", "present", "trusted", "bad"}
    /\ {known, longIds, overlap} \subseteq BOOLEAN
    /\ upstream \in 1..MaxVersion /\ {synced, rows} \subseteq 0..upstream
    /\ script \in [Scripts -> [pc: {"idle", "grep", "backup", "append", "trust", "sync",
                                    "repair", "retry", "ended"},
                                hindered: BOOLEAN,
                                said: {"none", "key", "trust", "other"}, rc: {0, 1}]]
    /\ {inst, hdr} \subseteq [Kernels -> 0..MaxVersion]
    /\ drivers \subseteq {Precompiled} \cup DkmsDrivers
    /\ banner \in [Windows -> BOOLEAN]
    /\ flow \in [Windows -> Flows] /\ worker \in Flows
    /\ late \in Commands /\ adding \subseteq Scripts
    /\ count \in [flows: 0..MaxFlows, builds: 0..MaxBuilds, external: 0..MaxExternal]

\* The flows whose commands have all ended and whose gate a window showed.
Finished(w) ==
    {f \in {flow[w]} \cup (IF w = "main" THEN {worker} ELSE {}) :
        f.pc = "report" \/ (f.pc = "async" /\ f.rcs # <<>>)}

AllOk(f) == Len(f.rcs) = Len(f.steps) /\ \A i \in DOMAIN f.rcs : f.rcs[i] = 0

\* A kernel that was installed while nothing else touched the packages gets its
\* driver: no precompiled one is left, and a DKMS one has headers of each kernel
\* the gate was asked about, of whatever version (PrecompiledIsPaired is about
\* that); or the window's banner says it will not, or the user went on
\* after the headers' own install had failed (km-window.cpp:1436, the gate
\* evaluated before the install and the pairing evaluated in it).
UnwarnedIsPaired ==
    \A w \in Windows : \A f \in Finished(w) :
        (f.clean /\ AllOk(f) /\ ~ banner[w] /\ ~ f.anyway)
        => /\ Precompiled \notin drivers
           /\ DkmsInstalled => \A k \in Names(f.target) : hdr[k] > 0

\* The verdict shown is SUCCESS only when every command of the plan was run and
\* succeeded, and then the packages are there, whatever the other actors,
\* none of which removes a kernel, did meanwhile (install_kernel.cpp:318, 575).
SuccessMeansAll ==
    (flow["main"].pc = "report" /\ Verdict(flow["main"]) = "SUCCESS")
    => LET f == flow["main"]
       IN AllOk(f) /\ \A i \in DOMAIN f.steps : \A k \in f.steps[i].kernels : inst[k] > 0

\* The section that the program takes for the repository is one pacman reads: it
\* is not "[ Repo ]", nor followed by a note.
SameReading == \A i \in DOMAIN conf : Section(conf[i]) = "repo" => IsActive(conf[i])

\* Pairing the headers never makes pacman refuse an install it would have done:
\* no command of an install names a package pacman cannot find, unless the
\* databases changed under it, or under the list Execute works from
\* (install_kernel.cpp:60, "else pairing would make pacman fail the whole command").
InstallFindsItsTargets ==
    SameReading =>
    \A w \in Windows : \A f \in Finished(w) :
        f.clean /\ f.kind # "execute" => \A i \in DOMAIN f.rcs : f.rcs[i] # 2

\* USER_GUIDE.md:54 of "Install pre-compiled": "it installs the package plus its
\* -headers companion in one transaction".  Where a DKMS driver needs them, the
\* headers that are there after it would be the kernel's own.
PrecompiledIsPaired ==
    LET f == flow["main"]
    IN (f.pc = "report" /\ f.kind = "precompiled" /\ f.clean /\ AllOk(f)
        /\ ~ banner["main"] /\ DkmsInstalled)
       => \A k \in Names(f.target) : hdr[k] = inst[k]
=============================================================================
