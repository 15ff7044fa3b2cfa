# Kernel Manager in TLA+

Kernel Manager is a Qt 6 program that lists the kernels pacman knows, installs and removes them through a
terminal, and builds custom ones with makepkg.  Most of it is sequential code over texts and package names.
What is hard about it is what runs beside something else: a worker thread and the UI thread over one
libalpm handle, a terminal program that answers through files, and builds that take longer than anything
that waits for them, a working directory that belongs to a whole process, and installs gated on packages that change
meanwhile.  These modules specify those parts, check them with TLC and prove most of what is checked with TLAPS.

Paths below are relative to `src/`: `km-window.cpp` is `src/src/km-window.cpp` in `PROJECT.json`.

## The system

| Component | State | Operations | Interacts with |
|---|---|---|---|
| `MainWindow` (`km-window.cpp`) | tree rows, `m_change_list`, Execute button, `m_running`, `m_thread_running`, `m_handle`, `m_kernels` | check rows, Execute, Refresh, Add repo, install from directory or pre-compiled, Configure, Close | the worker through two atomics, `m_mutex`, `m_cv`; terminals; `ConfWindow` |
| the worker (lambda at `km-window.cpp:639`) | its place in the loop, the copied change list, the install and removal lists of `kernel.cpp`, a temporary handle | wait, copy, enlist, `pacman -S`, `pacman -Rsn`, re-parse, swap, clear | the same; pacman's `db.lck` |
| kernel list (`kernel.cpp`, `alpm_utils.cpp`) | rows read from a handle, update flags | `get_kernels`, `version`, `install`, `remove`, `commit_transaction` | libalpm, `runCmdTerminal` |
| terminal launch (`terminal-helper`, `rootshell.sh`) | run directory with `started`, `rc`, `done`; two deadlines | launch, wait, read the code, clean up | the terminal emulator, Polkit, `QProcess` |
| `ConfWindow` (`conf-window.cpp`) | `m_running`, `m_cmd`, `m_build_conf_path`, poll timer, flavors | Execute, `finished_proc`, poll, install question | `terminal-helper`, `.done-status`, the build repository |
| build repository (`utils.cpp`) | the checkout, the process's working directory | `prepare_git_repo`, from the UI thread and from a pool thread | git |
| `build_helper.sh` | a log that grows over two attempts | makepkg, import keys, retry | gpg |
| `repo_add.sh` | a section of `pacman.conf`, a backup, trusted keys | append once, `pacman -Sy`, two repairs | pacman-key |
| installs (`install_kernel.cpp`) | a plan of steps, a verdict, a log | run the steps to the first failure | `runCmdTerminal` |
| driver gate (`driver_gate.cpp`) | none | a decision table over installed packages | both windows, before an install |
| AUR kernels (`aur_kernel.cpp`), build options (`config-options.cpp`) | none; option files | one command; save and load | not in the default build; `ConfWindow` |
| probes and tables (`bootloader.cpp`, `distro.cpp`, `known_kernels.cpp`, `kernel_info.cpp`) | none | look-ups | |
| start-up (`main.cpp`) | a shared-memory lock | refuse a second instance | |

Hard behaviour, and what makes each component correct:

* **Transactions.**  Flags are atomics, the handle is under a mutex that `closeEvent` and the tree rebuild
  do not take, `m_change_list` is under nothing.  The kernel list must never point into a released handle, a handle
  must be released once, lists must not leak from one transaction into the next, refreshing and closing
  must keep apart from a transaction, and an accepted Execute must be served.
* **Terminal launches.**  Polkit can be answered after the deadline, windows can be closed, some terminals return
  at once.  The helper must always end, must never report a code the command did not end with as the command's, and
  no script may be opened after it has answered.
* **Builds.**  One `QProcess` and one timer for every launch, a marker file as completion signal,
  a checkout that other code cleans.  `m_running` must protect the process, the install question must be
  about the build that just ended, and the window must come back to life after every failure.
* **Prepares.**  A prepare that fails half-way must not leave git's forced checkout and clean running in the user's own directory, and
  the PKGBUILD that is built must be upstream's with exactly the edits and options the dialog showed, however often Execute was clicked.
* **Scripts and installs.**  Partial failure: what a retry finds in `pacman.conf` and in the keyring, where a plan stops, and which
  verdict is reported.  The driver gate reads packages that the user, another window or another pacman may change before the
  install: a kernel it let pass without a word must get its driver.

`PROJECT.json` lists every hazard at its line with the properties that would catch it.

## Modules

| Module | What it is |
|---|---|
| `KernelTransaction` | main window, worker, handle, lists, pacman: the core |
| `TransactionService` | what the worker promises, in four actions |
| `MCKernelTransaction` | two kernels and the start states for TLC |
| `KernelTransactionProofs` | the TLAPS proofs about `KernelTransaction` |
| `TerminalHelper` | one launch: helper script and wrapper script |
| `TerminalHelperProofs` | the TLAPS proofs about `TerminalHelper` |
| `LaunchContract` | what a caller of the helper may rely on |
| `BuildCommand` | the command of a build inside `TerminalHelper`'s launch: `build_helper.sh` and its two attempts |
| `BuildJob` | what `BuildSession` takes for granted of such a command |
| `BuildCommandProofs` | the TLAPS proofs about `BuildCommand` |
| `BuildSession` | the build window over several launches, with a restart of the program |
| `BuildSessionProofs` | the TLAPS proofs about `BuildSession` |
| `Pkgbuild` | the edits of a PKGBUILD, as operators on sequences of lines |
| `PkgbuildProofs` | the TLAPS proofs about these operators |
| `BuildPrepare` | `prepare_git_repo` on two threads, Configure and Execute up to the launch |
| `MCBuildPrepare` | PKGBUILDs, sources and pages for TLC |
| `BuildPrepareProofs` | the TLAPS proofs about `BuildPrepare` |
| `RepoAdd` | `repo_add.sh`, `pacman.conf`, the keyring and the database |
| `RepoAddProofs` | the TLAPS proofs about `RepoAdd` |
| `GatedInstall` | the driver gate, its four triggers and the installs behind it, composed with `RepoAdd` |
| `MCGatedInstall` | configuration files, directories and GPUs for TLC |
| `GatedInstallProofs` | the TLAPS proofs about `GatedInstall` |

How they compose (`A <-- B`: B extends A; `==>`: refinement, model-checked and proved):

```
KernelTransaction ==> TransactionService
TerminalHelper    ==> LaunchContract
TerminalHelper    <-- BuildCommand ==> BuildJob        (BuildSession reckons with jobs)
Pkgbuild          <-- BuildPrepare                     (what precedes a launch of BuildSession)
RepoAdd           <-- GatedInstall
```

### KernelTransaction

The UI thread and the worker are two program counters, `upc` and `wpc`; an action is the code between two points
where another thread can see or change something.  Each click is an action (`Toggle`, `ExecuteClick`, ...), and
a handler that blocks or takes the lock goes on in further actions (`ExecuteStore`, `ExecuteNotify`; `Reparse`,
`Fetch`, `Rebuild`, `Purge`).  The worker's loop is `Loop` to `Unlock`; evaluating the predicate of
`m_cv.wait` and going to sleep are two actions, which is what the standard allows without the lock on the notifier's side.

A kernel stands for the pair (kernel, headers).  A handle is a number; `live` are the handles libalpm has not released.
`view` is `m_kernels`: a handle and the snapshot of the databases it was read from.  `tree` records what rows are shown,
checked and marked immutable, and from which handle they were built.  `changes` counts copies of each name, since
`m_change_list` is a list with `removeOne`.  Rows have raw names `<repo>/<name>` or `local/<name>`, so a kernel whose
row changes kind is no longer found under its old name.  `db.lck` belongs to at most one of our pacman processes, and
other programs' pacman may change the databases whenever it is free.

A pacman run may fail, and then changes nothing; a removal of something not installed or an installation of
something not offered always fails.  The package lists, the zfs and nvidia companions and the texts are abstracted away.

Histories, read by properties only: `asked` (rows checked when the worker copied the list), `missed` (the last notify
fell between predicate and sleep), `tree.built`, `acts`.

### TerminalHelper and LaunchContract

`hpc` is the helper, `wpc` the wrapper that the terminal runs, `runDir` and `rcFile` the files between
them.  Time is not counted: a deadline may pass whenever its condition holds.  A terminal is blocking, a singleton (konsole
and ptyxis hand the request to a running instance), retrying (alacritty's `||`), or not there.  Every write to
a run directory that has been removed does nothing.

The helper's last look at `started` or `done` (`StartExpires`, `DoneExpires`), the removal of the files and of the directory (`Cleanup`,
`RemoveRunDir`), and the removal of the script with the exit (`Exit`) are steps of their own, and the wrapper goes on between them.  So 126 may be given although the command
has begun meanwhile, and when the wrapper writes between the two halves of `rm -rf`, `rm` fails, `set -e` ends the helper with 1
and the script stays behind (`RemovalFails`).

The contract has the command's life and the answer.  `real` comes only after the command ended.  `refusing`, the decision, is taken while
the command has not begun; by the time `refused` is given it may have begun, or ended.  `unknown` (124, or 1 after a removal that failed) comes at
any time.  Nothing is launched anew once the helper has decided: the command already asked for is the last that may begin.
`ContractSpec` is the refinement.

### BuildCommand and BuildJob

The command of a launch becomes the line `run_cmd_async` composes: `cd`, `build_helper.sh`, `&& touch .done-status`, `read`.
The script's loop is `Makepkg`, `ImportKeys`, `HintKey` and `Propagate`.  `log` is `LOG_FILE`, which both attempts append to, as a set of pairs of
a form and a key: makepkg reports a missing key in one of four forms, and the script looks for one form after the other.
A key may not be fetched, makepkg may fail for other reasons, the flavor's directory may be gone, Ctrl-C and closed
windows interrupt.  A launch of any other command has the kind `any`.  `BuildJob` is the abstraction `BuildSession` works with and `JobSpec` the
refinement.  Alacritty's line can start the command a second time, with a log of its own; contract and job count both starts as one.

### BuildSession

Jobs are numbered; a marker or a package file is the number of the job that made it.  The helper of job `current` answers
when the job is over, or after a time-out while it runs on: such a job is in `orphans`, as are those a restart leaves
behind.  `dirs` is the flavors whose directory exists.  `PrepareRepo` is what `prepare_git_repo` can leave: git's three steps stop at the first failure, so
untracked files stay or go; a changed source removes the whole repository, and the clone that follows brings one of the `Checkouts`, or nothing.
On the pool thread that removal is a step before the clone (`PoolRemoves`), so a directory can be gone while the install question is open.
`RunCmdAsync` starts a process in the remembered directory: without the helper or without the directory `QProcess` cannot start, never emits
`finished`, and `m_running` stays set (`lost`).  `RunningSettles` says that this is the only way, and `LockedMeans`, a part of `IInv`, that the window
is locked with nothing to wait for exactly then.  `ConfWindow` is application-modal, so Configure is reachable only while it is hidden; its background
prepare cannot be cancelled and shows the window when it ends.

### BuildPrepare and Pkgbuild

`cwd` is the working directory of the process; `git` says what is in the build repository, in a directory of its name below itself
(`nested`) or below the start directory (`stray`), and in the start and parent directories, either of which may be in a work tree of the user's
(`HomeIsGit`, `ParentIsGit`).  A git command acts on the work tree it finds by walking up (`WorkTree`).  A prepare is a thread at a place, and an action one use of the
working directory, so `EnterParent` to `Leave` follow the function from its guard to what the guard restores.  Two can be at work at
once, because the progress dialog of Configure can be cancelled and the prepare cannot.  The file system, the clone, the
checkout, the clean and the pull may fail; `DropPlain` may leave a plain directory standing, whole or emptied, since nobody reads the error of
that `remove_all`, and the prepare goes on in it.

A repository is a package of its own or a family of two flavors (`Upstreams`); `second` says that the combo has the other one.  The combo's handler
(`SelectFlavor`) sets the options `Resets` to defaults, of which `Defaults` are on, and fills the list from the PKGBUILD; so do, for the list, the LTO combo and the open
driver's box (`ResetList`).  Execute goes on with `SetEnvironment`, `ReadSourceArray`, `InsertSourceArray`, `SetCustomName` and `Launch`.  `SetEnvironment` begins with
`RefreshFlavors`: the combo is filled anew with its signals blocked, and setting another flavor than the first then runs the handler, before
the options and the list are read.  Page and list at the click are kept in `asked`, and `BuildsWhatIsConfigured` compares the launch with them.

A PKGBUILD (`Pkgbuild`) is the lines above `prepare()` by kind, and the value of `pkgbase`.  What bash reads out of it is
`SourceArray`; what the program recognizes is `CutFrom` and `BlockTop`, which look at the shape of lines only, as the code does.
The loop over stacked arrays (`Strip`) and the peeling of the name (`Unapply`) are recursive functions, the filter (`OfKind`) and bash's reading
(`ReadLine`) folds, so that they can be proved about.  Two assumptions say which PKGBUILDs there are: `NameAssumption` types entries and names,
`LayoutAssumption` says that an array's parentheses hold entries and blank lines only, and that a file with `prepare()` has a statement
above it (makepkg wants `pkgver=` and `pkgrel=`).  `Foreign` keeps the numbers of the foreign lines, so `ForeignKept` is also about their places.

Histories: `crowd` (threads that were not alone all the time), `kept` (threads that could not remove a plain directory), `overlap`, `hit` (where git
commands that write ran), `last`, `asked`.

### RepoAdd

One action per command of `repo_add.sh`, in several runs of it.  `conf` is the header-like lines of `pacman.conf`.  The script's grep,
pacman's parser and the program's `ini.hpp` read them differently, which
`GrepMatches`, `PacmanReads` and `IsRepoEnabled` keep.  The keyring has the repository's key or not, trusted, untrusted, or for good unusable (`bad`: expired, revoked, disabled), and it may be
another key than the one the script names (`known`).  Upstream makes releases; the user comments a section out between runs.

Every command may fail: the copy and the append (`Backup`, `AppendSection`; a missing `pacman.conf` is a copy that fails), the fetch and the
signature of a key, each `pacman -Sy` (servers, a database error, a held `db.lck`), and the terminal may be closed.  `hindered` records
that one of these, outside the script, failed.  `said` is what pacman complained of: `ImportKey` is the repair when it names a key, `SignSigner` when it names a
signer, and for everything else there is none (`GiveUp`).  `SignSigner` looks for sixteen hex digits in gpg's listing of the signer's keys: these
are a key's ID when gpg is configured to list long IDs (`longIds`), and otherwise the first digits of a fingerprint, which no key has for an ID.
`FailsWithCause` says which failures are left: those that something outside caused, a key nobody can sign, and a key that was there untrusted,
is not the one the script names, and is listed without its long ID.

### GatedInstall

Packages are the version of each kernel and of its headers, and the set of nvidia drivers.  `EvaluateGate` is `evaluate_gate` over its
probes.  A flow is an install from its trigger to its report: `Execute` (A), `InstallPrecompiled` (B), `InstallFromDirectory` (C), `BuildDone` (D).
The dialogs of both windows are actions of their own, since the main window only informs about headers where the configuration
window looks again whether they are offered (`Recheck`), and installs them once its dialog is closed (`EnsureHeaders`).  A finished build's handler runs inside whatever dialog the main window has open, so D may stand on top of
the others; the worker runs A's transaction beside them.  A command may succeed, fail without a change, fail after it, or be answered for
while it runs on (`late`).  `External` is what other programs do to drivers, headers, databases and the configuration; it marks
the flows under way as not `clean`.

## Runs

| Run | Question | Bounds |
|---|---|---|
| `safety` | do handles, lists and flags stay in order in every interleaving, with closing and failing parses? | 2 kernels, 4 user or environment actions, 5 start states |
| `service` | does the worker implement `TransactionService`, and does everything begun end? | the same, parses succeed |
| `helper` | does the helper end, tell the truth and keep the contract, around any command and around a build, and is a build the job `BuildSession` reckons with? | 3 exit codes, 4 kinds of terminal, 2 keys |
| `build` | are flags, timer, marker and question about the same build? | 2 flavors, 3 launches, 3 other user actions, 2 polls, 1 background prepare, a prepare leaves both flavors or none |
| `prepare` | does git stay in the build repository, does the process come home, is what is built what is shown, does a repeat change nothing? | 2 sources, 2 pool threads, 3 PKGBUILDs in 2 repositories (a package of its own, a family of two), 2 pages, 1 patch to add, 3 clicks, 1 edit, work trees of the user's around both directories |
| `install` | does what the gate let pass get its driver, is the verdict true, does the configuration keep one section, why can the script fail? | 3 kernels, 2 releases, 2 script runs, 4 machines (3 configurations, 3 states of the key), 2 directories, 2 flows, 1 build, 1 outside change, 3 of these together |
| `lost_wakeup` | does Execute start the worker? | violated, see below |
| `auto_refresh` | does the list follow a transaction? | violated |
| `checked_rows` | is only an unchecked row's kernel removed? | violated |
| `purge` | is the purge harmless after a failed parse? | violated |
| `one_build` | is there only one build at a time? | violated |
| `stale_headers` | are the headers beside a pre-compiled kernel its own? | violated |

Why the bounds are enough.  Kernels interact only through the lists and `db.lck`, so two are needed (one in the
repository, one not) and a third adds nothing new.  Four actions cover select, execute, something during the
transaction and something after it; the shortest counterexamples found need one to four.  Three launches
cover a build, its installation and a build that meets their leftovers; three other actions allow
configure, close, restart between two of them.  Three clicks on Configure, Execute and the flavor combo are two overlapping prepares and a third
that meets what they left, an Execute after an Execute, or an Execute of the other flavor; the three PKGBUILDs have the shapes the program's search tells apart: an array
closed on its last entry's line or on one of its own, several arrays above `prepare()`, foreign lines around them, no `prepare()`.  Two releases make a
version old; the three kernels are one whose release string is its package version, one whose is not, and a renamed one.  The keyring starts
without the key, with one nobody trusts or with one nobody can sign; a run leaves a good one trusted, and a second run meets it so.  The four machines
are those on which a failed refresh takes different ways through the script: the proactive fetch, the named key's signature, the signer
listed without long IDs, no repair.  An entry that is no `.patch` is left to the
proofs, where the entries are arbitrary.  Two keys are
the fewest that can be reported in two ways.  The code polls ten times; two exercise the count-down and its end.
`acts`, `count`, `clicks` and `edits` bound only what the environment starts: whatever the program has begun always runs on.
So `CHECK_DEADLOCK FALSE` is needed: with the budget spent and everything done the model stops, as the idle program does.
The inductive invariants of `KernelTransaction` and `BuildSession`, both called `IInv`, are among the invariants of `safety` and `build`; those of the
other modules are stated in their proof modules.
The threads of the pool and the runs of the script are symmetric; the runs that say so, `prepare` and `install`, check no liveness.

Some properties are conditional, and the conditions are needed:

* `CwdRestored` holds until two prepares overlap.  Without `~overlap` TLC answers with Configure, a cancelled progress dialog and Configure
  again: the second prepare saves the directory the first is in, and returns to it last.
* `OwnCheckoutOnly` is about prepares that were alone all the time.  Otherwise one runs its clean or its clone where the other has
  gone: in the user's directory, or in the checkout, whose nested clone `discover_repo_flavors` then offers before the root.  One other
  place is allowed, the work tree around the build directory, after a plain directory could not be removed: the code does go there.
* `BuildsWhatIsConfigured` promises what was asked at the click for the first flavor only.  For another one it says what the code does: the list is the PKGBUILD's
  patches, and the options the handler sets are at their defaults (`Taken`).
* `NoDoubleRelease` allows one double release, which the code has: the swap of a transaction that `closeEvent` overtook.
* `SectionOnce` and `BackupFirst` exclude two overlapping runs of the script: both find no section, and both append.  The helper's
  deadline makes that possible: it answers, the script goes on, and "Add repo" can be clicked again.
* `UnwarnedIsPaired` and `InstallFindsItsTargets` speak of flows during which no other program changed packages or databases.
  `InstallFindsItsTargets` also needs program and pacman to read the configuration alike (`SameReading`): `ini.hpp` folds the case of `[Repo]`, trims `[ repo ]`
  and takes `[repo] # note`, so the program offers "Install pre-compiled" where pacman knows no such repository.

`PROJECT.json` names one mutant per property: an operator standing for one decision of the code, replaced by a planted fault
(a flag not cleared, a lock not taken, a marker not removed), under which TLC finds the property violated.

### What the code does not keep

1. **Lost wake-up** (`km-window.cpp:1792`).  `on_execute` stores and notifies without `m_mutex`; between the worker's test and its sleep
   the notification is lost, `m_running` stays true, and Execute and Refresh answer nothing until a spurious
   wake-up.  `docs/ARCHITECTURE.md:71` says `on_execute()` starts the worker.  `ExecuteFinishes` shows it is the only way (the window's closing
   apart) in which an accepted Execute is not served.
2. **No automatic re-scan** (`km-window.cpp:687`).  `invokeMethod(this, "init_kernels")` names a private member that is no slot and not invokable.
   `docs/USER_GUIDE.md:53` promises the re-scan.
3. **A checked row removed** (`km-window.cpp:1630`).  A rebuild of the tree keeps `m_change_list`, and the next Execute removes a kernel
   whose row is shown checked.
4. **Purge over a released handle** (`km-window.cpp:1718`), after a `parse_alpm` whose `alpm_initialize` failed; the comment at 1646 calls it harmless.
5. **Two builds** (`conf-window.cpp:749`).  The helper gives up after 30 minutes and frees `m_running` while the build goes on.
6. **Headers left behind** (`install_kernel.cpp:66`).  Headers of any version count as present, so "Install pre-compiled" updates a kernel
   alone, where `docs/USER_GUIDE.md:54` promises the package and its headers; a DKMS driver has nothing to build its module for it from.

Not a run of its own: the comment at `km-window.cpp:231` says an information row cannot be toggled, but
`check_uncheck_item` (1056) toggles it by keyboard; `Toggle` allows it and the selection then names no package.

### What else came up

Nothing here is a property of a run; a maintainer would want to know it.

* Flavors: an Execute with another flavor than the first selected throws away the patches the user added or removed and the options the combo's handler sets
  (LTO, preemption, tick rate, custom config), because `refresh_flavors` sets the combo and its handler runs (`conf-window.cpp:1142`, `:1354`).
* Prepare: when the directory of the repository has no `.git` and cannot be removed (`utils.cpp:268` does not look), the forced checkout, the clean and the pull run in
  it, and with a work tree of the user's around the build directory that work tree's local changes are gone.  `ParentIsGit` is that case; a directory
  with a `.git` is taken for a valid checkout.
* Build: an install question that is answered after a background prepare has removed the directory, or any launch without `terminal-helper`, leaves `m_running` set
  until the program is restarted.
* Repository: the comment at `repo_add.sh:193-198` says that the first 16 hex digits of the listed block are the primary key's ID.  gpg's default listing shows
  the fingerprint, so they are its first sixteen, and the repair of case 2 works only where gpg is configured to list long IDs.
* Launch: a command may begin, and run on, after the helper has decided on 126; a wrapper that writes under the helper's `rm -rf` makes it exit with
  1 and leaves the script in `/tmp`, where it is not opened again (`NoLateStart`).
* Prepare: a source without a branch `master` is never refreshed (`git checkout --force master` fails, and Execute builds what is there).
  A PKGBUILD without `prepare()` silently gets none of the patches.  Listed entries that do not end in `.patch` come back as sources and accumulate
  while the checkout cannot be refreshed; then a custom name equal to the placeholder leaves an earlier rename in place, and two alternating
  names wrap each other.  A foreign array begun by `name+=(` or `declare -a name=(` right above `prepare()` can lose lines.
* Gate: trigger A joins the names of the checked rows with a space, so with a DKMS driver any two kernels are `WARN_ONLY`.  The kernel
  release it is given is the package version, so `build_dir_exists` rarely matches.  Migrating for a custom-named kernel always fails
  ("target not found").  C and D gate only the first kernel of a directory.  Each window has a banner of its own.
* Installs: `=== Result: SUCCESS ===` is logged after each step that succeeds.  The headers of a directory install's first step have the
  database's version, whatever the directory's is.  The AUR branch of `install_kernel` cannot be reached with the table of kernels.
* Repository: "Add repo" is judged by the section alone, so a failed `pacman -Sy` is reported as enabled and not offered again.  `[repo] # see [x]` is
  enabled for the script and not for the program.
* Build: the exit code of a build's launch is that of `read`, so `finished_proc`'s diagnostic prints 0 for a failed build.  After a first failure for a key, a second
  failure of another kind imports the old keys again and exits 1, where `build_helper.sh:25` says that other failures propagate as they are.

## Fairness

`KernelTransaction`: weak fairness of the UI thread's steps and of the worker's.  The event loop runs a handler to its end,
and the scheduler runs a thread that can run.  A pacman in a terminal ends because the helper does (`HelperEnds`).  Clicks, other programs and
spurious wake-ups are not fair; a modal question is answered.
`BuildCommand`, and in it `TerminalHelper`: weak fairness of the helper, of the wrapper and of the command, which ends and whose "Press
enter" is answered.  Not fair: a refusal, Ctrl-C, the closing of a window; `HelperEnds` holds with them.
`BuildSession`: weak fairness of handlers, of the background prepare, of `finished_proc` (from `HelperEnds`), and of a
launch's start.  The timer is strongly fair: between two clicks the event loop delivers it, but an Execute that
returns early disables it again and again for a moment.
`BuildPrepare` and `GatedInstall` state no fairness: their procedures are straight lines in which each command ends or fails, and
no actor waits for another one's flag.

## Proofs

`KernelTransactionProofs` proves, for every set of kernels, every set of start states and any bound on actions, with no
assumption but `KernelAssumption` (the types of the constants):

* `TypeCorrect`: `TypeOK` always.  The longest part, since it carries the domain facts about rows, views and databases.
* `Invariant`: `IInv` always.  None of the safety properties is inductive alone.  That the worker's swap releases a live handle depends on
  the handle being live when the worker locked, which depends on the UI's two sections and on `closeEvent`; that an idle
  worker's lists are empty depends on where the worker can be while `m_running` is false, hence on which flag
  stores are possible from where.  `IInv` is the conjunction of these parts: the lock belongs to the worker exactly in its locked places,
  handles are numbered below `parses`, the temporary handle is live and is not `m_handle`, lists are empty outside
  the places that fill them, `m_running` holds in every transacting place, a closing window has set its flags.
* `KernelsHandleStaysLive`, `IdleStaysClean`, `RefreshStaysApart`: safety invariants of run `safety`, each from `IInv`.
* `ReleasedTwiceOnlyAfterClose`: not that no handle is released twice, which is false, but that the one second release the code has, the swap of a
  transaction that `closeEvent` overtook, is the only one, and that this swap leaves a live handle behind.
* `ViewIsKept`, `CloseEndsService`: the two action properties, from `IInv` and a case analysis of `Next`.
* `WorkerImplementsService`: the refinement.  Initial states map to initial states, and under `IInv` every step
  maps to a step of `TransactionService` or to a stutter.

`TerminalHelperProofs` proves, for every set of exit codes and of terminals and whether or not deadlines pass and windows close, from
`HelperAssumption` alone (a command does not itself exit with 124 or 126, which the helper uses):

* `TypeCorrect`, `Invariant`, `CodeStaysReal`, `NothingStartsLate`.  `CodeIsReal` speaks of the helper's end only; that what it read was the
  last command's code needs `IInv`: each attempt starts the command at most once, `done` means the wrapper has
  finished, `rc` then holds the last code, a blocking terminal is over when the eval line returns, and the script is gone once the helper has exited, except without a terminal and after a removal that failed, where no
  terminal is asked for it any more.
* `HelperImplementsContract`: every step of `TerminalHelper` is a step of `LaunchContract` or a stutter.  The decision on 126 maps to `Refuse`; a command that
  begins between it and the exit is a `Begin` the contract allows.

`BuildCommandProofs`, for any set of keys, from `BuildAssumption` as well (0, 1 and 130 are exit codes):

* `BuildIsLaunch`: with the build's variables hidden, a step of `BuildCommand` is one of `TerminalHelper`; `BuildCodeIsReal` and `NoLateBuild`
  follow from what is proved there.
* `FailureHasReason`, from `BuildInv`: as long as nothing excuses a failure, the log of a first one holds every missing key under one
  form, so the import gets them all, and the second attempt misses none.
* `BuildImplementsJob`, from `JobInv`: a marker means packages, and a command that has begun has been counted.

`BuildSessionProofs`, for any flavors, launches, restarts, prepares and polls, from the module's `BuildAssumption` (types; at least one flavor and one poll):

* `TypeCorrect` and `Invariant`: `IInv` always.  `HelperIsProtected` does not say whose launch is at work; `IInv` adds that `current` is the last launch
  and has the remembered directory (`HelperKnown`), that numbers not yet launched are free (`LaunchesCounted`), what a marker on the disk can
  mean (`MarkersMean`: its build's packages are there, and somebody still waits for it or nobody has for some time), and what an open question knows (`OfferMeans`),
  and that the window is locked for good exactly after a command that could not be started (`LockedMeans`).
* `HelperStaysProtected`, `OfferStaysTrue`, `OfferedIsInstalled`: the safety properties of run `build`.

`PkgbuildProofs`, for every file, list of entries and custom name.  Nothing here is an invariant; the proofs are inductions over the
data.  The library's induction theorems take an operator as a parameter and cannot be used, so `SetInduction` derives induction over a set of
numbers from `NatLessThanWellFounded` and `WFMin`, and `Recursion` from it that a function which descends along a measure exists.  With these
the first two sections prove the equations of `Strip`, `Unapply` and of the folds, which are `CHOOSE`s as TLA+ defines them.  Then:

* `LoopEnds`: what the loop takes away are source arrays and blank lines at the end of what stands above `prepare()`, and it leaves none.
  Each round cuts whole lines from the end, and keeps every statement and every opening line of a foreign array (`Remains`); where the file
  appends to no array it keeps every line of code too, because between the parentheses of what it cuts there are entries only.
* `InsertedIsRead`: the shell reads the sources that are no patches and then the entries of the list (by `BlockArray`: a block says it all,
  whatever stands above it).
* `InsertAgain`: the loop finds the block that was put in, and nothing above it (`StripBlock`).
* `RenameAgain`: with a placeholder in the name `Expand` is injective (`ExpandInjective`), so at most one base can be peeled off, and what
  peeling leaves is wrapped once (`UnapplyEnds`).

`BuildPrepareProofs`, for any pool, sources, PKGBUILDs, pages, options and bounds, from `PrepareAssumption` (types; the UI thread is not of the
pool), `NameAssumption`, `LayoutAssumption` and `UpstreamAssumption`:

* `PrepareInvariant`.  `CwdRestored` is about a process at rest; it holds because until the first overlap a prepare at work has saved the
  start directory, and outside of it the process is there (`OneAtWork`, `HomeSaved`, `HomeKept`).  `OwnCheckoutOnly` has to survive an
  overlap: a prepare that begins alone is in the parent directory where it clones and in the repository where it checks out and cleans,
  wherever the process was when it began, and the work tree there is the repository's own unless it could not remove a plain directory (`AloneAtWork`).
* `TypeCorrect`, `CwdComesHome`, `WritesStayHome` from it.
* `ExecuteInvariant`, three invariants on top of it.  `FilesInv`: every work tree keeps upstream's foreign lines at their numbers, whoever
  edits it and however often.  `BuildInv`: `BuildsWhatIsConfigured` is about the launch, and what it says of the file was decided many steps
  before; as long as the Execute is alone and nothing has failed, the repository is a checkout of the source from the comparison of the origins
  on, its files are upstream's from the forced checkout to the first edit, and then upstream's with one edit and with two (`RepoAt`,
  `EditsAt`), and list and options are those of the click, or for another flavor those its handler left.  The environment has no option but those `m_previously_set_options` knows (`EnvNamed`), which the next Execute unsets.  `RepeatInv`: the
  file an Execute left is `Settled`: it ends with the block of its list, and its name is no longer changed by renaming.
* `EditsKeepForeign`, `LaunchIsConfigured`, `ExecuteRepeats` from them and from `PkgbuildProofs`.

`RepoAddProofs`, for any configuration file with at most one section, any keyring, number of runs and of releases, from `RepoAssumption` and
`ConfsAssumption`.  `RepoSpec` is the script with its own environment:

* `RepoInvariant`: while no two runs overlapped one is at work at most, between its grep and its append the file is the one it
  looked at (without a section, and copied), and what a run that nothing hindered was told of the key holds of it (`KeyKnown`): after the proactive
  fetch of the named key it is trusted or bad, a complaint of the signer means it was there, and at the second refresh it is trusted.  `SectionStaysOnce`, `BackupComesFirst` and
  `FailureHasCause` follow.

`GatedInstallProofs`, for any kernels, directories, GPUs and bounds, from the same and `InstallAssumption` (types; finitely many
kernels, none with an empty name):

* `KeepsRepoSpec`: the composed system implements `RepoSpec`, which carries the three theorems over (`SectionOnceInSystem`,
  `AddRepoFailsWithCause`, `BackupFirstInSystem`).
* `InstallInvariant`: the codes of a flow are those of a prefix of its steps, each after the success of the one before, and what a
  step that succeeded installed is there.  `TypeCorrect` and `SuccessIsComplete` follow.

* `PairingInvariant`: `UnwarnedIsPaired` and `InstallFindsItsTargets` speak of the end of a flow, the gate of its beginning.  Between them
  stand dialogs, a migration, the headers' install, the user's answer, a flow of a finished build inside the dialog, the worker, and a command that
  was given up but still runs.  `PairingInv` says of each flow nobody interfered with what it knows where it is (`Sound`): no precompiled driver
  is left, and each kernel has headers, or a command of its plan will install them, or the banner is up, or the user went on regardless.  It says of each command to come
  that its packages are found.  All of it is about a snapshot of the machine; `Later` orders these snapshots, every step of
  the system but `External` goes to a later one (a script only adds its section, a refresh only moves forward), and what a flow knows stays
  true on a later machine.  So one lemma covers all steps of the other actors.  `UnwarnedGetsItsDriver` and `PairingNeverRefuses` follow.

Only model-checked is liveness (`ExecuteFinishes`, `UiReturns`, `WorkerEnds`, `HelperEnds`, `RunningSettles`, `PollingEnds`,
`MarkerConsumed`): TLAPS has no rules for fairness and ENABLED here.  Every safety property and every action property of a passing run is proved, and
so are the three refinements' safety parts.

No module with a theorem uses RECURSIVE.

## Not modelled

* Functions without state: `bootloader.cpp`, `boot_instructions.cpp`, `distro.cpp`, `kernel_info.cpp`, the tables of `known_kernels.cpp` (their
  packages are constants here), the option files of `config-options.cpp`.  What can be wrong in them is a text or a look-up, which a unit test reaches.
* The AUR code, which a build option leaves out; `postinstall_tail.sh`, which nothing calls; packaging, translations.
* Toggling the install-from-directory row by keyboard, the information panel, the progress dialog's guard of Refresh, a handle that
  cannot be created at start.
* The zfs and nvidia companions of a kernel and the passes of `get_kernels`: the transaction sees names and flags.
* The values in `pacman.conf`, keys above its first section, SigLevel flags, and the writer in `ini.hpp`, which nothing calls.
* A removal of a kernel while an install is reported (`GatedInstall`; removals are `KernelTransaction`'s), and a precompiled driver beside a
  DKMS one, which pacman does not allow.
* Data races as such: `m_change_list` and the row widgets are touched by two threads; each access is one atomic step here, and so is a
  use of the working directory.
* Two programs at once: the single-instance lock keeps a second out.  Other pacman processes are modelled.
* `BuildSession` and `BuildPrepare` are not composed: `BuildSession`'s `PrepareRepo` is what a prepare does to markers and packages,
  `BuildPrepare` what it does to the PKGBUILD and to the working directory.

## Plan

What is left, in this order:

1. `BuildSession` over `BuildPrepare`, its untracked files in the trees there.
2. The passes of `get_kernels` against a reference definition.
3. The bootloader's detection order over the files it probes.
