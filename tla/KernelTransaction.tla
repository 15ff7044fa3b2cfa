-------------------------- MODULE KernelTransaction --------------------------
(***************************************************************************)
(* The transaction engine of the main window: the UI thread of MainWindow  *)
(* (km-window.cpp), the worker thread it starts, and what the two share:   *)
(* the flags m_running and m_thread_running, m_mutex with the condition    *)
(* variable m_cv, the libalpm handle, the kernel list, the change list and *)
(* the pending install and removal lists of kernel.cpp.                    *)
(*                                                                         *)
(* A kernel stands for the pair (kernel package, headers package): the     *)
(* code installs and removes the two together.  A handle is a number, 0 is *)
(* nullptr, and live holds the handles libalpm has not released.  Every    *)
(* step that opens new work (a click, another program, a spurious wake-up) *)
(* spends one unit of acts, so MaxActs bounds a behaviour; no other        *)
(* counter needs a bound.                                                  *)
(***************************************************************************)
EXTENDS Naturals

CONSTANTS
    Kernels,       \* kernel names
    Curated,       \* those the known_kernels table lists with a pre-compiled package
    StartDisks,    \* the system states the program may find at start
    MaxActs,       \* bound on user and environment actions
    UserMayClose,  \* whether the user may close the window
    ParseMayFail   \* whether alpm_initialize may return nullptr

Disk == [installed : SUBSET Kernels,  \* local DB
         repos     : SUBSET Kernels,  \* offered by a sync DB enabled in pacman.conf
         outdated  : SUBSET Kernels,  \* the sync DB has a newer version
         foreign   : SUBSET Kernels]  \* installed_db names another repository than the row

ASSUME KernelAssumption ==
    /\ Curated \subseteq Kernels
    /\ StartDisks \subseteq Disk
    /\ MaxActs \in Nat
    /\ UserMayClose \in BOOLEAN
    /\ ParseMayFail \in BOOLEAN

Kinds == {"repo", "local", "info", "absent"}

\* A row's raw name: "<repo>/<name>" for sync and information rows, "local/<name>".
Raws == {"repo", "local"} \X Kernels
Raw(k, kind) == <<IF kind = "local" THEN "local" ELSE "repo", k>>

VARIABLES
    disk,           \* the package databases and /etc/pacman.conf
    dbLock,         \* pacman's db.lck: which of our threads has pacman running
    running,        \* m_running
    threadRunning,  \* m_thread_running
    mutex,          \* owner of m_mutex: "free" or "worker" (UI sections are atomic)
    live,           \* libalpm handles not yet released
    parses,         \* handles created so far
    handle,         \* m_handle
    view,           \* m_kernels: the handle and database snapshot it was read from
    tree,           \* the tree widget's rows
    dirRow,         \* the "Install from directory" pseudo-row is the current item
    changes,        \* m_change_list, as the number of copies of each raw name
    okEnabled,      \* the Execute button
    upc,            \* where the UI thread is
    cont,           \* where it goes when init_kernels returns
    job,            \* the terminal command the UI thread waits for, and its kernels
    wpc,            \* where the worker thread is
    copied,         \* the worker's copy of the change list
    toInstall,      \* g_kernel_install_list
    toRemove,       \* g_kernel_removal_list
    temp,           \* the worker's temp_handle and the snapshot behind it
    changed,        \* is_kernel_status_changed
    asked,          \* history: the rows checked when the worker copied the change list
    missed,         \* history: the last notify found the worker between test and sleep
    acts            \* user and environment actions so far

uiVars   == <<tree, dirRow, okEnabled, upc, cont, job>>
workVars == <<wpc, copied, toInstall, toRemove, temp, changed>>
alpmVars == <<live, parses, handle, view>>
flagVars == <<running, threadRunning, mutex>>
diskVars == <<disk, dbLock>>
histVars == <<asked, missed>>
vars == <<uiVars, workVars, alpmVars, flagVars, diskVars, changes, histVars, acts>>

UiPlaces == {"ready", "gate", "store", "notify", "term", "reparse", "fetch",
             "rebuild", "purge", "okcheck", "close2", "close3", "close4", "closed"}
Closing  == {"close2", "close3", "close4", "closed"}

\* The worker's places from the moment it has decided to run a transaction to
\* the moment it stores m_running = false.
Transacting == {"copy", "enlist", "install", "installing", "remove", "removing",
                "probe", "swap", "clear", "stop"}
WorkPlaces  == {"unstarted", "loop", "lock", "pred", "tosleep", "asleep", "woken",
                "check", "okset", "unlock", "exited"} \cup Transacting

\* The contents of m_kernels, of the tree widget, and a terminal command.
Views == [handle : Nat, disk : Disk, update : SUBSET Kernels]
Rows  == [shown : [Kernels -> Kinds], checked : SUBSET Kernels,
          immutable : SUBSET Kernels, built : Nat]
Jobs  == [op : {"none", "dir", "precompiled"}, ks : SUBSET Kernels]

NoRaw == [r \in Raws |-> 0]
NoJob == [op |-> "none", ks |-> {}]
-----------------------------------------------------------------------------
(* The kernel list read from a snapshot of the databases.                  *)

\* get_kernels: sync rows win, a local row replaces an information row.
Kind(d, k) == IF k \in d.repos THEN "repo"
              ELSE IF k \in d.installed THEN "local"
              ELSE IF k \in Curated THEN "info" ELSE "absent"

HasPkg(d, k) == Kind(d, k) \in {"repo", "local"}

ReadKernels(h, d) == [handle |-> h, disk |-> d, update |-> {}]

\* Kernel::version marks an installed row whose sync version is newer.
Updates(d) == {k \in d.installed \cap d.outdated : Kind(d, k) = "repo"}
MarkUpdates(v) == [v EXCEPT !.update = Updates(v.disk)]

\* init_kernels_tree_widget: the rows shown checked, which are also the ones
\* tagged Immutable = "true".
Fixed(d) == {k \in d.installed : Kind(d, k) = "repo" => k \notin d.foreign}

BuildTree(v) == [shown     |-> [k \in Kernels |-> Kind(v.disk, k)],
                 checked   |-> Fixed(v.disk),
                 immutable |-> Fixed(v.disk),
                 built     |-> v.handle]

\* Which kernels a set of raw names resolves to in the kernel list.
Selected(names) == {k \in Kernels : /\ HasPkg(view.disk, k)
                                    /\ Raw(k, Kind(view.disk, k)) \in names}

\* install_packages and remove_packages.
Installable(names) == {k \in Selected(names) :
                         k \notin view.disk.installed \/ k \in view.update}
Removable(names)   == Selected(names) \cap view.disk.installed

Listed == {r \in Raws : changes[r] > 0}

\* pacman -S or -U, and pacman -Rsn, on the databases.
Added(d, ks)   == [d EXCEPT !.installed = @ \cup ks, !.outdated = @ \ ks, !.foreign = @ \ ks]
Dropped(d, ks) == [d EXCEPT !.installed = @ \ ks, !.outdated = @ \ ks, !.foreign = @ \ ks]
-----------------------------------------------------------------------------
(* Variants with one planted fault each.  They are not part of Next: put in *)
(* the place of the definition they vary, they show that a property can     *)
(* fail.                                                                    *)

RemoveOneUnchecked(n) == n - 1            \* RemoveOne without the "is there one" test
RefreshAlways  == TRUE                    \* RefreshAllowed without the m_running guard
UiNeverLocks   == TRUE                    \* UiMayLock without the scoped_lock
LoopKept       == threadRunning           \* LoopAfterClose: m_thread_running not cleared
HandleKept     == handle                  \* NextHandle: m_handle not replaced on a swap
ViewKept       == view                    \* NextView: m_kernels not read again on a swap
RemovalKept    == toRemove                \* RemovalAfter: removal list not cleared
StillRunning   == running                 \* RunningAfter: m_running not cleared
PlaceUnwoken   == IF wpc = "unstarted" THEN "loop" ELSE wpc   \* NotifiedPlace, no notify_all

SleepLocked ==   \* Sleep without giving m_mutex back
    /\ wpc = "tosleep"
    /\ wpc' = "asleep"
    /\ UNCHANGED <<flagVars, uiVars, copied, toInstall, toRemove, temp, changed,
                   alpmVars, diskVars, changes, histVars, acts>>
-----------------------------------------------------------------------------
(* The UI thread: clicks, and the steps of the handlers they start.        *)

UserActs == /\ upc = "ready"
            /\ acts < MaxActs
            /\ acts' = acts + 1

\* QStringList::removeOne on a name's copies: nothing happens when there is none.
RemoveOne(n) == IF n > 0 THEN n - 1 ELSE 0

\* A click on a row's checkbox, or check_uncheck_item (Space, double click), which
\* also flips an information row: the checkbox flips, the row becomes current, and
\* item_changed runs build_change_list.
Toggle(k) ==
    /\ UserActs
    /\ tree.shown[k] # "absent"
    /\ LET checks == k \notin tree.checked
           wants  == checks # (k \in tree.immutable)
           raw    == Raw(k, tree.shown[k])
       IN /\ tree' = [tree EXCEPT !.checked = IF checks THEN @ \cup {k} ELSE @ \ {k}]
          /\ changes' = [changes EXCEPT ![raw] = IF wants THEN @ + 1 ELSE RemoveOne(@)]
          /\ okEnabled' = (wants \/ (okEnabled /\ changes' # NoRaw))
    /\ dirRow' = FALSE
    /\ UNCHANGED <<upc, cont, job, workVars, alpmVars, flagVars, diskVars, histVars>>

\* currentItemChanged: the pseudo-row enables Execute, no row disables it.
SelectRow(isDir) ==
    /\ UserActs
    /\ dirRow # isDir
    /\ dirRow' = isDir
    /\ okEnabled' = (okEnabled \/ isDir)
    /\ UNCHANGED <<tree, upc, cont, job, workVars, alpmVars, flagVars, diskVars, changes, histVars>>

\* on_execute with a kernel row current: a no-op while m_running, otherwise the
\* driver gate if something is installable, then the request to the worker.
ExecuteClick ==
    /\ UserActs
    /\ okEnabled /\ ~dirRow /\ ~running
    /\ upc' = IF Installable(Listed) # {} THEN "gate" ELSE "store"
    /\ UNCHANGED <<tree, dirRow, okEnabled, cont, job, workVars, alpmVars, flagVars, diskVars,
                   changes, histVars>>

GateDecision ==
    /\ upc = "gate"
    /\ upc' \in {"store", "ready"}
    /\ UNCHANGED <<tree, dirRow, okEnabled, cont, job, workVars, alpmVars, flagVars,
                   diskVars, changes, histVars, acts>>

\* The two stores are made without m_mutex.
ExecuteStore ==
    /\ upc = "store"
    /\ running' = TRUE
    /\ threadRunning' = TRUE
    /\ upc' = "notify"
    /\ UNCHANGED <<mutex, tree, dirRow, okEnabled, cont, job, workVars, alpmVars,
                   diskVars, changes, histVars, acts>>

\* m_cv.notify_all(), also without m_mutex: it wakes the worker only if the
\* worker is already asleep.  m_worker_th->start() acts on the first call only.
NotifiedPlace == CASE wpc = "asleep"    -> "woken"
                   [] wpc = "unstarted" -> "loop"
                   [] OTHER             -> wpc

ExecuteNotify ==
    /\ upc = "notify"
    /\ wpc' = NotifiedPlace
    /\ missed' = (wpc = "tosleep")
    /\ upc' = "ready"
    /\ UNCHANGED <<tree, dirRow, okEnabled, cont, job, copied, toInstall, toRemove, temp,
                   changed, alpmVars, flagVars, diskVars, changes, asked, acts>>

\* on_refresh: a no-op while m_running.
RefreshAllowed == ~running

RefreshClick ==
    /\ UserActs
    /\ RefreshAllowed
    /\ upc' = "reparse"
    /\ cont' = "purge"
    /\ UNCHANGED <<tree, dirRow, okEnabled, job, workVars, alpmVars, flagVars, diskVars, changes, histVars>>

\* on_kernel_context_menu, "Add repo", on any row of a curated kernel whose
\* repository is not enabled: once the section is in pacman.conf the list is
\* refreshed on this thread, whatever the worker is doing.  Its pacman -Sy brings
\* the repository's packages unless another instance holds db.lck.
AddRepo(k) ==
    /\ UserActs
    /\ k \in Curated /\ tree.shown[k] # "absent"
    /\ k \notin disk.repos
    /\ disk' = IF dbLock = "free" THEN [disk EXCEPT !.repos = @ \cup {k}] ELSE disk
    /\ upc' = "reparse"
    /\ cont' = "ready"
    /\ dirRow' = FALSE
    /\ UNCHANGED <<dbLock, tree, okEnabled, job, workVars, alpmVars, flagVars, changes, histVars>>

\* A terminal command of the UI thread: it blocks until pacman returns.  pacman
\* fails at once when another instance holds db.lck.
StartJob(op, ks, then) ==
    /\ upc' = "term"
    /\ cont' = then
    /\ job' = [op |-> op, ks |-> IF dbLock = "free" THEN ks ELSE {}]
    /\ dbLock' = IF dbLock = "free" THEN "ui" ELSE dbLock
    /\ UNCHANGED <<disk, tree, okEnabled, workVars, alpmVars, flagVars, changes, histVars>>

\* on_install_from_directory, from the pseudo-row's menu or from Execute with the
\* pseudo-row current (there m_running is not looked at).
DirInstall(k) ==
    /\ UserActs
    /\ dirRow
    /\ \/ StartJob("dir", {k}, "ready")
       \/ okEnabled /\ StartJob("dir", {k}, "okcheck")
    /\ UNCHANGED dirRow

\* on_kernel_context_menu, "Install pre-compiled": no refresh follows.
PrecompiledInstall(k) ==
    /\ UserActs
    /\ k \in disk.repos \cap Curated
    /\ tree.shown[k] # "absent"
    /\ StartJob("precompiled", {k}, "ready")
    /\ dirRow' = FALSE

JobEnds ==
    /\ upc = "term"
    /\ job' = NoJob
    /\ dbLock' = IF dbLock = "ui" THEN "free" ELSE dbLock
    /\ \/ /\ job.ks # {}
          /\ disk' = Added(disk, job.ks)
          /\ upc' = IF job.op = "dir" THEN "reparse" ELSE cont
       \/ /\ disk' = disk
          /\ upc' = cont
    /\ UNCHANGED <<tree, dirRow, okEnabled, cont, workVars, alpmVars, flagVars, changes, histVars, acts>>

\* init_kernels enters its two std::scoped_lock sections.
UiMayLock == mutex = "free"

\* init_kernels, first locked section: release the handle and parse again.  When
\* the parse fails the function returns, and on_refresh goes on to its purge.
Reparse ==
    /\ upc = "reparse"
    /\ UiMayLock
    /\ \/ /\ handle' = parses + 1
          /\ parses' = parses + 1
          /\ live' = (live \ {handle}) \cup {parses + 1}
          /\ upc' = "fetch"
       \/ /\ ParseMayFail
          /\ handle' = 0
          /\ live' = live \ {handle}
          /\ upc' = cont
          /\ UNCHANGED parses
    /\ UNCHANGED <<view, tree, dirRow, okEnabled, cont, job, workVars, flagVars, diskVars,
                   changes, histVars, acts>>

\* Second locked section: read the kernel list again.
Fetch ==
    /\ upc = "fetch"
    /\ UiMayLock
    /\ view' = ReadKernels(handle, disk)
    /\ upc' = "rebuild"
    /\ UNCHANGED <<live, parses, handle, tree, dirRow, okEnabled, cont, job, workVars, flagVars,
                   diskVars, changes, histVars, acts>>

\* Clear and rebuild the tree, without the lock.  m_change_list is left alone.
Rebuild ==
    /\ upc = "rebuild"
    /\ tree' = BuildTree(view)
    /\ view' = MarkUpdates(view)
    /\ dirRow' = FALSE
    /\ upc' = cont
    /\ UNCHANGED <<live, parses, handle, okEnabled, cont, job, workVars, flagVars, diskVars,
                   changes, histVars, acts>>

\* purge_stale_rows: drop the rows of kernels with no package and not installed.
Purge ==
    /\ upc = "purge"
    /\ tree' = [tree EXCEPT !.shown = [k \in Kernels |->
                  IF Kind(view.disk, k) = "info" /\ @[k] \in {"info", "repo"}
                     /\ k \notin view.disk.installed
                  THEN "absent" ELSE @[k]]]
    /\ upc' = "ready"
    /\ UNCHANGED <<dirRow, okEnabled, cont, job, workVars, alpmVars, flagVars, diskVars,
                   changes, histVars, acts>>

\* on_execute, after the directory flow.
OkCheck ==
    /\ upc = "okcheck"
    /\ okEnabled' = (okEnabled /\ changes # NoRaw)
    /\ upc' = "ready"
    /\ UNCHANGED <<tree, dirRow, cont, job, workVars, alpmVars, flagVars, diskVars,
                   changes, histVars, acts>>

\* closeEvent: two stores, a notify and the release of m_handle, all unlocked.
CloseClick ==
    /\ UserMayClose
    /\ UserActs
    /\ running' = TRUE
    /\ upc' = "close2"
    /\ UNCHANGED <<threadRunning, mutex, tree, dirRow, okEnabled, cont, job, workVars, alpmVars,
                   diskVars, changes, histVars>>

LoopAfterClose == FALSE

CloseStop ==
    /\ upc = "close2"
    /\ threadRunning' = LoopAfterClose
    /\ upc' = "close3"
    /\ UNCHANGED <<running, mutex, tree, dirRow, okEnabled, cont, job, workVars, alpmVars,
                   diskVars, changes, histVars, acts>>

CloseNotify ==
    /\ upc = "close3"
    /\ wpc' = IF wpc = "asleep" THEN "woken" ELSE wpc
    /\ upc' = "close4"
    /\ UNCHANGED <<tree, dirRow, okEnabled, cont, job, copied, toInstall, toRemove, temp,
                   changed, alpmVars, flagVars, diskVars, changes, histVars, acts>>

CloseRelease ==
    /\ upc = "close4"
    /\ live' = live \ {handle}
    /\ upc' = "closed"
    /\ UNCHANGED <<parses, handle, view, tree, dirRow, okEnabled, cont, job, workVars, flagVars,
                   diskVars, changes, histVars, acts>>

\* Another program installs or removes a kernel while db.lck is free.
OtherPacman(k) ==
    /\ acts < MaxActs
    /\ acts' = acts + 1
    /\ dbLock = "free"
    /\ disk' = IF k \in disk.installed THEN Dropped(disk, {k}) ELSE Added(disk, {k})
    /\ UNCHANGED <<dbLock, uiVars, workVars, alpmVars, flagVars, changes, histVars>>
-----------------------------------------------------------------------------
(* The worker thread: the lambda handed to Work, one action per step that  *)
(* another thread can see.                                                 *)

Loop ==
    /\ wpc = "loop"
    /\ wpc' = IF threadRunning THEN "lock" ELSE "exited"
    /\ UNCHANGED <<uiVars, copied, toInstall, toRemove, temp, changed, alpmVars, flagVars,
                   diskVars, changes, histVars, acts>>

\* Take m_mutex, at the top of the loop or on waking from m_cv.
Acquire ==
    /\ wpc \in {"lock", "woken"}
    /\ mutex = "free"
    /\ mutex' = "worker"
    /\ wpc' = "pred"
    /\ UNCHANGED <<running, threadRunning, uiVars, copied, toInstall, toRemove, temp, changed,
                   alpmVars, diskVars, changes, histVars, acts>>

\* The predicate of m_cv.wait, evaluated under the lock.
Predicate ==
    /\ wpc = "pred"
    /\ wpc' = IF running THEN "check" ELSE "tosleep"
    /\ UNCHANGED <<uiVars, copied, toInstall, toRemove, temp, changed, alpmVars, flagVars,
                   diskVars, changes, histVars, acts>>

\* The wait proper: release m_mutex and sleep in one step.
Sleep ==
    /\ wpc = "tosleep"
    /\ wpc' = "asleep"
    /\ mutex' = "free"
    /\ UNCHANGED <<running, threadRunning, uiVars, copied, toInstall, toRemove, temp, changed,
                   alpmVars, diskVars, changes, histVars, acts>>

\* A wake-up nobody asked for; acts bounds how many there are.
SpuriousWake ==
    /\ wpc = "asleep"
    /\ acts < MaxActs
    /\ acts' = acts + 1
    /\ wpc' = "woken"
    /\ UNCHANGED <<uiVars, copied, toInstall, toRemove, temp, changed, alpmVars, flagVars,
                   diskVars, changes, histVars>>

CheckFlags ==
    /\ wpc = "check"
    /\ wpc' = IF running /\ threadRunning THEN "copy" ELSE "unlock"
    /\ UNCHANGED <<uiVars, copied, toInstall, toRemove, temp, changed, alpmVars, flagVars,
                   diskVars, changes, histVars, acts>>

\* Disable Execute and copy the change list; the UI thread may change both
\* meanwhile, m_mutex does not cover them.
CopyChanges ==
    /\ wpc = "copy"
    /\ okEnabled' = FALSE
    /\ copied' = Listed
    /\ asked' = tree.checked
    /\ wpc' = "enlist"
    /\ UNCHANGED <<tree, dirRow, upc, cont, job, toInstall, toRemove, temp, changed, alpmVars,
                   flagVars, diskVars, changes, missed, acts>>

\* install_packages and remove_packages append to the lists of kernel.cpp.
Enlist ==
    /\ wpc = "enlist"
    /\ toInstall' = toInstall \cup Installable(copied)
    /\ toRemove' = toRemove \cup Removable(copied)
    /\ wpc' = "install"
    /\ UNCHANGED <<uiVars, copied, temp, changed, alpmVars, flagVars, diskVars, changes, histVars, acts>>

\* commit_transaction: pacman -S then pacman -Rsn, each only for a non-empty
\* list, each result ignored; db.lck held by another instance fails it at once.
PacmanStarts(at, targets, busy, after) ==
    /\ wpc = at
    /\ IF targets # {} /\ dbLock = "free"
       THEN wpc' = busy /\ dbLock' = "worker"
       ELSE wpc' = after /\ dbLock' = dbLock
    /\ UNCHANGED <<disk, uiVars, copied, toInstall, toRemove, temp, changed, alpmVars, flagVars,
                   changes, histVars, acts>>

StartInstall == PacmanStarts("install", toInstall, "installing", "remove")
StartRemove  == PacmanStarts("remove", toRemove, "removing", "probe")

PacmanEnds(busy, legal, result, after) ==
    /\ wpc = busy
    /\ wpc' = after
    /\ dbLock' = "free"
    /\ disk' = disk \/ (legal /\ disk' = result)
    /\ UNCHANGED <<uiVars, copied, toInstall, toRemove, temp, changed, alpmVars, flagVars,
                   changes, histVars, acts>>

EndInstall == PacmanEnds("installing", toInstall \subseteq disk.repos,
                         Added(disk, toInstall), "remove")
EndRemove  == PacmanEnds("removing", toRemove \subseteq disk.installed,
                         Dropped(disk, toRemove), "probe")

\* Parse into temp_handle and ask is_kernels_change_state whether any listed
\* package is now installed or gone.
Probe ==
    /\ wpc = "probe"
    /\ \/ /\ parses' = parses + 1
          /\ live' = live \cup {parses + 1}
          /\ temp' = [handle |-> parses + 1, disk |-> disk]
          /\ changed' = (toInstall \cap disk.installed # {} \/ toRemove \ disk.installed # {})
       \/ /\ ParseMayFail
          /\ temp' = [handle |-> 0, disk |-> disk]
          /\ changed' = FALSE
          /\ UNCHANGED <<parses, live>>
    /\ wpc' = "swap"
    /\ UNCHANGED <<handle, view, uiVars, copied, toInstall, toRemove, flagVars, diskVars,
                   changes, histVars, acts>>

\* What the worker assigns to m_handle and m_kernels when something changed.
NextHandle == temp.handle
NextView   == ReadKernels(temp.handle, temp.disk)

\* On a change: release m_handle, install temp_handle and read the list again.
\* The invokeMethod("init_kernels") that follows finds no such method (it is a
\* plain private member, neither slot nor Q_INVOKABLE), so nothing is queued.
\* Without a change temp_handle is not released.
Swap ==
    /\ wpc = "swap"
    /\ IF changed
       THEN /\ live' = live \ {handle}
            /\ handle' = NextHandle
            /\ view' = NextView
       ELSE UNCHANGED <<live, handle, view>>
    /\ wpc' = "clear"
    /\ UNCHANGED <<parses, uiVars, copied, toInstall, toRemove, temp, changed, flagVars, diskVars,
                   changes, histVars, acts>>

RemovalAfter == {}

ClearLists ==
    /\ wpc = "clear"
    /\ toInstall' = {}
    /\ toRemove' = RemovalAfter
    /\ changes' = NoRaw
    /\ wpc' = "stop"
    /\ UNCHANGED <<uiVars, copied, temp, changed, alpmVars, flagVars, diskVars, histVars, acts>>

RunningAfter == FALSE

StopRunning ==
    /\ wpc = "stop"
    /\ running' = RunningAfter
    /\ wpc' = "okset"
    /\ UNCHANGED <<threadRunning, mutex, uiVars, copied, toInstall, toRemove, temp, changed,
                   alpmVars, diskVars, changes, histVars, acts>>

SetOk ==
    /\ wpc = "okset"
    /\ okEnabled' = ~changed
    /\ wpc' = "unlock"
    /\ UNCHANGED <<tree, dirRow, upc, cont, job, copied, toInstall, toRemove, temp, changed,
                   alpmVars, flagVars, diskVars, changes, histVars, acts>>

Unlock ==
    /\ wpc = "unlock"
    /\ mutex' = "free"
    /\ wpc' = "loop"
    /\ UNCHANGED <<running, threadRunning, uiVars, copied, toInstall, toRemove, temp, changed,
                   alpmVars, diskVars, changes, histVars, acts>>
-----------------------------------------------------------------------------
Init ==
    /\ disk \in StartDisks
    /\ dbLock = "free"
    /\ running = FALSE
    /\ threadRunning = TRUE
    /\ mutex = "free"
    /\ live = {1}
    /\ parses = 1
    /\ handle = 1
    /\ view = MarkUpdates(ReadKernels(1, disk))
    /\ tree = BuildTree(view)
    /\ dirRow = FALSE
    /\ changes = NoRaw
    /\ okEnabled = FALSE
    /\ upc = "ready"
    /\ cont = "ready"
    /\ job = NoJob
    /\ wpc = "unstarted"
    /\ copied = {}
    /\ toInstall = {}
    /\ toRemove = {}
    /\ temp = [handle |-> 0, disk |-> disk]
    /\ changed = FALSE
    /\ asked = {}
    /\ missed = FALSE
    /\ acts = 0

\* What the user and other programs start.
Clicks == \/ \E k \in Kernels : \/ Toggle(k)
                                \/ AddRepo(k)
                                \/ DirInstall(k)
                                \/ PrecompiledInstall(k)
                                \/ OtherPacman(k)
          \/ \E isDir \in BOOLEAN : SelectRow(isDir)
          \/ ExecuteClick
          \/ RefreshClick
          \/ CloseClick

UiSteps == \/ GateDecision \/ ExecuteStore \/ ExecuteNotify
           \/ JobEnds \/ Reparse \/ Fetch \/ Rebuild \/ Purge \/ OkCheck
           \/ CloseStop \/ CloseNotify \/ CloseRelease

WorkerStepsOut == Loop \/ Acquire \/ Predicate \/ Sleep \/ CheckFlags \/ SetOk \/ Unlock

WorkerTransaction == \/ CopyChanges \/ Enlist
                     \/ StartInstall \/ EndInstall \/ StartRemove \/ EndRemove
                     \/ Probe \/ Swap \/ ClearLists \/ StopRunning

WorkerSteps == WorkerStepsOut \/ WorkerTransaction

Next == Clicks \/ UiSteps \/ WorkerSteps \/ SpuriousWake

Spec == Init /\ [][Next]_vars

\* The event loop runs a handler to its end, the scheduler runs a thread that can
\* run, and a pacman started in a terminal ends (terminal-helper gives up after
\* 1800 s).  Clicks, other programs and spurious wake-ups are not fair.
FairSpec == Spec /\ WF_vars(UiSteps) /\ WF_vars(WorkerSteps)
-----------------------------------------------------------------------------
(* Properties.                                                             *)

Open == upc \notin Closing

UiType == /\ tree \in Rows
          /\ upc \in UiPlaces /\ cont \in {"ready", "purge", "okcheck"}
          /\ job \in Jobs
          /\ dirRow \in BOOLEAN /\ okEnabled \in BOOLEAN

WorkType == /\ wpc \in WorkPlaces
            /\ copied \subseteq Raws
            /\ toInstall \subseteq Kernels /\ toRemove \subseteq Kernels
            /\ temp \in [handle : Nat, disk : Disk]
            /\ changed \in BOOLEAN

AlpmType == /\ parses \in Nat /\ handle \in Nat /\ live \subseteq Nat
            /\ view \in Views

SharedType == /\ running \in BOOLEAN /\ threadRunning \in BOOLEAN
              /\ mutex \in {"free", "worker"}
              /\ changes \in [Raws -> Nat]

DiskType == disk \in Disk /\ dbLock \in {"free", "ui", "worker"}

HistType == asked \subseteq Kernels /\ missed \in BOOLEAN /\ acts \in Nat

\* Every variable keeps its type.
TypeOK == UiType /\ WorkType /\ AlpmType /\ SharedType /\ DiskType /\ HistType

\* The handle behind m_kernels is the live m_handle as long as the window is
\* open, with exactly two exceptions the code has: between the two locked
\* sections of init_kernels, and after a re-parse that failed (m_handle null).
\* Every is_installed, version and package read goes through that handle.
KernelsHandleLive ==
    Open /\ upc # "fetch" /\ handle # 0 => view.handle = handle /\ handle \in live

\* Who is about to release m_handle: init_kernels, closeEvent, the worker's swap.
Releasing == upc \in {"reparse", "close4"} \/ (wpc = "swap" /\ changed)

\* m_handle is released twice in one case only, which the code does have: the
\* worker's swap, in a transaction that closeEvent (km-window.cpp:1110) overtook.
\* It happens once: the swap installs a live handle, and by NoTransactionAfterClose
\* no transaction follows that could release it.
NoDoubleRelease ==
    Releasing /\ handle \notin live \cup {0} =>
        /\ upc = "closed" /\ wpc = "swap"
        /\ temp.handle \in live \ {handle}

\* m_running = false is the main thread's only evidence that the worker is done:
\* then no pacman of the worker's holds db.lck, and the global install and
\* removal lists carry nothing over into the next transaction.
IdleIsClean ==
    ~running => /\ dbLock # "worker"
                /\ toInstall = {} /\ toRemove = {}
                /\ wpc \notin Transacting

\* on_refresh's guard is enough: a refresh that passed it never runs beside a
\* transaction, although it holds m_mutex only in part of its steps.
RefreshNeverMeetsTransaction ==
    cont = "purge" /\ upc \in {"reparse", "fetch", "rebuild", "purge"} => wpc \notin Transacting

\* While the worker is in a transaction only the worker replaces m_handle or
\* the contents of m_kernels, although dir installs and Add repo call
\* init_kernels meanwhile.  (The m_update flags are not protected: the tree
\* rebuild writes them after it gave the lock back.)
TransactionKeepsView ==
    [][(wpc \in Transacting /\ wpc' = wpc)
         => (handle' = handle /\ view'.handle = view.handle /\ view'.disk = view.disk)]_vars

\* Once closeEvent has stored both flags no new transaction begins, though the
\* worker may still be at any place of its loop.
NoTransactionAfterClose ==
    [][(upc \in {"close3", "close4", "closed"} /\ wpc \notin Transacting)
         => wpc' \notin Transacting]_vars

\* An accepted Execute is served and m_running falls again, unless its notify
\* came between the worker's test of the predicate and its sleep, or the window
\* is closed first.
ExecuteFinishes == (running /\ Open) ~> (~running \/ missed \/ ~Open)

\* Every handler of the UI thread comes back to the event loop: init_kernels
\* waits for m_mutex at most until the transaction that holds it ends.
UiReturns == (upc # "ready") ~> (upc \in {"ready", "closed"})

\* After closeEvent the worker leaves its loop, or sleeps for ever because the
\* close's notify or its m_running = true was lost; it never stays in pacman.
WorkerEnds == (upc = "closed") ~> (wpc \in {"exited", "unstarted", "asleep"})

\* Execute starts the worker's transaction: what ARCHITECTURE.md says of
\* on_execute.  The code notifies without m_mutex, so it need not.
ExecuteStartsWorker == running ~> ~running

\* The kernel list re-scans itself after a transaction (USER_GUIDE.md): a tree
\* built from an older handle than m_kernels is rebuilt without the user's help.
TreeFollowsKernels == (Open /\ tree.built # view.handle) ~> (tree.built = view.handle \/ ~Open)

\* "Uncheck an installed row and click Execute" removes a kernel (USER_GUIDE.md),
\* so pacman -Rsn is not given a kernel whose row was checked at the moment the
\* worker copied the change list.
CheckedRowsStay == wpc = "removing" => toRemove \cap asked = {}

\* The purge after a failed re-parse is harmless (on_refresh's comment): the
\* handle its is_installed calls go through has not been released.
PurgeHarmless == upc = "purge" => view.handle \in live

\* The worker implements the transaction service of the abstract specification.
Serving == Transacting \ {"copy"}

Phase == CASE wpc \in Serving             -> "serving"
           [] wpc \notin Serving /\ running  -> "requested"
           [] wpc \notin Serving /\ ~running -> "idle"
Batch == IF wpc \in Serving THEN {r[2] : r \in copied} ELSE {}
Targets == toInstall \cup toRemove

Service == INSTANCE TransactionService WITH phase <- Phase, batch <- Batch, targets <- Targets

ServiceSpec == Service!Spec
-----------------------------------------------------------------------------
(* The inductive invariant: what the threads keep true of the lock, the    *)
(* flags and the handles, and why the properties above hold.               *)

\* The worker owns m_mutex from the moment it has it to Sleep or Unlock.
WorkerHoldsLock ==
    mutex = "worker" <=>
        wpc \in {"pred", "tosleep", "check", "okset", "unlock"} \cup Transacting

\* Only the worker clears m_running, so it is set throughout a transaction.
TransactionRuns == wpc \in Transacting => running

\* The lists of kernel.cpp are filled by Enlist and emptied by ClearLists.
ListsEmptyOutside ==
    wpc \notin {"install", "installing", "remove", "removing", "probe", "swap", "clear"}
        => toInstall = {} /\ toRemove = {}

DbLockOwned == dbLock = "worker" => wpc \in {"installing", "removing"}

\* on_refresh tests m_running once; nothing sets it before its handler returns.
RefreshWhileIdle ==
    /\ upc = "term" => cont # "purge"
    /\ cont = "purge" /\ upc \in {"reparse", "fetch", "rebuild", "purge"} => ~running

\* Handles are numbered in the order libalpm makes them.
HandlesCounted == live \subseteq 1..parses /\ handle <= parses

\* The handle about to become m_handle is live and not m_handle's.
TempFresh == wpc = "swap" /\ changed => temp.handle \in live \ {handle}

HandleOwned == upc # "closed" => handle \in live \cup {0}

ClosedStops == upc \in {"close3", "close4", "closed"} => ~threadRunning

Discipline == /\ WorkerHoldsLock /\ TransactionRuns /\ ListsEmptyOutside
              /\ DbLockOwned /\ RefreshWhileIdle /\ ClosedStops
Handles    == HandlesCounted /\ TempFresh /\ KernelsHandleLive /\ HandleOwned

\* The inductive invariant: the lock discipline and the handle bookkeeping.
IInv == TypeOK /\ Discipline /\ Handles
=============================================================================
