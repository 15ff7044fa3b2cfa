------------------------------ MODULE BuildPrepare ------------------------------
(***************************************************************************)
(* What happens before a build: prepare_git_repo (utils.cpp) brings the    *)
(* kernel source repository to the requested source, and on_execute        *)
(* (conf-window.cpp) edits its PKGBUILD.  prepare_git_repo runs on the UI  *)
(* thread for Execute and on a pool thread for Configure, and each of its  *)
(* git commands runs in the working directory of the PROCESS, which both   *)
(* change.  The build that follows is BuildSession's.                      *)
(*                                                                         *)
(* A place holds "none", a "plain" directory without .git, or a checkout,  *)
(* named by the source it was cloned from, "own" being one of the user's.  *)
(* A repository is a package of its own, with a PKGBUILD at its root, or a *)
(* family of two flavors, each with a PKGBUILD in a directory of its own.  *)
(***************************************************************************)
EXTENDS Pkgbuild, FiniteSets

CONSTANTS
    Pool,        \* threads of the global pool
    Sources,     \* build sources, each with its clone URL
    Layouts,     \* the PKGBUILDs upstream may publish
    Upstreams,   \* what a source's repository may hold: its first and second flavor
    Pages,       \* what the Options page may hold: custom name and checked options
    Entries,     \* entries the user may put on the Patches page
    Offered,     \* the options each source's map offers (compile_options.json)
    Options,     \* the options of the Options page
    Resets,      \* those the flavor combo's handler sets
    Defaults,    \* those of them it switches on, for the second flavor
    HomeIsGit,   \* the program was started inside a git work tree
    ParentIsGit, \* the build directory lies inside a git work tree
    MaxClicks,   \* bound on clicks on Configure and Execute
    MaxEdits     \* bound on the edits of the patch list

ASSUME PrepareAssumption ==
    /\ "ui" \notin Pool /\ Sources # {}
    /\ Offered \in [Sources -> SUBSET Options]
    /\ Pages \subseteq [name : Seq(STRING), on : SUBSET Options]
    /\ Defaults \subseteq Resets /\ Resets \subseteq Options
    /\ {HomeIsGit, ParentIsGit} \subseteq BOOLEAN
    /\ {MaxClicks, MaxEdits} \subseteq Nat

\* Names are told apart from what stands for none.
ASSUME NameAssumption ==
    /\ Sources \cap {"", "none", "plain", "own"} = {}
    /\ \A e \in Entries : e \in Patches \cup STRING /\ e # NoEntry

\* What makepkg takes for a PKGBUILD: the mandatory pkgver= and pkgrel= are above the
\* functions.
ASSUME LayoutAssumption ==
    \A l \in Layouts :
        /\ l \in [head : Seq(Lines), prep : BOOLEAN, base : Seq(STRING)]
        /\ Parenthesized(l.head)
        /\ l.prep => \E i \in DOMAIN l.head : l.head[i].k = "stmt"

NoFile == [head |-> <<>>, prep |-> FALSE, base |-> NoBase]

\* The second is NoFile in a package of its own.
ASSUME UpstreamAssumption ==
    \A u \in Upstreams : u.first \in Layouts /\ u.second \in Layouts \cup {NoFile}

Threads == Pool \cup {"ui"}
Trees == {"repo", "nested", "stray"}   \* build_repo_path(), and its name below itself or "home"
Places == Trees \cup {"home", "parent"}
RepoFlavors == {"repo", "second"}      \* the first PKGBUILD of the repository, and another
FlavorTrees == RepoFlavors \cup {"nested"}
NoCfg == [name |-> <<>>, on |-> {}]
NoEdit == [name |-> <<>>, list |-> <<>>, file |-> NoFile]
NoAsk == [page |-> NoCfg, list |-> <<>>]

VARIABLES
    cwd,       \* the working directory of the process; "gone" when it was removed
    git,       \* what each place holds
    head,      \* each flavor's PKGBUILD as committed, or as found in a plain directory
    file,      \* each flavor's PKGBUILD in the work tree
    pc,        \* where each thread is
    entry,     \* entry_cwd of each thread, "" when it could not be read
    url,       \* the clone_url of each thread
    origin,    \* what `git remote get-url origin` told each thread, "" for nothing
    failed,    \* the UI thread's Execute printed an error
    source,    \* g_build_source
    list,      \* the Patches page's list_widget
    cfg,       \* what the UI thread's Execute was asked for: name and options
    orig,      \* orig_src_array of the UI thread
    env,       \* the build variables in the process environment
    previous,  \* m_previously_set_options
    second,    \* main_combo_box has another flavor than the first
    shown,     \* the ConfWindow, application-modal, is visible
    watched,   \* the pool thread m_future_watcher follows, "none" when cancelled or over
    crowd,     \* history: the threads at work that were not alone all the time
    kept,      \* history: the threads at work that could not remove a plain directory
    overlap,   \* history: two were at work at once since the start
    hit,       \* history: where git commands of threads that were alone wrote, since a prepare left
    last,      \* history: name, list and file of the last Execute that edited
    asked,     \* history: page and list at the click on Execute
    clicks, edits

cwdVars  == <<cwd, entry>>
treeVars == <<git, head, file>>
uiVars   == <<list, cfg, orig, env, previous>>
winVars  == <<second, shown, watched>>
histVars == <<crowd, kept, overlap, hit, last, asked>>
counts   == <<clicks, edits>>
vars == <<cwdVars, treeVars, pc, url, origin, failed, source, uiVars, winVars, histVars, counts>>

IsCheckout(p) == p \in Places /\ git[p] \notin {"none", "plain"}
Around(p) == CASE p = "nested" -> "repo" [] p = "repo" -> "parent" [] p = "stray" -> "home"
               [] OTHER -> "none"

\* The work tree a git command started in the working directory acts on: git walks
\* up to the first directory with a .git.
WorkTree == IF IsCheckout(cwd) THEN cwd
            ELSE IF IsCheckout(Around(cwd)) THEN Around(cwd)
            ELSE IF IsCheckout(Around(Around(cwd))) THEN Around(Around(cwd)) ELSE "none"

Running == {t \in Threads : pc[t] # "idle"}
Goto(t, l) == pc' = [pc EXCEPT ![t] = l]
Hits(t, p) == hit' = IF t \in crowd THEN hit ELSE hit \cup {[at |-> p, kept |-> t \in kept]}
Rest(t) == /\ Goto(t, "idle") /\ crowd' = crowd \ {t} /\ kept' = kept \ {t}
           /\ IF t = "ui" THEN cfg' = NoCfg /\ asked' = NoAsk ELSE UNCHANGED <<cfg, asked>>
Fails(t) == failed' = (failed \/ t = "ui")
-----------------------------------------------------------------------------
(* Variants with one planted fault each.                                   *)

NoRestore(t) == cwd                  \* RestoredCwd: the guard is missing
ParentIgnored == "plain"             \* AfterNoParent: the early return is missing
NeverChanged(t) == FALSE             \* SourceChanged: the old checkout is kept
OriginUnchecked == IF cwd # "gone" THEN git[cwd] ELSE ""   \* Origin: any directory has one
-----------------------------------------------------------------------------
(* prepare_git_repo, one step for each use of the working directory.       *)

\* A prepare begins: prepare_build_environment reads g_build_source, and the
\* caller's working directory is saved.
BeginPrepare(t) ==
    /\ url' = [url EXCEPT ![t] = source']
    /\ entry' = [entry EXCEPT ![t] = IF cwd = "gone" THEN "" ELSE cwd]
    /\ crowd' = IF Running = {} THEN crowd ELSE crowd \cup Running \cup {t}
    /\ overlap' = (overlap \/ Running # {})

NoFiles == head' = [t \in FlavorTrees |-> NoFile] /\ file' = head'

\* The directory of the repository is removed with whoever is in it.
RemoveRepo ==
    /\ git' = [git EXCEPT !["repo"] = "none", !["nested"] = "none"]
    /\ NoFiles
    /\ cwd' = IF cwd \in {"repo", "nested"} THEN "gone" ELSE cwd

AfterNoParent == "leave"

\* create_directories and enter(parent_dir); either may fail.
EnterParent(t) ==
    /\ pc[t] = "parent"
    /\ \/ cwd' = "parent" /\ Goto(t, "plain") /\ UNCHANGED failed
       \/ Fails(t) /\ Goto(t, AfterNoParent) /\ UNCHANGED cwd
    /\ UNCHANGED <<entry, treeVars, url, origin, source, uiVars, winVars, histVars, counts>>

\* A directory that is no checkout is removed.  Nobody looks at the error of
\* remove_all, which may have left all of the directory or a part.
DropPlain(t) ==
    /\ pc[t] = "plain"
    /\ \/ git["repo"] # "plain" /\ UNCHANGED <<treeVars, cwd, kept>>
       \/ git["repo"] = "plain" /\ RemoveRepo /\ UNCHANGED kept
       \/ /\ git["repo"] = "plain" /\ kept' = kept \cup {t}
          /\ NoFiles \/ UNCHANGED <<head, file>>
          /\ UNCHANGED <<git, cwd>>
    /\ Goto(t, IF IsCheckout("repo") THEN "visit" ELSE "exists")
    /\ UNCHANGED <<entry, url, origin, failed, source, uiVars, winVars, crowd, overlap, hit, last,
                   asked, counts>>

\* enter(repo_path) to ask for its origin.
VisitRepo(t) ==
    /\ pc[t] = "visit"
    /\ IF git["repo"] = "none"
       THEN Goto(t, "exists") /\ UNCHANGED cwd
       ELSE Goto(t, "origin") /\ cwd' = "repo"
    /\ UNCHANGED <<entry, treeVars, url, origin, failed, source, uiVars, winVars, histVars, counts>>

Origin == IF WorkTree # "none" THEN git[WorkTree] ELSE ""

\* `git remote get-url origin`, which may answer nothing.
ReadOrigin(t) ==
    /\ pc[t] = "origin"
    /\ origin' = [origin EXCEPT ![t] = Origin]
    /\ Goto(t, "back")
    /\ UNCHANGED <<cwdVars, treeVars, url, failed, source, uiVars, winVars, histVars, counts>>

SourceChanged(t) == origin[t] # "" /\ origin[t] # url[t]

\* enter(parent_dir) again, and the comparison of the normalized URLs.
BackToParent(t) ==
    /\ pc[t] = "back"
    /\ cwd' = "parent"
    /\ Goto(t, IF SourceChanged(t) THEN "wipe" ELSE "exists")
    /\ UNCHANGED <<entry, treeVars, url, origin, failed, source, uiVars, winVars, histVars, counts>>

\* The stale repository is removed, by its absolute path; a failure ends the prepare.
WipeRepo(t) ==
    /\ pc[t] = "wipe"
    /\ \/ RemoveRepo /\ Goto(t, "exists") /\ UNCHANGED failed
       \/ /\ Fails(t) /\ Goto(t, "leave")
          /\ UNCHANGED <<treeVars, cwd>>
    /\ UNCHANGED <<entry, url, origin, source, uiVars, winVars, histVars, counts>>

\* Where a clone started in the working directory makes the repository.
CloneTarget == CASE cwd = "parent" -> "repo"
                 [] cwd = "repo" -> "nested"
                 [] cwd = "home" -> "stray"
                 [] OTHER -> "none"

\* git clone makes the directory, in the directory the child was started in.
StartClone(t) ==
    /\ pc[t] = "exists"
    /\ IF git["repo"] # "none"
       THEN Goto(t, "enter") /\ UNCHANGED <<git, hit, failed>>
       ELSE \/ /\ CloneTarget # "none" /\ git[CloneTarget] = "none"
               /\ git' = [git EXCEPT ![CloneTarget] = "plain"]
               /\ Hits(t, CloneTarget)
               /\ Goto(t, CloneTarget)
               /\ UNCHANGED failed
            \/ /\ Fails(t) /\ Goto(t, "leave")
               /\ UNCHANGED <<git, hit>>
    /\ UNCHANGED <<cwdVars, head, file, url, origin, source, uiVars, winVars, crowd, kept, overlap,
                   last, asked, counts>>

\* What a new commit puts into the tree p.  Nothing is built from any other tree, and
\* in a nested one only the package of its own is found.
Commit(p, u) ==
    CASE p = "repo" -> [head EXCEPT !["repo"] = u.first, !["second"] = u.second]
      [] p = "nested" /\ u.second = NoFile -> [head EXCEPT !["nested"] = u.first]
      [] OTHER -> head

\* The PKGBUILDs of the tree p set to a commit.
CheckedOut(p, commit) ==
    [f \in FlavorTrees |-> IF p = (IF f = "second" THEN "repo" ELSE f) THEN commit[f] ELSE file[f]]

CommitIn(p, u) == head' = Commit(p, u) /\ file' = CheckedOut(p, Commit(p, u))

\* It ends with a checkout, or cleans up and fails; it fails when its
\* directory was taken away.
EndClone(t) ==
    /\ pc[t] \in Trees
    /\ \/ \E u \in Upstreams :
             /\ git[pc[t]] = "plain"
             /\ git' = [git EXCEPT ![pc[t]] = url[t]]
             /\ CommitIn(pc[t], u)
             /\ Goto(t, "enter") /\ UNCHANGED failed
       \/ /\ git' = [git EXCEPT ![pc[t]] = IF @ = "plain" THEN "none" ELSE @]
          /\ Fails(t) /\ Goto(t, "leave")
          /\ UNCHANGED <<head, file>>
    /\ UNCHANGED <<cwdVars, url, origin, source, uiVars, winVars, histVars, counts>>

EnterRepo(t) ==
    /\ pc[t] = "enter"
    /\ IF git["repo"] = "none"
       THEN Fails(t) /\ Goto(t, "leave") /\ UNCHANGED cwd
       ELSE cwd' = "repo" /\ Goto(t, "checkout") /\ UNCHANGED failed
    /\ UNCHANGED <<entry, treeVars, url, origin, source, uiVars, winVars, histVars, counts>>

\* git checkout --force master: local changes are gone.  It fails in a repository
\* without that branch, or with a lock in it.
Checkout(t) ==
    /\ pc[t] = "checkout"
    /\ \/ /\ WorkTree # "none"
          /\ Hits(t, WorkTree)
          /\ file' = CheckedOut(WorkTree, head)
          /\ Goto(t, "clean") /\ UNCHANGED failed
       \/ Fails(t) /\ Goto(t, "leave") /\ UNCHANGED <<file, hit>>
    /\ UNCHANGED <<cwdVars, git, head, url, origin, source, uiVars, winVars, crowd, kept, overlap,
                   last, asked, counts>>

\* git clean -fd removes the untracked files below the working directory, but not a
\* nested checkout; a plain directory in another's work tree may be untracked.
Clean(t) ==
    /\ pc[t] = "clean"
    /\ \/ /\ WorkTree # "none"
          /\ Hits(t, cwd)
          /\ \/ cwd = "repo" /\ WorkTree # "repo" /\ NoFiles
             \/ UNCHANGED <<head, file>>
          /\ Goto(t, "pull") /\ UNCHANGED failed
       \/ Fails(t) /\ Goto(t, "leave") /\ UNCHANGED <<hit, head, file>>
    /\ UNCHANGED <<cwdVars, git, url, origin, source, uiVars, winVars, crowd, kept, overlap, last,
                   asked, counts>>

\* git pull brings what upstream has by now, or fails.
Pull(t) ==
    /\ pc[t] = "pull"
    /\ \/ /\ WorkTree # "none"
          /\ \E u \in Upstreams : CommitIn(WorkTree, u)
          /\ UNCHANGED failed
       \/ Fails(t) /\ UNCHANGED <<head, file>>
    /\ Goto(t, "leave")
    /\ UNCHANGED <<cwdVars, git, url, origin, source, uiVars, winVars, histVars, counts>>

\* CwdGuard: back to the directory the prepare was entered in, if it is still there.
RestoredCwd(t) ==
    IF entry[t] = "" \/ (entry[t] \in Trees /\ git[entry[t]] = "none") THEN cwd ELSE entry[t]

Leave(t) ==
    /\ pc[t] = "leave"
    /\ cwd' = RestoredCwd(t)
    /\ entry' = [entry EXCEPT ![t] = ""]
    /\ origin' = [origin EXCEPT ![t] = ""]
    /\ url' = [url EXCEPT ![t] = ""]
    /\ hit' = {}
    /\ Goto(t, "prepared")
    /\ UNCHANGED <<treeVars, failed, source, uiVars, winVars, crowd, kept, overlap, last, asked,
                   counts>>

PrepareSteps(t) ==
    \/ EnterParent(t) \/ DropPlain(t) \/ VisitRepo(t) \/ ReadOrigin(t) \/ BackToParent(t)
    \/ WipeRepo(t) \/ StartClone(t) \/ EndClone(t) \/ EnterRepo(t) \/ Checkout(t)
    \/ Clean(t) \/ Pull(t) \/ Leave(t)
-----------------------------------------------------------------------------
(* MainWindow::on_configure and its future.                                *)

\* discover_repo_flavors: subdirectories with a PKGBUILD come before the root.
FirstTree == IF file["nested"] # NoFile THEN "nested"
             ELSE IF file["repo"] # NoFile THEN "repo" ELSE "none"

\* refresh_flavors keeps the selection if its flavor is still there.
Refreshed == IF second /\ file["second"] # NoFile THEN "second" ELSE FirstTree

\* kernel_path_for_index: the PKGBUILD of the selection.  Which flavors there are is
\* taken from the files; m_flavors, read at the last refresh, differs from them only
\* when a pool thread has changed the files since.
FlavorTree == IF second THEN IF file["second"] # NoFile THEN "second" ELSE "none"
              ELSE FirstTree

PatchList(f) == OfKind(SourceArray(f), TRUE)

\* reset_patches_data_tab: the patches of the PKGBUILD are all that is listed.
ResetPatches(tree) == list' = IF tree = "none" THEN list ELSE PatchList(file[tree])

\* The choice made in the combo, or by apply_source_for_kernel for a kernel that
\* was not the last one, is synced by the click.  The progress dialog can be
\* cancelled, which cancels nothing but the watcher, and Configure clicked again.
Configure(t, s) ==
    /\ pc["ui"] = "idle" /\ pc[t] = "idle"
    /\ ~shown /\ watched = "none" /\ clicks < MaxClicks
    /\ clicks' = clicks + 1
    /\ source' = s
    /\ BeginPrepare(t)
    /\ Goto(t, "parent")
    /\ watched' = t
    /\ UNCHANGED <<cwd, treeVars, origin, failed, uiVars, second, shown, kept, hit, last, asked, edits>>

CancelDialog ==
    /\ pc["ui"] = "idle"
    /\ watched # "none"
    /\ watched' = "none"
    /\ UNCHANGED <<cwdVars, treeVars, pc, url, origin, failed, source, uiVars, second, shown,
                   histVars, counts>>

\* The rest of the future, on the pool thread: refresh_flavors and
\* reset_patches_data_tab fill the list from the PKGBUILD.  The watcher then
\* shows the window.
PoolDone(t) ==
    /\ t \in Pool /\ pc[t] = "prepared"
    /\ second' = (Refreshed = "second")
    /\ ResetPatches(Refreshed)
    /\ Rest(t)
    /\ IF watched = t THEN shown' = TRUE /\ watched' = "none" ELSE UNCHANGED <<shown, watched>>
    /\ UNCHANGED <<cwdVars, treeVars, url, origin, failed, source, orig, env, previous,
                   overlap, hit, last, counts>>
-----------------------------------------------------------------------------
(* The ConfWindow.                                                         *)

UserEdit == pc["ui"] = "idle" /\ shown /\ edits < MaxEdits /\ edits' = edits + 1

AddEntry(e) ==
    /\ UserEdit
    /\ list' = Append(list, e)
    /\ UNCHANGED <<cwdVars, treeVars, pc, url, origin, failed, source, cfg, orig, env, previous,
                   winVars, histVars, clicks>>

RemoveEntry ==
    /\ UserEdit
    /\ \E i \in DOMAIN list : list' = RemoveAt(list, i)
    /\ UNCHANGED <<cwdVars, treeVars, pc, url, origin, failed, source, cfg, orig, env, previous,
                   winVars, histVars, clicks>>

\* A change of the LTO mode or of the open driver's box lists the patches anew.
ResetList ==
    /\ UserEdit
    /\ ResetPatches(FlavorTree)
    /\ UNCHANGED <<cwdVars, treeVars, pc, url, origin, failed, source, cfg, orig, env, previous,
                   winVars, histVars, clicks>>

\* The flavor combo's handler: the options it sets are the next click's page.
SelectFlavor ==
    /\ pc["ui"] = "idle" /\ shown /\ clicks < MaxClicks
    /\ file["second"] # NoFile
    /\ clicks' = clicks + 1
    /\ second' = ~second
    /\ ResetPatches(IF second THEN FirstTree ELSE "second")
    /\ UNCHANGED <<cwdVars, treeVars, pc, url, origin, failed, source, cfg, orig, env, previous,
                   shown, watched, histVars, edits>>

CloseWindow ==
    /\ pc["ui"] = "idle" /\ shown
    /\ shown' = FALSE
    /\ UNCHANGED <<cwdVars, treeVars, pc, url, origin, failed, source, uiVars, second, watched,
                   histVars, counts>>

\* get_all_set_values: an option the source's map does not offer is not emitted.
AllSetValues(s, on) == {<<o, o \in on>> : o \in Offered[s]}

\* on_execute: sync_build_source, then the prepare on the UI thread.
Execute(s, page) ==
    /\ pc["ui"] = "idle" /\ shown /\ clicks < MaxClicks
    /\ clicks' = clicks + 1
    /\ source' = s
    /\ cfg' = page
    /\ BeginPrepare("ui")
    /\ Goto("ui", "parent")
    /\ failed' = FALSE
    /\ asked' = [page |-> page, list |-> list]
    /\ UNCHANGED <<cwd, treeVars, origin, list, orig, env, previous, winVars, kept, hit, last,
                   edits>>

Names1(set) == {v[1] : v \in set}
CleanEnv == {v \in env : v[1] \notin previous}

FlavorDefaults(on) == (on \ Resets) \cup Defaults

\* refresh_flavors fills the combo anew, which leaves it at the first flavor without
\* a signal.  Setting another one then is a change like the user's: its handler
\* resets options and patch list.
RefreshFlavors ==
    /\ second' = (Refreshed = "second")
    /\ IF Refreshed = "second" THEN ResetPatches("second") ELSE UNCHANGED list

Refilled == IF Refreshed = "second" THEN [cfg EXCEPT !.on = FlavorDefaults(cfg.on)] ELSE cfg

\* RefreshFlavors and restore_clean_environment; without a flavor Execute ends.
SetEnvironment ==
    /\ pc["ui"] = "prepared"
    /\ RefreshFlavors
    /\ IF Refreshed = "none"
       THEN Rest("ui") /\ UNCHANGED <<env, previous>>
       ELSE LET set == AllSetValues(source, Refilled.on)
            IN /\ env' = {v \in CleanEnv : v[1] \notin Names1(set)} \cup set
               /\ previous' = Names1(set)
               /\ cfg' = Refilled
               /\ Goto("ui", "source") /\ UNCHANGED <<crowd, kept, asked>>
    /\ UNCHANGED <<cwdVars, treeVars, url, origin, failed, source, orig, shown, watched,
                   overlap, hit, last, counts>>

\* get_source_array_from_pkgbuild: nothing when the script cannot be written.
ReadSourceArray ==
    /\ pc["ui"] = "source"
    /\ \/ /\ FlavorTree # "none"
          /\ orig' = SourceArray(file[FlavorTree]) /\ UNCHANGED failed
       \/ orig' = <<>> /\ Fails("ui")
    /\ Goto("ui", "insert")
    /\ UNCHANGED <<cwdVars, treeVars, url, origin, source, list, cfg, env, previous, winVars,
                   histVars, counts>>

\* An edit that cannot read its file leaves it alone and ends the Execute.
Edit(at, next, ok, result) ==
    /\ pc["ui"] = at
    /\ IF FlavorTree # "none" /\ ok
       THEN file' = [file EXCEPT ![FlavorTree] = result] /\ Goto("ui", next)
            /\ UNCHANGED <<failed, crowd, kept, cfg, asked>>
       ELSE Rest("ui") /\ Fails("ui") /\ UNCHANGED file

InsertSourceArray ==
    /\ Edit("insert", "name", TRUE, InsertSources(file[FlavorTree], orig, list))
    /\ orig' = <<>>
    /\ UNCHANGED <<cwdVars, git, head, url, origin, source, list, env, previous, winVars,
                   overlap, hit, last, counts>>

SetCustomName ==
    /\ Edit("name", "launch", CanRename(file[FlavorTree], cfg.name),
            Rename(file[FlavorTree], cfg.name))
    /\ UNCHANGED <<cwdVars, git, head, url, origin, source, list, orig, env, previous, winVars,
                   overlap, hit, last, counts>>

\* run_cmd_async with build_helper.sh in the flavor's directory, by absolute path.
Launch ==
    /\ pc["ui"] = "launch"
    /\ Rest("ui")
    /\ last' = IF FlavorTree = "none" THEN last
               ELSE [name |-> cfg.name, list |-> list, file |-> file[FlavorTree]]
    /\ UNCHANGED <<cwdVars, treeVars, url, origin, failed, source, list, orig, env, previous, winVars,
                   overlap, hit, counts>>
-----------------------------------------------------------------------------
Init ==
    /\ cwd = "home"
    /\ LET gits(repo) ==
               [p \in Places |-> CASE p = "home" -> IF HomeIsGit THEN "own" ELSE "plain"
                                   [] p = "parent" -> IF ParentIsGit THEN "own" ELSE "plain"
                                   [] p = "repo" -> repo
                                   [] OTHER -> "none"]
       IN \/ git = gits("none") /\ head = [t \in FlavorTrees |-> NoFile]
          \/ \E u \in Upstreams :
                /\ git = gits("plain")
                /\ head = [t \in FlavorTrees |-> CASE t = "repo" -> u.first [] t = "second" -> u.second
                                                   [] OTHER -> NoFile]
    /\ file = head
    /\ pc = [t \in Threads |-> "idle"]
    /\ entry = [t \in Threads |-> ""] /\ origin = entry
    /\ url = entry
    /\ failed = FALSE
    /\ source = CHOOSE s \in Sources : TRUE
    /\ list = <<>> /\ cfg = NoCfg /\ orig = <<>>
    /\ env = {} /\ previous = {}
    /\ second = FALSE /\ shown = FALSE /\ watched = "none"
    /\ overlap = FALSE /\ crowd = {} /\ kept = {} /\ hit = {} /\ last = NoEdit /\ asked = NoAsk
    /\ clicks = 0 /\ edits = 0

UserSteps ==
    \/ \E s \in Sources : \/ \E t \in Pool : Configure(t, s)
                          \/ \E page \in Pages : Execute(s, page)
    \/ \E e \in Entries : AddEntry(e)
    \/ RemoveEntry \/ ResetList \/ SelectFlavor \/ CancelDialog \/ CloseWindow

ExecuteSteps == SetEnvironment \/ ReadSourceArray \/ InsertSourceArray \/ SetCustomName \/ Launch

Next == \/ UserSteps \/ ExecuteSteps
        \/ \E t \in Threads : PrepareSteps(t)
        \/ \E t \in Pool : PoolDone(t)

Spec == Init /\ [][Next]_vars
-----------------------------------------------------------------------------
(* Properties.                                                             *)

Where == Places \cup {"gone"}

\* Every variable keeps its type.
TypeOK ==
    /\ cwd \in Where /\ hit \subseteq [at : Where, kept : BOOLEAN]
    /\ crowd \subseteq Threads /\ kept \subseteq Threads
    /\ git \in [Places -> {"none", "plain", "own"} \cup Sources]
    /\ DOMAIN head = FlavorTrees /\ DOMAIN file = FlavorTrees
    /\ pc \in [Threads -> Trees \cup {"idle", "parent", "plain", "visit", "origin", "back", "wipe",
                 "exists", "enter", "checkout", "clean", "pull", "leave", "prepared", "source",
                 "insert", "name", "launch"}]
    /\ entry \in [Threads -> Places \cup {""}]
    /\ url \in [Threads -> Sources \cup {""}] /\ origin \in [Threads -> Sources \cup {"", "own"}]
    /\ source \in Sources /\ cfg \in [name : Seq(STRING), on : SUBSET Options]
    /\ env \subseteq Options \X BOOLEAN /\ previous \subseteq Options
    /\ {second, shown, overlap, failed} \subseteq BOOLEAN /\ watched \in Pool \cup {"none"}
    /\ clicks \in 0..MaxClicks /\ edits \in 0..MaxEdits

\* "The guard below restores it on every exit path" (prepare_git_repo): when no
\* prepare runs the process is back where it was started, on every path through
\* the failures of the file system and of git - as long as no two prepares have
\* ever overlapped.
CwdRestored == ~overlap /\ Running = {} => cwd = "home"

\* A clone, a forced checkout and a clean of a prepare that was alone only ever run
\* in the build repository, wherever an earlier overlap left the process and
\* whatever failed before them but one thing: when a plain directory in the
\* repository's place could not be removed, git walks up, and the forced checkout
\* is that of the user's work tree the build directory lies in.
OwnCheckoutOnly == \A h \in hit : h.at = "repo" \/ (h.kept /\ h.at = "parent")

\* What is left of the page and the list at the click: for another flavor than the
\* first, the patches of the PKGBUILD alone, and the defaults.
Taken ==
    IF FlavorTree = "second"
    THEN [list |-> PatchList(head["second"]), on |-> FlavorDefaults(asked.page.on)]
    ELSE [list |-> asked.list, on |-> asked.page.on]

\* An Execute that printed no error launches the build of what the window showed at
\* the click, for the first flavor: a checkout of the selected source, with
\* upstream's sources and the listed patches and nothing left of earlier Executes,
\* under the custom name, in an environment with exactly the chosen options.  For
\* another flavor the user's patches and the options of the handler are lost.
\* Beyond being alone it takes that no plain directory was in the way, that no
\* earlier overlap left a clone in the repository, a prepare() below the first
\* line, and a pkgbase that is not already of the custom name's form.
BuildsWhatIsConfigured ==
    /\ pc["ui"] = "launch" /\ "ui" \notin crowd \cup kept /\ ~failed
    /\ FlavorTree \in RepoFlavors
    => LET up == head[FlavorTree]
           done == file[FlavorTree]
           name == asked.page.name
       IN /\ git["repo"] = source
          /\ up.prep => SourceArray(done) = NonPatches(SourceArray(up)) \o Taken.list
          /\ Inner(name, up.base) = {} =>
                 done.base = IF IsIdentity(name) THEN up.base ELSE Expand(name, up.base)
          /\ env = AllSetValues(source, Taken.on)

\* An Execute that finds its own last edits, because the prepare could not refresh
\* the checkout (a source without "master", a lock), and is asked for the same
\* changes nothing: arrays do not stack and the name is not wrapped again.  Listed
\* entries that do not end in .patch are not covered: they come back as sources.
RepeatIsStable ==
    [][/\ ~overlap /\ pc["ui"] \in {"insert", "name"} /\ pc'["ui"] # pc["ui"]
       /\ FlavorTree # "none" /\ last # NoEdit
       /\ last.file = file[FlavorTree]
       /\ last.list = list /\ ToSet(list) \subseteq Patches
       /\ last.name = cfg.name
       /\ pc["ui"] = "name" \/ orig = SourceArray(last.file)
       => UNCHANGED file]_vars

\* The lines that are not the source array's, with their numbers.
Foreign(f) ==
    [i \in {j \in DOMAIN f.head : f.head[j].k \in {"fopen", "stmt", "code"}} |-> f.head[i]]

AppendsArrays(f) == \E i \in DOMAIN f.head : f.head[i].k \in {"more", "fmore"}

\* The search for an array of an earlier Execute never takes a line that belongs to
\* something else, in whatever order the sections stand, unless the PKGBUILD opens
\* a multi-line array other than by name=( at column 0.
ForeignKept ==
    \A t \in FlavorTrees :
        file[t] # NoFile /\ ~AppendsArrays(head[t]) => Foreign(file[t]) = Foreign(head[t])
=============================================================================
