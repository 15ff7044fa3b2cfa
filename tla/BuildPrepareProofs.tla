--------------------------- MODULE BuildPrepareProofs ---------------------------
(***************************************************************************)
(* The working directory under prepare_git_repo and the PKGBUILDs under    *)
(* the edits of execute, proved for any number of pool threads, sources,   *)
(* PKGBUILDs, clicks and edits.                                            *)
(***************************************************************************)
EXTENDS BuildPrepare, PkgbuildProofs, TLAPS

USE DEF Goto

-----------------------------------------------------------------------------
\* Where a thread is inside prepare_git_repo, and outside it.
Preparing == Trees \cup {"parent", "plain", "visit", "origin", "back", "wipe", "exists", "enter",
                         "checkout", "clean", "pull", "leave"}
Outside == {"idle", "prepared", "source", "insert", "name", "launch"}

\* The places of a prepare that is alone from which a git command that writes is
\* run, with the directory it is run in.
Expected(place, dir) ==
    /\ place \in {"plain", "visit", "wipe", "exists"} => dir = "parent"
    /\ place \in {"checkout", "clean"} => dir = "repo"
    /\ place \notin {"nested", "stray"}

\* What it has found or made in the repository's place by then, unless a plain
\* directory could not be removed.
Whole(place, repo) ==
    /\ place \in {"visit", "origin", "back", "enter", "checkout", "clean"} =>
           repo \notin {"none", "plain"}
    /\ place = "exists" => repo # "plain"

\* Where the writing git commands of a prepare may run.
Allowed(h) == h.at = "repo" \/ (h.kept /\ h.at = "parent")

ThreadTypes ==
    /\ pc \in [Threads -> Preparing \cup Outside]
    /\ entry \in [Threads -> Places \cup {""}]
    /\ url \in [Threads -> Sources \cup {""}]
    /\ \A t \in Threads : pc[t] \in Preparing => url[t] \in Sources
    /\ origin \in [Threads -> Sources \cup {"", "own"}]
    /\ crowd \subseteq Threads /\ kept \subseteq Threads

TreeTypes ==
    /\ git \in [Places -> {"none", "plain", "own"} \cup Sources]
    /\ DOMAIN head = FlavorTrees /\ DOMAIN file = FlavorTrees
    /\ cwd \in Where /\ hit \subseteq [at : Where, kept : BOOLEAN]

WindowTypes ==
    /\ source \in Sources /\ cfg \in [name : Seq(STRING), on : SUBSET Options]
    /\ env \subseteq Options \X BOOLEAN /\ previous \subseteq Options
    /\ second \in BOOLEAN /\ shown \in BOOLEAN /\ watched \in Pool \cup {"none"}
    /\ clicks \in 0..MaxClicks /\ edits \in 0..MaxEdits

Flags == overlap \in BOOLEAN /\ failed \in BOOLEAN

Types == ThreadTypes /\ TreeTypes /\ WindowTypes /\ Flags

\* Until two overlap, one prepare is at work at most; it has saved the directory
\* the program was started in, and outside of it the process is there.
OneAtWork == ~ overlap => \A s, t \in Running : s = t
HomeSaved == ~ overlap => \A t \in Threads : pc[t] \in Preparing => entry[t] = "home"
HomeKept == ~ overlap /\ (\A t \in Threads : pc[t] \in Outside) => cwd = "home"

\* A thread that is not in the crowd has been alone since it began, wherever an
\* earlier overlap left the process.
AloneAtWork ==
    \A t \in Running \ crowd :
        Running = {t} /\ Expected(pc[t], cwd) /\ (t \in kept \/ Whole(pc[t], git["repo"]))

Placed == OneAtWork /\ HomeSaved /\ HomeKept /\ AloneAtWork /\ OwnCheckoutOnly

PrepareInv == Types /\ Placed

-----------------------------------------------------------------------------
LEMMA InvMeans == PrepareInv => TypeOK /\ CwdRestored /\ OwnCheckoutOnly
<1> SUFFICES ASSUME PrepareInv PROVE TypeOK /\ CwdRestored /\ OwnCheckoutOnly
  OBVIOUS
<1>1. {second, shown, overlap, failed} \subseteq BOOLEAN
  BY DEF PrepareInv, Types, WindowTypes, Flags
<1>2. TypeOK
  BY <1>1 DEF PrepareInv, Types, ThreadTypes, TreeTypes, WindowTypes, TypeOK, Preparing, Outside
<1>3. CwdRestored
  BY DEF PrepareInv, Placed, HomeKept, CwdRestored, Running, Outside
<1> QED
  BY <1>2, <1>3 DEF PrepareInv, Placed

LEMMA PrepareInitInv == Init => PrepareInv
<1> SUFFICES ASSUME Init PROVE PrepareInv
  OBVIOUS
<1>1. ThreadTypes
  BY DEF Init, ThreadTypes, Preparing, Outside, Trees
<1>2. TreeTypes
  <2>1. git \in [Places -> {"none", "plain", "own"} \cup Sources]
    BY DEF Init
  <2>2. cwd \in Where /\ hit \subseteq [at : Where, kept : BOOLEAN]
    BY DEF Init, Where, Places
  <2>3. DOMAIN head = FlavorTrees /\ DOMAIN file = FlavorTrees
    BY DEF Init
  <2> QED
    BY <2>1, <2>2, <2>3 DEF TreeTypes
<1>3. WindowTypes
  <2>1. source \in Sources
    BY PrepareAssumption DEF Init
  <2>2. 0 \in 0..MaxClicks /\ 0 \in 0..MaxEdits
    BY PrepareAssumption
  <2>3. second \in BOOLEAN /\ shown \in BOOLEAN
    BY DEF Init
  <2>4. NoCfg \in [name : Seq(STRING), on : SUBSET Options]
    BY DEF NoCfg
  <2> QED
    BY <2>1, <2>2, <2>3, <2>4 DEF Init, WindowTypes
<1>4. Flags
  BY DEF Init, Flags
<1>5. Running = {}
  BY DEF Init, Running
<1>6. Placed
  BY <1>5 DEF Init, Placed, OneAtWork, HomeSaved, HomeKept, AloneAtWork, OwnCheckoutOnly, Preparing,
              Trees
<1> QED
  BY <1>1, <1>2, <1>3, <1>4, <1>6 DEF PrepareInv, Types

-----------------------------------------------------------------------------
(* One thread moves.                                                       *)

\* Inside the prepare.
LEMMA PrepareMoves ==
    ASSUME PrepareInv, NEW t \in Threads, pc[t] \in Preparing, NEW q \in Preparing,
           pc' = [pc EXCEPT ![t] = q], UNCHANGED <<entry, crowd, overlap>>,
           t \notin crowd => Expected(q, cwd') /\ (t \in kept' \/ Whole(q, git'["repo"])),
           \A h \in hit' \ hit : Allowed(h)
    PROVE  Placed'
<1>1. /\ DOMAIN pc = Threads /\ "idle" \notin Preparing
      /\ Running' = Running /\ t \in Running
  BY ZenonT(30) DEF PrepareInv, Types, ThreadTypes, Running, Preparing, Trees
<1>2. OneAtWork'
  BY <1>1 DEF PrepareInv, Placed, OneAtWork
<1>3. HomeSaved'
  BY <1>1 DEF PrepareInv, Placed, HomeSaved
<1>4. HomeKept'
  <2>1. pc'[t] \notin Outside
    BY <1>1 DEF Outside, Preparing, Trees
  <2> QED
    BY <2>1 DEF HomeKept
<1>5. AloneAtWork'
  <2> SUFFICES ASSUME NEW s \in Running \ crowd
               PROVE  /\ Running = {s} /\ Expected(pc'[s], cwd')
                      /\ s \in kept' \/ Whole(pc'[s], git'["repo"])
    BY <1>1 DEF AloneAtWork
  <2>1. Running = {s}
    BY DEF PrepareInv, Placed, AloneAtWork
  <2>2. s = t /\ pc'[t] = q
    BY <1>1, <2>1
  <2> QED
    BY <2>1, <2>2
<1>6. OwnCheckoutOnly'
  BY DEF PrepareInv, Placed, OwnCheckoutOnly, Allowed
<1> QED
  BY <1>2, <1>3, <1>4, <1>5, <1>6 DEF Placed

\* Out of it.
LEMMA LeaveMoves ==
    ASSUME PrepareInv, NEW t \in Threads, Leave(t)
    PROVE  Placed'
<1>1. /\ DOMAIN pc = Threads /\ DOMAIN entry = Threads
      /\ pc' = [pc EXCEPT ![t] = "prepared"] /\ pc[t] = "leave"
      /\ entry' = [entry EXCEPT ![t] = ""]
      /\ UNCHANGED <<crowd, overlap>> /\ hit' = {}
  BY DEF Leave, PrepareInv, Types, ThreadTypes, histVars
<1>2. Running' = Running /\ t \in Running
  BY <1>1 DEF Running
<1>3. OneAtWork' /\ OwnCheckoutOnly'
  BY <1>1, <1>2 DEF PrepareInv, Placed, OneAtWork, OwnCheckoutOnly
<1>4. HomeSaved'
  BY <1>1 DEF PrepareInv, Placed, HomeSaved, Preparing, Trees
<1>5. HomeKept'
  <2>1. ~ overlap => entry[t] = "home"
    BY <1>1 DEF PrepareInv, Placed, HomeSaved, Preparing
  <2>2. entry[t] = "home" => cwd' = "home"
    BY DEF Leave, RestoredCwd, Trees
  <2> QED
    BY <1>1, <2>1, <2>2 DEF HomeKept
<1>6. AloneAtWork'
  <2> SUFFICES ASSUME NEW s \in Running \ crowd
               PROVE  Running = {s} /\ Expected(pc'[s], cwd') /\ Whole(pc'[s], git'["repo"])
    BY <1>1, <1>2 DEF AloneAtWork
  <2>1. Running = {s}
    BY DEF PrepareInv, Placed, AloneAtWork
  <2>2. s = t
    BY <1>2, <2>1
  <2> QED
    BY <1>1, <2>1, <2>2 DEF Expected, Whole
<1> QED
  BY <1>3, <1>4, <1>5, <1>6 DEF Placed

\* Outside of it: on, or to rest.
LEMMA OutsideMoves ==
    ASSUME PrepareInv, NEW t \in Threads, pc[t] \in Outside, pc[t] # "idle",
           NEW q \in Outside, pc' = [pc EXCEPT ![t] = q],
           crowd' = IF q = "idle" THEN crowd \ {t} ELSE crowd,
           UNCHANGED <<cwd, entry, overlap, hit>>
    PROVE  Placed'
<1>1. DOMAIN pc = Threads /\ Running' \subseteq Running /\ t \in Running
  BY DEF PrepareInv, Types, ThreadTypes, Running
<1>2. OneAtWork' /\ OwnCheckoutOnly'
  BY <1>1 DEF PrepareInv, Placed, OneAtWork, OwnCheckoutOnly
<1>3. HomeSaved'
  BY <1>1 DEF PrepareInv, Placed, HomeSaved, Preparing, Trees, Outside
<1>4. HomeKept'
  BY <1>1 DEF PrepareInv, Placed, HomeKept
<1>5. AloneAtWork'
  <2> SUFFICES ASSUME NEW s \in Running' \ crowd'
               PROVE  Running' = {s} /\ Expected(pc'[s], cwd') /\ Whole(pc'[s], git'["repo"])
    BY DEF AloneAtWork
  <2>1. s \notin crowd
    BY <1>1 DEF Running
  <2>2. Running = {s}
    BY <1>1, <2>1 DEF PrepareInv, Placed, AloneAtWork
  <2> QED
    BY <1>1, <2>2 DEF Expected, Whole, Outside
<1> QED
  BY <1>2, <1>3, <1>4, <1>5 DEF Placed

\* In from rest: alone when nobody is at work, and in the crowd otherwise.
LEMMA BeginMoves ==
    ASSUME PrepareInv, NEW t \in Threads, pc[t] = "idle", BeginPrepare(t),
           pc' = [pc EXCEPT ![t] = "parent"], UNCHANGED <<cwd, hit>>
    PROVE  Placed'
<1>1. DOMAIN pc = Threads /\ Running' = Running \cup {t} /\ t \notin Running
  BY DEF PrepareInv, Types, ThreadTypes, Running
<1>2. CASE Running = {}
  <2>1. crowd' = crowd /\ (overlap' <=> overlap) /\ Running' = {t}
    BY <1>1, <1>2 DEF BeginPrepare
  <2>2. \A s \in Threads : pc[s] = "idle"
    BY <1>2 DEF Running
  <2>3. ~ overlap => cwd = "home"
    BY <2>2 DEF PrepareInv, Placed, HomeKept, Outside
  <2>4. HomeSaved'
    <3> SUFFICES ASSUME ~ overlap, NEW s \in Threads, pc'[s] \in Preparing
                 PROVE  entry'[s] = "home"
      BY <2>1 DEF HomeSaved
    <3>1. s = t
      BY <1>1, <2>2 DEF Preparing, Trees
    <3> QED
      BY <2>3, <3>1 DEF BeginPrepare, PrepareInv, Types, ThreadTypes
  <2>5. HomeKept'
    BY <1>1 DEF HomeKept, Outside
  <2>6. AloneAtWork'
    BY <1>1, <2>1 DEF AloneAtWork, Expected, Whole
  <2>7. OneAtWork' /\ OwnCheckoutOnly'
    BY <2>1 DEF OneAtWork, PrepareInv, Placed, OwnCheckoutOnly
  <2> QED
    BY <2>4, <2>5, <2>6, <2>7 DEF Placed
<1>3. CASE Running # {}
  <2>1. overlap' /\ crowd' = crowd \cup Running \cup {t}
    BY <1>3 DEF BeginPrepare
  <2>2. Running' \ crowd' = {}
    BY <1>1, <2>1
  <2> QED
    BY <2>1, <2>2 DEF Placed, OneAtWork, HomeSaved, HomeKept, AloneAtWork, OwnCheckoutOnly, PrepareInv
<1> QED
  BY <1>2, <1>3

\* No thread moves.
LEMMA NobodyMoves ==
    ASSUME PrepareInv, UNCHANGED <<pc, cwd, git, entry, crowd, kept, overlap, hit>>
    PROVE  Placed'
BY DEF PrepareInv, Placed, OneAtWork, HomeSaved, HomeKept, AloneAtWork, OwnCheckoutOnly, Running

-----------------------------------------------------------------------------
(* The steps of prepare_git_repo.                                          *)

LEMMA WindowStays ==
    ASSUME WindowTypes, UNCHANGED <<source, cfg, env, previous, second, shown, watched, clicks, edits>>
    PROVE  WindowTypes'
BY DEF WindowTypes

\* A thread inside the prepare moves on in it, or fails and goes to leave.
LEMMA MoveTypes ==
    ASSUME ThreadTypes, Flags, NEW t \in Threads, pc[t] \in Preparing, NEW q \in Preparing,
           pc' = [pc EXCEPT ![t] = q], UNCHANGED <<entry, url, origin, crowd, overlap>>,
           kept' = kept \/ kept' = kept \cup {t}, Fails(t) \/ UNCHANGED failed
    PROVE  ThreadTypes' /\ Flags'
<1>1. ThreadTypes'
  BY DEF ThreadTypes
<1>2. failed' \in BOOLEAN
  BY DEF Flags, Fails
<1> QED
  BY <1>1, <1>2 DEF Flags

LEMMA RemoveTypes == ASSUME TreeTypes, RemoveRepo, UNCHANGED hit PROVE TreeTypes'
BY DEF TreeTypes, RemoveRepo, NoFiles, Where, Places, Trees

LEMMA CommitTypes ==
    ASSUME NEW p, NEW u \in Upstreams, DOMAIN head = FlavorTrees, CommitIn(p, u)
    PROVE  DOMAIN head' = FlavorTrees /\ DOMAIN file' = FlavorTrees
BY DEF CommitIn, Commit, CheckedOut

\* What a thread's git command adds to the history.
LEMMA HitTypes ==
    ASSUME TreeTypes, NEW t, NEW p \in Where, Hits(t, p)
    PROVE  /\ hit' \subseteq [at : Where, kept : BOOLEAN]
           /\ \A h \in hit' \ hit : h.at = p /\ t \notin crowd /\ (t \in kept => h.kept)
<1> DEFINE remained == t \in kept
           h == [at |-> p, kept |-> remained]
<1>1. remained \in BOOLEAN /\ (t \in kept => remained)
  OBVIOUS
<1>2. hit' = hit \/ (t \notin crowd /\ hit' = hit \cup {h})
  BY DEF Hits
<1> HIDE DEF remained
<1>3. h \in [at : Where, kept : BOOLEAN] /\ h.at = p /\ (t \in kept => h.kept)
  BY <1>1
<1> HIDE DEF h
<1> QED
  BY <1>2, <1>3 DEF TreeTypes

\* A command that is run in the build repository acts on it, or, where it is no
\* checkout, on the work tree the build directory lies in.
LEMMA RepoWorkTree ==
    ASSUME cwd = "repo"
    PROVE  /\ IsCheckout("repo") => WorkTree = "repo"
           /\ WorkTree \in {"repo", "parent", "none"}
<1>1. Around("repo") = "parent" /\ Around("parent") = "none" /\ "none" \notin Places
  BY DEF Around, Places, Trees
<1>2. ~ IsCheckout("none")
  BY <1>1 DEF IsCheckout
<1> QED
  BY <1>1, <1>2 DEF WorkTree

\* Another work tree than the build repository's has an origin of its own.
LEMMA OriginKnown ==
    ASSUME TreeTypes
    PROVE  Origin \in Sources \cup {"", "own"}
<1>1. WorkTree = "none" \/ IsCheckout(WorkTree)
  BY Zenon DEF WorkTree
<1>2. CASE WorkTree = "none"
  BY <1>2 DEF Origin
<1>3. CASE WorkTree # "none"
  <2>1. WorkTree \in Places /\ git[WorkTree] \notin {"none", "plain"}
    BY <1>1, <1>3 DEF IsCheckout
  <2> QED
    BY <1>3, <2>1 DEF Origin, TreeTypes
<1> QED
  BY <1>2, <1>3

LEMMA PrepareStepsInv ==
    ASSUME PrepareInv, NEW t \in Threads, PrepareSteps(t)
    PROVE  PrepareInv'
<1> USE DEF uiVars, winVars, counts, treeVars, histVars, cwdVars
<1>t. ThreadTypes /\ TreeTypes /\ WindowTypes /\ Flags
  BY DEF PrepareInv, Types
<1>w. UNCHANGED <<source, cfg, env, previous, second, shown, watched, clicks, edits>>
  BY DEF PrepareSteps, EnterParent, DropPlain, VisitRepo, ReadOrigin, BackToParent, WipeRepo,
         StartClone, EndClone, EnterRepo, Checkout, Clean, Pull, Leave
<1>x. WindowTypes'
  BY <1>t, <1>w, WindowStays
<1>a. t \notin crowd /\ pc[t] # "idle" =>
          Expected(pc[t], cwd) /\ (t \in kept \/ Whole(pc[t], git["repo"]))
  BY DEF PrepareInv, Placed, AloneAtWork, Running
<1>p. {"parent", "repo", "home"} \subseteq Where /\ {"repo", "nested", "stray"} \subseteq Places
      /\ {"repo", "nested", "stray"} \subseteq Where
  BY DEF Where, Places, Trees
<1> DEFINE Moves(q) ==
        /\ pc[t] \in Preparing /\ q \in Preparing
        /\ pc' = [pc EXCEPT ![t] = q]
        /\ UNCHANGED <<entry, url, origin, crowd, overlap>>
        /\ kept' = kept \/ kept' = kept \cup {t}
        /\ Fails(t) \/ UNCHANGED failed
        /\ t \notin crowd => Expected(q, cwd') /\ (t \in kept' \/ Whole(q, git'["repo"]))
        /\ \A h \in hit' \ hit : Allowed(h)
        /\ TreeTypes'
<1>m. ASSUME NEW q, Moves(q) PROVE PrepareInv'
  <2>1. ThreadTypes' /\ Flags'
    BY <1>m, <1>t, MoveTypes
  <2>2. Placed'
    BY <1>m, PrepareMoves
  <2> QED
    BY <1>m, <1>x, <2>1, <2>2 DEF PrepareInv, Types
<1>1. CASE EnterParent(t)
  <2>1. TreeTypes'
    BY <1>1, <1>t, <1>p DEF EnterParent, TreeTypes
  <2>2. CASE cwd' = "parent" /\ Goto(t, "plain") /\ UNCHANGED failed
    <3> Moves("plain")
      BY <1>1, <2>1, <2>2 DEF EnterParent, Preparing, Expected, Whole
    <3> QED
      BY <1>m
  <2>3. CASE Fails(t) /\ Goto(t, AfterNoParent) /\ UNCHANGED cwd
    <3> Moves("leave")
      BY <1>1, <2>1, <2>3 DEF EnterParent, AfterNoParent, Preparing, Expected, Whole
    <3> QED
      BY <1>m
  <2> QED
    BY <1>1, <2>2, <2>3 DEF EnterParent
<1>2. CASE DropPlain(t)
  <2>1. TreeTypes'
    BY <1>2, <1>t, RemoveTypes DEF DropPlain, TreeTypes, NoFiles
  <2> DEFINE q == IF IsCheckout("repo") THEN "visit" ELSE "exists"
  <2>2. t \notin crowd => cwd' = "parent"
    BY <1>2, <1>a DEF DropPlain, RemoveRepo, Expected
  <2>3. t \in kept' \/ Whole(q, git'["repo"])
    <3>1. CASE git["repo"] # "plain" /\ UNCHANGED git
      BY <3>1, <1>p DEF IsCheckout, Whole
    <3>2. CASE git["repo"] = "plain" /\ RemoveRepo
      <4>1. git'["repo"] = "none" /\ ~ IsCheckout("repo")
        BY <1>t, <1>p, <3>2 DEF RemoveRepo, TreeTypes, IsCheckout
      <4> QED
        BY <4>1 DEF Whole
    <3>3. CASE kept' = kept \cup {t}
      BY <3>3
    <3> QED
      BY <1>2, <3>1, <3>2, <3>3 DEF DropPlain
  <2>4. /\ pc[t] = "plain" /\ pc' = [pc EXCEPT ![t] = q] /\ q \in Preparing
        /\ UNCHANGED <<entry, url, origin, crowd, overlap, hit, failed>>
        /\ kept' = kept \/ kept' = kept \cup {t}
    BY <1>2 DEF DropPlain, Preparing
  <2>5. "plain" \in Preparing /\ (t \notin crowd => Expected(q, cwd'))
    BY <2>2 DEF Preparing, Expected
  <2> HIDE DEF q
  <2>6. Moves(q)
    BY <2>1, <2>3, <2>4, <2>5
  <2> QED
    BY <1>m, <2>6
<1>3. CASE VisitRepo(t)
  <2>1. TreeTypes'
    BY <1>3, <1>t, <1>p DEF VisitRepo, TreeTypes
  <2>2. CASE Goto(t, "exists") /\ UNCHANGED cwd
    <3> Moves("exists")
      BY <1>3, <1>a, <2>1, <2>2 DEF VisitRepo, Preparing, Expected, Whole
    <3> QED
      BY <1>m
  <2>3. CASE Goto(t, "origin") /\ cwd' = "repo"
    <3> Moves("origin")
      BY <1>3, <1>a, <2>1, <2>3 DEF VisitRepo, Preparing, Expected, Whole
    <3> QED
      BY <1>m
  <2> QED
    BY <1>3, <2>2, <2>3 DEF VisitRepo
<1>4. CASE ReadOrigin(t)
  <2>1. origin' \in [Threads -> Sources \cup {"", "own"}]
    BY <1>4, <1>t, OriginKnown DEF ReadOrigin, ThreadTypes
  <2>2. ThreadTypes'
    BY <1>4, <1>t, <2>1 DEF ReadOrigin, ThreadTypes, Preparing
  <2>3. TreeTypes' /\ Flags'
    BY <1>4, <1>t DEF ReadOrigin, TreeTypes, Flags
  <2>4. Placed'
    BY <1>4, <1>a, PrepareMoves DEF ReadOrigin, Preparing, Expected, Whole
  <2> QED
    BY <1>x, <2>2, <2>3, <2>4 DEF PrepareInv, Types
<1>5. CASE BackToParent(t)
  <2>1. TreeTypes'
    BY <1>5, <1>t, <1>p DEF BackToParent, TreeTypes
  <2> DEFINE q == IF SourceChanged(t) THEN "wipe" ELSE "exists"
  <2>2. Moves(q)
    BY <1>5, <1>a, <2>1 DEF BackToParent, Preparing, Expected, Whole
  <2> QED
    BY <1>m, <2>2
<1>6. CASE WipeRepo(t)
  <2>1. CASE RemoveRepo /\ Goto(t, "exists") /\ UNCHANGED failed
    <3>1. TreeTypes'
      BY <1>6, <1>t, <2>1, RemoveTypes DEF WipeRepo
    <3>2. t \notin crowd => cwd' = "parent"
      BY <1>6, <1>a, <2>1 DEF WipeRepo, RemoveRepo, Expected
    <3>3. git'["repo"] = "none"
      BY <1>t, <1>p, <2>1 DEF RemoveRepo, TreeTypes
    <3> Moves("exists")
      BY <1>6, <2>1, <3>1, <3>2, <3>3 DEF WipeRepo, Preparing, Expected, Whole
    <3> QED
      BY <1>m
  <2>2. CASE Fails(t) /\ Goto(t, "leave") /\ UNCHANGED <<treeVars, cwd>>
    <3>1. TreeTypes'
      BY <1>6, <1>t, <2>2 DEF WipeRepo, TreeTypes
    <3> Moves("leave")
      BY <1>6, <2>2, <3>1 DEF WipeRepo, Preparing, Expected, Whole
    <3> QED
      BY <1>m
  <2> QED
    BY <1>6, <2>1, <2>2 DEF WipeRepo
<1>7. CASE StartClone(t)
  <2>0. pc[t] = "exists" /\ UNCHANGED <<cwdVars, head, file, url, origin, crowd, kept, overlap>>
    BY <1>7 DEF StartClone
  <2>1. CASE git["repo"] # "none" /\ Goto(t, "enter") /\ UNCHANGED <<git, hit, failed>>
    <3>1. TreeTypes'
      BY <2>0, <2>1, <1>t DEF TreeTypes
    <3> Moves("enter")
      BY <2>0, <2>1, <1>a, <3>1 DEF Preparing, Expected, Whole
    <3> QED
      BY <1>m
  <2>2. CASE /\ CloneTarget # "none" /\ git[CloneTarget] = "none"
             /\ git' = [git EXCEPT ![CloneTarget] = "plain"]
             /\ Hits(t, CloneTarget)
             /\ Goto(t, CloneTarget)
             /\ UNCHANGED failed
    <3>1. CloneTarget \in Trees /\ CloneTarget \in Where
      BY <2>2 DEF CloneTarget, Trees, Where, Places
    <3>2. TreeTypes'
      BY <2>0, <2>2, <3>1, <1>t, <1>p, HitTypes DEF TreeTypes, Trees
    <3>3. t \notin crowd => CloneTarget = "repo"
      BY <2>0, <1>a DEF CloneTarget, Expected
    <3>4. \A h \in hit' \ hit : Allowed(h)
      BY <1>t, <2>2, <3>1, <3>3, HitTypes DEF Allowed
    <3>5. t \notin crowd => Expected(CloneTarget, cwd') /\ Whole(CloneTarget, git'["repo"])
      BY <3>3 DEF Expected, Whole
    <3> Moves(CloneTarget)
      BY <2>0, <2>2, <3>1, <3>2, <3>4, <3>5 DEF Preparing
    <3> QED
      BY <1>m
  <2>3. CASE Fails(t) /\ Goto(t, "leave") /\ UNCHANGED <<git, hit>>
    <3>1. TreeTypes'
      BY <2>0, <2>3, <1>t DEF TreeTypes
    <3> Moves("leave")
      BY <2>0, <2>3, <3>1 DEF Preparing, Expected, Whole
    <3> QED
      BY <1>m
  <2> QED
    BY <1>7, <2>1, <2>2, <2>3 DEF StartClone
<1>8. CASE EndClone(t)
  <2>0. pc[t] \in Trees /\ UNCHANGED <<cwdVars, url, origin, crowd, kept, overlap, hit>>
    BY <1>8 DEF EndClone
  <2>1. pc[t] \in Preparing /\ url[t] \in Sources /\ pc[t] \in Places
    BY <2>0, <1>t DEF ThreadTypes, Preparing, Places
  <2>2. ASSUME NEW u \in Upstreams, git' = [git EXCEPT ![pc[t]] = url[t]], CommitIn(pc[t], u),
               Goto(t, "enter"), UNCHANGED failed
        PROVE  PrepareInv'
    <3>1. TreeTypes'
      BY <2>0, <2>1, <2>2, <1>t, CommitTypes DEF TreeTypes
    <3>2. t \notin crowd => git'["repo"] \in Sources
      <4>1. t \notin crowd => pc[t] = "repo"
        BY <2>0, <1>a DEF Expected, Trees
      <4> QED
        BY <2>1, <2>2, <1>t, <4>1 DEF TreeTypes
    <3>3. {"none", "plain"} \cap Sources = {}
      BY NameAssumption
    <3>4. t \notin crowd => Whole("enter", git'["repo"]) /\ Expected("enter", cwd')
      BY <3>2, <3>3 DEF Whole, Expected
    <3> Moves("enter")
      BY <2>0, <2>1, <2>2, <3>1, <3>4 DEF Preparing
    <3> QED
      BY <1>m
  <2>3. CASE /\ git' = [git EXCEPT ![pc[t]] = IF @ = "plain" THEN "none" ELSE @]
             /\ Fails(t) /\ Goto(t, "leave")
             /\ UNCHANGED <<head, file>>
    <3>1. TreeTypes'
      BY <2>0, <2>1, <2>3, <1>t DEF TreeTypes
    <3> Moves("leave")
      BY <2>0, <2>1, <2>3, <3>1 DEF Preparing, Expected, Whole
    <3> QED
      BY <1>m
  <2> QED
    BY <1>8, <2>2, <2>3 DEF EndClone
<1>9. CASE EnterRepo(t)
  <2>1. TreeTypes'
    BY <1>9, <1>t, <1>p DEF EnterRepo, TreeTypes
  <2>2. CASE Fails(t) /\ Goto(t, "leave") /\ UNCHANGED cwd
    <3> Moves("leave")
      BY <1>9, <2>1, <2>2 DEF EnterRepo, Preparing, Expected, Whole
    <3> QED
      BY <1>m
  <2>3. CASE cwd' = "repo" /\ Goto(t, "checkout") /\ UNCHANGED failed
    <3> Moves("checkout")
      BY <1>9, <1>a, <2>1, <2>3 DEF EnterRepo, Preparing, Expected, Whole
    <3> QED
      BY <1>m
  <2> QED
    BY <1>9, <2>2, <2>3 DEF EnterRepo
<1>10. CASE Checkout(t)
  <2>0. pc[t] = "checkout" /\ UNCHANGED <<cwdVars, git, head, url, origin, crowd, kept, overlap>>
    BY <1>10 DEF Checkout
  <2>1. CASE /\ WorkTree # "none" /\ Hits(t, WorkTree) /\ Goto(t, "clean") /\ UNCHANGED failed
             /\ file' = CheckedOut(WorkTree, head)
    <3>1. WorkTree \in Where
      BY <2>1 DEF WorkTree, IsCheckout, Where
    <3>2. TreeTypes'
      BY <2>0, <2>1, <3>1, <1>t, HitTypes DEF TreeTypes, CheckedOut
    <3>3. \A h \in hit' \ hit : Allowed(h)
      <4> SUFFICES ASSUME NEW h \in hit' \ hit PROVE Allowed(h)
        OBVIOUS
      <4>1. h.at = WorkTree /\ t \notin crowd /\ (t \in kept => h.kept)
        BY <1>t, <2>1, <3>1, HitTypes
      <4>2. cwd = "repo" /\ (t \in kept \/ IsCheckout("repo"))
        BY <2>0, <4>1, <1>a, <1>p DEF Expected, Whole, IsCheckout
      <4> QED
        BY <2>1, <4>1, <4>2, RepoWorkTree DEF Allowed
    <3> Moves("clean")
      BY <2>0, <2>1, <1>a, <3>2, <3>3 DEF Preparing, Expected, Whole
    <3> QED
      BY <1>m
  <2>2. CASE Fails(t) /\ Goto(t, "leave") /\ UNCHANGED <<file, hit>>
    <3>1. TreeTypes'
      BY <2>0, <2>2, <1>t DEF TreeTypes
    <3> Moves("leave")
      BY <2>0, <2>2, <3>1 DEF Preparing, Expected, Whole
    <3> QED
      BY <1>m
  <2> QED
    BY <1>10, <2>1, <2>2 DEF Checkout
<1>11. CASE Clean(t)
  <2>0. pc[t] = "clean" /\ UNCHANGED <<cwdVars, git, url, origin, crowd, kept, overlap>>
        /\ (NoFiles \/ UNCHANGED <<head, file>>)
    BY <1>11 DEF Clean
  <2>1. CASE Hits(t, cwd) /\ Goto(t, "pull") /\ UNCHANGED failed
    <3>1. TreeTypes'
      BY <2>0, <2>1, <1>t, HitTypes DEF TreeTypes, NoFiles
    <3>2. \A h \in hit' \ hit : Allowed(h)
      <4> SUFFICES ASSUME NEW h \in hit' \ hit PROVE Allowed(h)
        OBVIOUS
      <4>1. h.at = cwd /\ t \notin crowd
        BY <1>t, <2>1, HitTypes DEF TreeTypes
      <4>2. cwd = "repo"
        BY <2>0, <4>1, <1>a DEF Expected
      <4> QED
        BY <4>1, <4>2 DEF Allowed
    <3> Moves("pull")
      BY <2>0, <2>1, <3>1, <3>2 DEF Preparing, Expected, Whole
    <3> QED
      BY <1>m
  <2>2. CASE Fails(t) /\ Goto(t, "leave") /\ UNCHANGED hit
    <3>1. TreeTypes'
      BY <2>0, <2>2, <1>t DEF TreeTypes, NoFiles
    <3> Moves("leave")
      BY <2>0, <2>2, <3>1 DEF Preparing, Expected, Whole
    <3> QED
      BY <1>m
  <2> QED
    BY <1>11, <2>1, <2>2 DEF Clean
<1>12. CASE Pull(t)
  <2>1. TreeTypes'
    BY <1>12, <1>t, CommitTypes DEF Pull, TreeTypes
  <2> Moves("leave")
    BY <1>12, <2>1 DEF Pull, Preparing, Expected, Whole
  <2> QED
    BY <1>m
<1>13. CASE Leave(t)
  <2>1. ThreadTypes'
    BY <1>13, <1>t DEF Leave, ThreadTypes, Preparing, Outside, Trees
  <2>2. TreeTypes'
    <3>1. cwd' \in Where
      BY <1>13, <1>t DEF Leave, RestoredCwd, ThreadTypes, TreeTypes, Where
    <3> QED
      BY <1>13, <1>t, <3>1 DEF Leave, TreeTypes
  <2>3. Flags'
    BY <1>13, <1>t DEF Leave, Flags
  <2>4. Placed'
    BY <1>13, LeaveMoves
  <2> QED
    BY <1>x, <2>1, <2>2, <2>3, <2>4 DEF PrepareInv, Types
<1> QED
  BY <1>1, <1>2, <1>3, <1>4, <1>5, <1>6, <1>7, <1>8, <1>9, <1>10, <1>11, <1>12, <1>13
     DEF PrepareSteps

-----------------------------------------------------------------------------
(* The user, and the rest of Configure and Execute.                        *)

LEMMA TreesStay ==
    ASSUME TreeTypes, UNCHANGED <<git, head, cwd, hit>>, DOMAIN file' = FlavorTrees
    PROVE  TreeTypes'
BY DEF TreeTypes

LEMMA BeginTypes ==
    ASSUME ThreadTypes, Flags, TreeTypes, NEW t \in Threads, BeginPrepare(t), source' \in Sources,
           pc' = [pc EXCEPT ![t] = "parent"], UNCHANGED <<origin, kept>>
    PROVE  ThreadTypes'
<1>1. pc' \in [Threads -> Preparing \cup Outside]
  BY DEF ThreadTypes, Preparing
<1>2. entry' \in [Threads -> Places \cup {""}]
  BY DEF ThreadTypes, TreeTypes, BeginPrepare, Where
<1>3. /\ url' \in [Threads -> Sources \cup {""}]
      /\ \A s \in Threads : pc'[s] \in Preparing => url'[s] \in Sources
  BY DEF ThreadTypes, BeginPrepare
<1>4. crowd' \subseteq Threads
  BY DEF ThreadTypes, BeginPrepare, Running
<1> QED
  BY <1>1, <1>2, <1>3, <1>4 DEF ThreadTypes

LEMMA ConfigureInv ==
    ASSUME PrepareInv, NEW t \in Pool, NEW s \in Sources, Configure(t, s)
    PROVE  PrepareInv'
<1> USE DEF Configure, treeVars, uiVars
<1>t. ThreadTypes /\ TreeTypes /\ WindowTypes /\ Flags /\ t \in Threads
  BY DEF PrepareInv, Types, Threads
<1>1. ThreadTypes'
  BY <1>t, BeginTypes
<1>2. TreeTypes'
  BY <1>t DEF TreeTypes
<1>3. clicks' \in 0..MaxClicks
  BY <1>t, PrepareAssumption DEF WindowTypes
<1>4. WindowTypes'
  BY <1>t, <1>3 DEF WindowTypes
<1>5. Flags'
  BY <1>t DEF Flags, BeginPrepare
<1>6. Placed'
  BY <1>t, BeginMoves
<1> QED
  BY <1>1, <1>2, <1>4, <1>5, <1>6 DEF PrepareInv, Types

LEMMA ExecuteInv ==
    ASSUME PrepareInv, NEW s \in Sources, NEW page \in Pages, Execute(s, page)
    PROVE  PrepareInv'
<1> USE DEF Execute, treeVars, winVars
<1>t. ThreadTypes /\ TreeTypes /\ WindowTypes /\ Flags /\ "ui" \in Threads
  BY DEF PrepareInv, Types, Threads
<1>1. ThreadTypes'
  BY <1>t, BeginTypes
<1>2. TreeTypes'
  BY <1>t DEF TreeTypes
<1>3. clicks' \in 0..MaxClicks
  BY <1>t, PrepareAssumption DEF WindowTypes
<1>4. WindowTypes'
  <2>1. cfg' \in [name : Seq(STRING), on : SUBSET Options]
    BY PrepareAssumption
  <2>2. UNCHANGED <<env, previous, second, shown, watched, edits>> /\ source' \in Sources
    OBVIOUS
  <2> QED
    BY <1>t, <1>3, <2>1, <2>2 DEF WindowTypes
<1>5. Flags'
  BY <1>t DEF Flags, BeginPrepare
<1>6. Placed'
  BY <1>t, BeginMoves
<1> QED
  BY <1>1, <1>2, <1>4, <1>5, <1>6 DEF PrepareInv, Types

\* The window's own clicks move no thread.
LEMMA WindowInv ==
    ASSUME PrepareInv,
           \/ \E e \in Entries : AddEntry(e)
           \/ RemoveEntry \/ ResetList \/ SelectFlavor \/ CancelDialog \/ CloseWindow
    PROVE  PrepareInv'
<1> USE DEF AddEntry, RemoveEntry, ResetList, SelectFlavor, CancelDialog, CloseWindow, UserEdit,
            cwdVars, treeVars, uiVars, winVars, histVars, counts
<1>t. ThreadTypes /\ TreeTypes /\ WindowTypes /\ Flags
  BY DEF PrepareInv, Types
<1>1. ThreadTypes'
  BY <1>t DEF ThreadTypes
<1>2. TreeTypes' /\ Flags'
  BY <1>t DEF TreeTypes, Flags
<1>3. edits' \in 0..MaxEdits /\ clicks' \in 0..MaxClicks
  BY <1>t, PrepareAssumption DEF WindowTypes
<1>4. second' \in BOOLEAN /\ shown' \in BOOLEAN /\ watched' \in Pool \cup {"none"}
  BY <1>t DEF WindowTypes
<1>5. UNCHANGED <<source, cfg, env, previous>>
  OBVIOUS
<1>6. WindowTypes'
  BY <1>t, <1>3, <1>4, <1>5 DEF WindowTypes
<1>7. Placed'
  BY NobodyMoves
<1> QED
  BY <1>1, <1>2, <1>6, <1>7 DEF PrepareInv, Types

\* A thread that is out of the prepare goes on, or rests.
LEMMA OutsideTypes ==
    ASSUME ThreadTypes, NEW t \in Threads, NEW q \in Outside, pc' = [pc EXCEPT ![t] = q],
           crowd' \subseteq crowd, kept' \subseteq kept, UNCHANGED <<entry, url, origin>>
    PROVE  ThreadTypes'
BY DEF ThreadTypes, Preparing, Outside, Trees

LEMMA PoolDoneInv ==
    ASSUME PrepareInv, NEW t \in Pool, PoolDone(t)
    PROVE  PrepareInv'
<1> USE DEF PoolDone, Rest, cwdVars, treeVars, winVars, counts
<1>t. ThreadTypes /\ TreeTypes /\ WindowTypes /\ Flags /\ t \in Threads
  BY DEF PrepareInv, Types, Threads
<1>q. pc[t] \in Outside /\ "idle" \in Outside /\ UNCHANGED cfg
  BY PrepareAssumption DEF Outside
<1>1. ThreadTypes'
  BY <1>t, <1>q, OutsideTypes
<1>2. TreeTypes' /\ Flags'
  BY <1>t DEF TreeTypes, Flags
<1>3. WindowTypes'
  <2>1. second' \in BOOLEAN
    OBVIOUS
  <2>2. shown' \in BOOLEAN /\ watched' \in Pool \cup {"none"}
    BY <1>t DEF WindowTypes
  <2>3. UNCHANGED <<source, cfg, env, previous, clicks, edits>>
    BY <1>q
  <2> QED
    BY <1>t, <2>1, <2>2, <2>3 DEF WindowTypes
<1>4. Placed'
  BY <1>t, <1>q, OutsideMoves
<1> QED
  BY <1>1, <1>2, <1>3, <1>4 DEF PrepareInv, Types

\* The options that are set are those the source offers.
LEMMA SetOptions ==
    ASSUME WindowTypes, NEW on
    PROVE  /\ AllSetValues(source, on) \subseteq Options \X BOOLEAN
           /\ Names1(AllSetValues(source, on)) \subseteq Options
<1>1. Offered[source] \subseteq Options
  BY PrepareAssumption DEF WindowTypes
<1>2. AllSetValues(source, on) \subseteq Options \X BOOLEAN
  <2> SUFFICES ASSUME NEW o \in Offered[source] PROVE <<o, o \in on>> \in Options \X BOOLEAN
    BY DEF AllSetValues
  <2>1. (o \in on) \in BOOLEAN
    OBVIOUS
  <2> DEFINE chosen == o \in on
  <2>2. chosen \in BOOLEAN
    BY <2>1
  <2> HIDE DEF chosen
  <2>3. <<o, chosen>> \in Options \X BOOLEAN
    BY <1>1, <2>2
  <2> QED
    BY <2>3 DEF chosen
<1>3. \A v \in Options \X BOOLEAN : v[1] \in Options
  OBVIOUS
<1> QED
  BY <1>2, <1>3 DEF Names1

LEMMA RefilledType ==
    ASSUME WindowTypes
    PROVE  Refilled \in [name : Seq(STRING), on : SUBSET Options] /\ Refilled.name = cfg.name
<1>1. FlavorDefaults(cfg.on) \in SUBSET Options
  BY PrepareAssumption DEF FlavorDefaults, WindowTypes
<1> QED
  BY <1>1 DEF Refilled, WindowTypes

LEMMA ExecuteStepsInv ==
    ASSUME PrepareInv, ExecuteSteps
    PROVE  PrepareInv'
<1> USE DEF Rest, cwdVars, treeVars, uiVars, winVars, counts, histVars
<1>t. ThreadTypes /\ TreeTypes /\ WindowTypes /\ Flags /\ "ui" \in Threads
  BY DEF PrepareInv, Types, Threads
<1>o. {"idle", "prepared", "source", "insert", "name", "launch"} = Outside
  BY DEF Outside
<1> DEFINE Goes(q) ==
        /\ q \in Outside /\ pc["ui"] \in Outside /\ pc["ui"] # "idle"
        /\ pc' = [pc EXCEPT !["ui"] = q]
        /\ crowd' = IF q = "idle" THEN crowd \ {"ui"} ELSE crowd
        /\ kept' \subseteq kept
        /\ UNCHANGED <<cwd, entry, overlap, hit, url, origin, git, head>>
        /\ DOMAIN file' = FlavorTrees
        /\ Fails("ui") \/ UNCHANGED failed
        /\ WindowTypes'
<1>g. ASSUME NEW q, Goes(q) PROVE PrepareInv'
  <2>1. ThreadTypes'
    BY <1>g, <1>t, OutsideTypes
  <2>2. TreeTypes'
    BY <1>g, <1>t, TreesStay
  <2>3. Flags'
    BY <1>g, <1>t DEF Flags, Fails
  <2>4. Placed'
    BY <1>g, <1>t, OutsideMoves
  <2> QED
    BY <1>g, <2>1, <2>2, <2>3, <2>4 DEF PrepareInv, Types
<1>n. NoCfg \in [name : Seq(STRING), on : SUBSET Options]
  BY DEF NoCfg
<1>1. CASE SetEnvironment
  <2>0. /\ pc["ui"] = "prepared" /\ second' \in BOOLEAN
        /\ UNCHANGED <<cwd, entry, overlap, hit, url, origin, git, head, file, failed>>
        /\ UNCHANGED <<source, shown, watched, clicks, edits>>
    BY <1>1 DEF SetEnvironment, RefreshFlavors
  <2>1. CASE Refreshed = "none"
    <3>1. Rest("ui") /\ UNCHANGED <<env, previous>>
      BY <1>1, <2>1 DEF SetEnvironment
    <3>2. WindowTypes'
      BY <2>0, <3>1, <1>t, <1>n DEF WindowTypes
    <3> Goes("idle")
      BY <2>0, <3>1, <3>2, <1>t, <1>o DEF TreeTypes
    <3> QED
      BY <1>g
  <2>2. CASE Refreshed # "none"
    <3> DEFINE set == AllSetValues(source, Refilled.on)
    <3>1. /\ env' = {v \in CleanEnv : v[1] \notin Names1(set)} \cup set
          /\ previous' = Names1(set) /\ cfg' = Refilled
          /\ Goto("ui", "source") /\ UNCHANGED <<crowd, kept>>
      BY <1>1, <2>2 DEF SetEnvironment
    <3>2. CleanEnv \subseteq env
      BY DEF CleanEnv
    <3>3. env' \subseteq Options \X BOOLEAN /\ previous' \subseteq Options
      BY <1>t, <3>1, <3>2, SetOptions DEF WindowTypes
    <3>4. Refilled \in [name : Seq(STRING), on : SUBSET Options]
      BY <1>t, RefilledType
    <3>5. WindowTypes'
      BY <2>0, <1>t, <3>1, <3>3, <3>4 DEF WindowTypes
    <3> HIDE DEF set
    <3> Goes("source")
      BY <2>0, <1>t, <1>o, <3>1, <3>5 DEF TreeTypes
    <3> QED
      BY <1>g
  <2> QED
    BY <2>1, <2>2
<1>2. CASE ReadSourceArray
  <2>1. WindowTypes'
    BY <1>2, <1>t, WindowStays DEF ReadSourceArray
  <2> Goes("insert")
    BY <1>2, <1>t, <1>o, <2>1 DEF ReadSourceArray, TreeTypes
  <2> QED
    BY <1>g
<1>3. CASE InsertSourceArray \/ SetCustomName
  <2>1. /\ pc["ui"] \in {"insert", "name"}
        /\ UNCHANGED <<cwd, entry, overlap, hit, url, origin, git, head>>
        /\ UNCHANGED <<source, env, previous, second, shown, watched, clicks, edits>>
    BY <1>3 DEF InsertSourceArray, SetCustomName, Edit
  <2>2. CASE \E q \in {"name", "launch"} :
                /\ \E f : file' = [file EXCEPT ![FlavorTree] = f]
                /\ Goto("ui", q) /\ UNCHANGED <<failed, crowd, kept, cfg>>
    <3>1. PICK q \in {"name", "launch"} :
                /\ \E f : file' = [file EXCEPT ![FlavorTree] = f]
                /\ Goto("ui", q) /\ UNCHANGED <<failed, crowd, kept, cfg>>
      BY <2>2
    <3>2. WindowTypes'
      BY <1>t, <2>1, <3>1, WindowStays
    <3> Goes(q)
      BY <1>t, <1>o, <2>1, <3>1, <3>2 DEF TreeTypes
    <3> QED
      BY <1>g
  <2>3. CASE Rest("ui") /\ Fails("ui") /\ UNCHANGED file
    <3>1. WindowTypes'
      BY <1>t, <1>n, <2>1, <2>3 DEF WindowTypes
    <3> Goes("idle")
      BY <1>t, <1>o, <2>1, <2>3, <3>1 DEF TreeTypes
    <3> QED
      BY <1>g
  <2> QED
    BY <1>3, <2>2, <2>3 DEF InsertSourceArray, SetCustomName, Edit
<1>4. CASE Launch
  <2>1. WindowTypes'
    BY <1>4, <1>t, <1>n DEF Launch, WindowTypes
  <2> Goes("idle")
    BY <1>4, <1>t, <1>o, <2>1 DEF Launch, TreeTypes
  <2> QED
    BY <1>g
<1> QED
  BY <1>1, <1>2, <1>3, <1>4 DEF ExecuteSteps

LEMMA PrepareInductive ==
    ASSUME PrepareInv, [Next]_vars
    PROVE  PrepareInv'
<1>1. CASE UserSteps
  BY <1>1, ConfigureInv, ExecuteInv, WindowInv DEF UserSteps
<1>2. CASE ExecuteSteps
  BY <1>2, ExecuteStepsInv
<1>3. CASE \E t \in Threads : PrepareSteps(t)
  BY <1>3, PrepareStepsInv
<1>4. CASE \E t \in Pool : PoolDone(t)
  BY <1>4, PoolDoneInv
<1>5. CASE UNCHANGED vars
  <2> USE DEF vars, cwdVars, treeVars, uiVars, winVars, histVars, counts
  <2>1. ThreadTypes' /\ TreeTypes' /\ WindowTypes' /\ Flags'
    BY <1>5 DEF PrepareInv, Types, ThreadTypes, TreeTypes, WindowTypes, Flags
  <2>2. Placed'
    BY <1>5, NobodyMoves
  <2> QED
    BY <2>1, <2>2 DEF PrepareInv, Types
<1> QED
  BY <1>1, <1>2, <1>3, <1>4, <1>5 DEF Next

-----------------------------------------------------------------------------
\* The inductive invariant of the prepares: alone until the first overlap, the
\* saved directory at home, the writing git commands of a lone prepare in place.
THEOREM PrepareInvariant == Spec => []PrepareInv
<1>1. Init => PrepareInv
  BY PrepareInitInv
<1>2. PrepareInv /\ [Next]_vars => PrepareInv'
  BY PrepareInductive
<1> QED
  BY <1>1, <1>2, PTL DEF Spec

\* Every variable of the prepares and of the Execute keeps its type.
THEOREM TypeCorrect == Spec => []TypeOK
<1>1. PrepareInv => TypeOK
  BY InvMeans
<1> QED
  BY <1>1, PrepareInvariant, PTL

\* The guard of prepare_git_repo (utils.cpp) brings the process back to where it was
\* started, on every exit path, as long as no two prepares have ever overlapped.
THEOREM CwdComesHome == Spec => []CwdRestored
<1>1. PrepareInv => CwdRestored
  BY InvMeans
<1> QED
  BY <1>1, PrepareInvariant, PTL

\* The clone, the forced checkout and the clean of a prepare that is alone run in
\* the build repository; the forced checkout acts on the work tree around the build
\* directory only when a plain directory could not be removed from the repository's
\* place (utils.cpp), and on no other ever.
THEOREM WritesStayHome == Spec => []OwnCheckoutOnly
<1>1. PrepareInv => OwnCheckoutOnly
  BY InvMeans
<1> QED
  BY <1>1, PrepareInvariant, PTL


-----------------------------------------------------------------------------
(* What the lists and the PKGBUILDs hold.                                  *)

ListTypes == list \in Seq(Names) /\ orig \in Seq(Names) /\ cfg.name \in Bases
FileTypes == head \in [FlavorTrees -> Layouts \cup {NoFile}] /\ file \in [FlavorTrees -> Files]

\* The work tree keeps upstream's lines at their numbers.
LinesKept ==
    \A t \in FlavorTrees :
        Plain(head[t].head) =>
            Plain(file[t].head) /\ ForeignLines(file[t].head) = ForeignLines(head[t].head)

FilesInv == ListTypes /\ FileTypes /\ LinesKept

LEMMA LayoutTypes == NoFile \in Files /\ \A l \in Layouts : l \in Files
BY LayoutAssumption DEF NoFile, NoBase, Files

LEMMA FilesInitInv == Init => FilesInv
<1> SUFFICES ASSUME Init PROVE FilesInv
  OBVIOUS
<1>1. ListTypes
  <2>1. <<>> \in Seq(Names) /\ NoCfg.name \in Bases
    BY DEF NoCfg, Bases
  <2> QED
    BY <2>1 DEF Init, ListTypes
<1>2. head \in [FlavorTrees -> Layouts \cup {NoFile}] /\ file = head
  BY UpstreamAssumption DEF Init
<1>3. FileTypes
  <2>1. \A l \in Layouts \cup {NoFile} : l \in Files
    BY LayoutTypes
  <2> QED
    BY <1>2, <2>1 DEF FileTypes
<1>5. LinesKept
  BY <1>2 DEF LinesKept
<1> QED
  BY <1>1, <1>3, <1>5 DEF FilesInv

\* A tree gets a commit and the work tree of it.
LEMMA CommitKeeps ==
    ASSUME FileTypes, LinesKept, NEW p, NEW u \in Upstreams, CommitIn(p, u)
    PROVE  FileTypes' /\ LinesKept'
<1>1. u.first \in Layouts /\ u.second \in Layouts \cup {NoFile}
  BY UpstreamAssumption
<1> DEFINE tree(f) == IF f = "second" THEN "repo" ELSE f
<1>2. /\ head' \in [FlavorTrees -> Layouts \cup {NoFile}]
      /\ \A f \in FlavorTrees : tree(f) # p => head'[f] = head[f]
  <2>1. head' = Commit(p, u)
    BY DEF CommitIn
  <2>2. CASE p = "repo"
    BY <1>1, <2>1, <2>2 DEF Commit, FileTypes, FlavorTrees, RepoFlavors
  <2>3. CASE p = "nested"
    BY <1>1, <2>1, <2>3 DEF Commit, FileTypes, FlavorTrees, RepoFlavors
  <2>4. CASE p \notin {"repo", "nested"}
    BY <2>1, <2>4 DEF Commit, FileTypes
  <2> QED
    BY <2>2, <2>3, <2>4
<1>3. file' = [f \in FlavorTrees |-> IF p = tree(f) THEN head'[f] ELSE file[f]]
  BY DEF CommitIn, CheckedOut
<1> HIDE DEF tree
<1>4. FileTypes'
  <2>1. \A f \in FlavorTrees : head'[f] \in Files /\ file[f] \in Files
    BY <1>2, LayoutTypes DEF FileTypes
  <2> QED
    BY <1>2, <1>3, <2>1 DEF FileTypes
<1>5. LinesKept'
  BY <1>2, <1>3 DEF LinesKept
<1> QED
  BY <1>4, <1>5

LEMMA RemoveKeeps ==
    ASSUME NoFiles
    PROVE  FileTypes' /\ LinesKept'
<1>1. head' = [t \in FlavorTrees |-> NoFile] /\ file' = head'
  BY DEF NoFiles
<1>2. FileTypes'
  BY <1>1, LayoutTypes DEF FileTypes
<1>3. LinesKept'
  BY <1>1 DEF LinesKept
<1> QED
  BY <1>2, <1>3

\* The work tree is set back to the commit.
LEMMA CheckoutKeeps ==
    ASSUME FileTypes, LinesKept, UNCHANGED head, NEW p, file' = CheckedOut(p, head)
    PROVE  FileTypes' /\ LinesKept'
<1>1. \A f \in FlavorTrees : head[f] \in Files
  BY LayoutTypes DEF FileTypes
<1>2. \A f \in FlavorTrees : file'[f] = head[f] \/ file'[f] = file[f]
  BY DEF CheckedOut
<1>3. FileTypes'
  BY <1>1, <1>2 DEF FileTypes, CheckedOut
<1>4. LinesKept'
  BY <1>2 DEF LinesKept
<1> QED
  BY <1>3, <1>4

\* An edit of a work tree keeps the lines that are not the source array's.
LEMMA EditKeeps ==
    ASSUME FileTypes, LinesKept, UNCHANGED head, NEW p \in FlavorTrees, NEW g \in Files,
           file' = [file EXCEPT ![p] = g],
           Plain(file[p].head) =>
               Plain(g.head) /\ ForeignLines(g.head) = ForeignLines(file[p].head)
    PROVE  FileTypes' /\ LinesKept'
<1>1. FileTypes'
  BY DEF FileTypes
<1>2. LinesKept'
  BY DEF FileTypes, LinesKept
<1> QED
  BY <1>1, <1>2

LEMMA PrepareStepsFiles ==
    ASSUME PrepareInv, FilesInv, NEW t \in Threads, PrepareSteps(t)
    PROVE  FilesInv'
<1> USE DEF uiVars, treeVars
<1>1. UNCHANGED <<list, orig, cfg>>
  BY DEF PrepareSteps, EnterParent, DropPlain, VisitRepo, ReadOrigin, BackToParent, WipeRepo,
         StartClone, EndClone, EnterRepo, Checkout, Clean, Pull, Leave
<1>2. ListTypes'
  BY <1>1 DEF FilesInv, ListTypes
<1>3. FileTypes /\ LinesKept
  BY DEF FilesInv
<1>4. \/ UNCHANGED <<head, file>>
      \/ NoFiles
      \/ \E u \in Upstreams : \E p : CommitIn(p, u)
      \/ UNCHANGED head /\ \E p : file' = CheckedOut(p, head)
  <2>1. DropPlain(t) \/ WipeRepo(t) \/ Clean(t) => UNCHANGED <<head, file>> \/ NoFiles
    BY DEF DropPlain, WipeRepo, RemoveRepo, Clean
  <2>2. EndClone(t) \/ Pull(t) =>
            UNCHANGED <<head, file>> \/ \E u \in Upstreams : \E p : CommitIn(p, u)
    BY DEF EndClone, Pull
  <2>3. Checkout(t) => UNCHANGED head /\ (UNCHANGED file \/ \E p : file' = CheckedOut(p, head))
    BY DEF Checkout
  <2>4. EnterParent(t) \/ VisitRepo(t) \/ ReadOrigin(t) \/ BackToParent(t) \/ StartClone(t)
        \/ EnterRepo(t) \/ Leave(t) => UNCHANGED <<head, file>>
    BY DEF EnterParent, VisitRepo, ReadOrigin, BackToParent, StartClone, EnterRepo, Leave
  <2> QED
    BY <2>1, <2>2, <2>3, <2>4 DEF PrepareSteps
<1>5. FileTypes' /\ LinesKept'
  <2>1. CASE UNCHANGED <<head, file>>
    BY <1>3, <2>1 DEF FileTypes, LinesKept
  <2>2. CASE NoFiles
    BY <2>2, RemoveKeeps
  <2>3. CASE \E u \in Upstreams : \E p : CommitIn(p, u)
    BY <1>3, <2>3, CommitKeeps
  <2>4. CASE UNCHANGED head /\ \E p : file' = CheckedOut(p, head)
    BY <1>3, <2>4, CheckoutKeeps
  <2> QED
    BY <1>4, <2>1, <2>2, <2>3, <2>4
<1> QED
  BY <1>2, <1>5 DEF FilesInv

\* The flavor that is edited is in one of the trees, and is no less there afterwards.
LEMMA FlavorThere ==
    ASSUME FilesInv, FlavorTree # "none"
    PROVE  FlavorTree \in FlavorTrees /\ file[FlavorTree] \in Files /\ file[FlavorTree] # NoFile
BY DEF FlavorTree, FirstTree, FlavorTrees, RepoFlavors, FilesInv, FileTypes

LEMMA InsertStep ==
    ASSUME FilesInv, FlavorTree # "none"
    PROVE  LET f == file[FlavorTree]
               g == InsertSources(f, orig, list)
           IN /\ g \in Files /\ g # NoFile /\ HasBlock(g, list) /\ g.base = f.base
              /\ Plain(f.head) => Plain(g.head) /\ ForeignLines(g.head) = ForeignLines(f.head)
<1> DEFINE f == file[FlavorTree]
           g == InsertSources(f, orig, list)
<1>1. f \in Files /\ f # NoFile /\ orig \in Seq(Names) /\ list \in Seq(Names)
  BY FlavorThere DEF FilesInv, ListTypes
<1> HIDE DEF f
<1>2. /\ g \in Files /\ HasBlock(g, list) /\ g.base = f.base /\ g.prep = f.prep
      /\ ~ f.prep => g = f
      /\ Plain(f.head) => Plain(g.head) /\ ForeignLines(g.head) = ForeignLines(f.head)
  BY <1>1, InsertKeeps
<1> HIDE DEF g
<1>3. g # NoFile
  BY <1>1, <1>2 DEF NoFile
<1> QED
  BY <1>2, <1>3 DEF f, g

LEMMA RenameStep ==
    ASSUME FilesInv, FlavorTree # "none", CanRename(file[FlavorTree], cfg.name)
    PROVE  LET f == file[FlavorTree]
               g == Rename(f, cfg.name)
           IN g \in Files /\ g # NoFile /\ g.head = f.head /\ g.prep = f.prep
<1> DEFINE f == file[FlavorTree]
           g == Rename(f, cfg.name)
<1>1. f \in Files /\ f # NoFile /\ cfg.name \in Bases
  BY FlavorThere DEF FilesInv, ListTypes
<1> HIDE DEF f
<1>2. g \in Files /\ g.head = f.head /\ g.prep = f.prep /\ (g = f \/ g.base # <<>>)
  BY <1>1, RenameKeeps DEF f
<1> HIDE DEF g
<1>3. g # NoFile
  BY <1>1, <1>2 DEF NoFile, NoBase
<1> QED
  BY <1>2, <1>3 DEF f, g

LEMMA EditFiles ==
    ASSUME FilesInv, InsertSourceArray \/ SetCustomName
    PROVE  FileTypes' /\ LinesKept'
<1>1. FileTypes /\ LinesKept /\ UNCHANGED head
  BY DEF FilesInv, InsertSourceArray, SetCustomName
<1>2. CASE UNCHANGED file
  BY <1>1, <1>2 DEF FileTypes, LinesKept
<1>3. CASE InsertSourceArray /\ file' # file
  <2>1. FlavorTree # "none"
        /\ file' = [file EXCEPT ![FlavorTree] = InsertSources(file[FlavorTree], orig, list)]
    BY <1>3 DEF InsertSourceArray, Edit
  <2> QED
    BY <1>1, <2>1, FlavorThere, InsertStep, EditKeeps
<1>4. CASE SetCustomName /\ file' # file
  <2>1. FlavorTree # "none" /\ CanRename(file[FlavorTree], cfg.name)
        /\ file' = [file EXCEPT ![FlavorTree] = Rename(file[FlavorTree], cfg.name)]
    BY <1>4 DEF SetCustomName, Edit
  <2> QED
    BY <1>1, <2>1, FlavorThere, RenameStep, EditKeeps
<1> QED
  BY <1>2, <1>3, <1>4

LEMMA PatchListType == ASSUME NEW f \in Files PROVE PatchList(f) \in Seq(Names)
BY ArrayType, FilterType DEF PatchList, Files

LEMMA RemoveAtType ==
    ASSUME NEW s \in Seq(Names), NEW i \in DOMAIN s
    PROVE  RemoveAt(s, i) \in Seq(Names)
<1>1. i \in 1..Len(s) /\ Len(s) \in Nat
  OBVIOUS
<1>2. SubSeq(s, 1, i - 1) \in Seq(Names) /\ SubSeq(s, i + 1, Len(s)) \in Seq(Names)
  BY <1>1
<1> QED
  BY <1>2 DEF RemoveAt

LEMMA ResetType ==
    ASSUME FilesInv, NEW tree \in FlavorTrees \cup {"none"}, ResetPatches(tree)
    PROVE  list' \in Seq(Names)
<1>1. CASE tree = "none"
  BY <1>1 DEF ResetPatches, FilesInv, ListTypes
<1>2. CASE tree # "none"
  <2>1. file[tree] \in Files
    BY <1>2 DEF FilesInv, FileTypes
  <2> QED
    BY <1>2, <2>1, PatchListType DEF ResetPatches
<1> QED
  BY <1>1, <1>2

LEMMA FlavorsKnown ==
    {FlavorTree, FirstTree, Refreshed, "second"} \subseteq FlavorTrees \cup {"none"}
BY DEF FlavorTree, FirstTree, Refreshed, FlavorTrees, RepoFlavors

LEMMA FilesInductive ==
    ASSUME PrepareInv, FilesInv, [Next]_vars
    PROVE  FilesInv'
<1> USE DEF uiVars, treeVars
<1>0. ListTypes /\ FileTypes /\ LinesKept
  BY DEF FilesInv
<1>s. ASSUME UNCHANGED <<head, file>> PROVE FileTypes' /\ LinesKept'
  BY <1>0, <1>s DEF FileTypes, LinesKept
<1>1. CASE UserSteps
  <2>1. UNCHANGED <<head, file, orig>>
    BY <1>1 DEF UserSteps, Configure, Execute, AddEntry, RemoveEntry, ResetList, SelectFlavor,
          CancelDialog, CloseWindow
  <2>2. list' \in Seq(Names)
    <3>1. CASE UNCHANGED list
      BY <1>0, <3>1 DEF ListTypes
    <3>2. CASE \E e \in Entries : AddEntry(e)
      <4>1. PICK e \in Entries : list' = Append(list, e)
        BY <3>2 DEF AddEntry
      <4>2. e \in Names
        BY NameAssumption DEF Names
      <4> QED
        BY <1>0, <4>1, <4>2 DEF ListTypes
    <3>3. CASE RemoveEntry
      BY <1>0, <3>3, RemoveAtType DEF RemoveEntry, ListTypes
    <3>4. CASE ResetList
      BY <3>4, ResetType, FlavorsKnown DEF ResetList
    <3>5. CASE SelectFlavor
      <4>1. PICK tree \in {FirstTree, "second"} : ResetPatches(tree)
        BY <3>5 DEF SelectFlavor
      <4> QED
        BY <4>1, ResetType, FlavorsKnown
    <3> QED
      BY <1>1, <3>1, <3>2, <3>3, <3>4, <3>5 DEF UserSteps, Configure, Execute, CancelDialog, CloseWindow
  <2>3. cfg'.name \in Bases
    <3>1. UNCHANGED cfg \/ cfg' \in Pages
      BY <1>1 DEF UserSteps, Configure, Execute, AddEntry, RemoveEntry, ResetList, SelectFlavor,
            CancelDialog, CloseWindow
    <3>2. \A page \in Pages : page.name \in Bases
      BY PrepareAssumption DEF Bases
    <3> QED
      BY <1>0, <3>1, <3>2 DEF ListTypes
  <2>4. ListTypes'
    BY <1>0, <2>1, <2>2, <2>3 DEF ListTypes
  <2> QED
    BY <1>s, <2>1, <2>4 DEF FilesInv
<1>n. NoCfg.name \in Bases
  BY DEF NoCfg, Bases
<1>2. CASE SetEnvironment \/ Launch
  <2>1. UNCHANGED <<head, file, orig>>
    BY <1>2 DEF SetEnvironment, Launch
  <2>2. cfg'.name \in Bases
    <3>1. cfg' = NoCfg \/ cfg' = Refilled
      BY <1>2 DEF SetEnvironment, Launch, Rest
    <3>2. Refilled.name = cfg.name
      BY RefilledType DEF PrepareInv, Types
    <3> QED
      BY <1>0, <1>n, <3>1, <3>2 DEF ListTypes
  <2>3. list' \in Seq(Names)
    <3>1. UNCHANGED list \/ ResetPatches("second")
      BY <1>2 DEF SetEnvironment, RefreshFlavors, Launch
    <3> QED
      BY <1>0, <3>1, ResetType, FlavorsKnown DEF ListTypes
  <2> QED
    BY <1>0, <1>s, <2>1, <2>2, <2>3 DEF FilesInv, ListTypes
<1>3. CASE ReadSourceArray
  <2>1. UNCHANGED <<head, file, list, cfg>>
    BY <1>3 DEF ReadSourceArray
  <2>2. orig' \in Seq(Names)
    <3>1. CASE FlavorTree # "none" /\ orig' = SourceArray(file[FlavorTree])
      <4>1. file[FlavorTree].head \in Seq(Lines)
        BY <3>1, FlavorThere DEF Files
      <4> QED
        BY <3>1, <4>1, ArrayType
    <3>2. CASE orig' = <<>>
      BY <3>2
    <3> QED
      BY <1>3, <3>1, <3>2 DEF ReadSourceArray
  <2> QED
    BY <1>0, <1>s, <2>1, <2>2 DEF FilesInv, ListTypes
<1>4. CASE InsertSourceArray \/ SetCustomName
  <2>1. UNCHANGED list /\ (UNCHANGED orig \/ orig' = <<>>) /\ (UNCHANGED cfg \/ cfg' = NoCfg)
    BY <1>4 DEF InsertSourceArray, SetCustomName, Edit, Rest
  <2>2. ListTypes'
    <3>1. <<>> \in Seq(Names)
      OBVIOUS
    <3> QED
      BY <1>0, <1>n, <2>1, <3>1 DEF ListTypes
  <2> QED
    BY <1>4, <2>2, EditFiles DEF FilesInv
<1>5. CASE \E t \in Threads : PrepareSteps(t)
  BY <1>5, PrepareStepsFiles
<1>6. CASE \E t \in Pool : PoolDone(t)
  <2>1. UNCHANGED <<head, file, orig, cfg>>
    BY <1>6, PrepareAssumption DEF PoolDone, Rest
  <2>3. list' \in Seq(Names)
    BY <1>6, ResetType, FlavorsKnown DEF PoolDone
  <2> QED
    BY <1>0, <1>s, <2>1, <2>3 DEF FilesInv, ListTypes
<1>7. CASE UNCHANGED vars
  BY <1>0, <1>s, <1>7 DEF vars, FilesInv, ListTypes
<1> QED
  BY <1>1, <1>2, <1>3, <1>4, <1>5, <1>6, <1>7 DEF Next, ExecuteSteps

LEMMA FilesMean == FilesInv => ForeignKept
<1> SUFFICES ASSUME FilesInv, NEW t \in FlavorTrees, file[t] # NoFile, ~ AppendsArrays(head[t])
             PROVE  Foreign(file[t]) = Foreign(head[t])
  BY DEF ForeignKept
<1>1. head[t] \in Layouts \cup {NoFile}
  BY DEF FilesInv, FileTypes
<1>2. Parenthesized(head[t].head)
  <2>1. Parenthesized(NoFile.head)
    BY DEF Parenthesized, NoFile
  <2> QED
    BY <1>1, <2>1, LayoutAssumption
<1>3. head[t].head \in Seq(Lines)
  BY <1>1, LayoutTypes DEF Files
<1>4. Plain(head[t].head)
  BY <1>2, <1>3 DEF AppendsArrays, Plain
<1> QED
  BY <1>4 DEF FilesInv, LinesKept, Foreign, ForeignLines


-----------------------------------------------------------------------------
(* What an Execute that is alone and has not failed has done so far.       *)

RepoKnown == git["repo"] \in {"none", "plain"} \cup Sources
EnvNamed == \A v \in env : v[1] \in previous
UrlSaved == pc["ui"] \in Preparing => url["ui"] = source

Inserted(f) == InsertSources(head[f], SourceArray(head[f]), list)

\* The repository is the source's from the comparison of the origins on, and its
\* work tree upstream's from the forced checkout on; then the edits follow.
RepoAt(at) ==
    /\ at \notin {"nested", "stray"}
    /\ at \in {"visit", "origin", "back"} => git["repo"] \in Sources
    /\ at = "origin" => cwd = "repo"
    /\ at = "back" => origin["ui"] = git["repo"]
    /\ at = "exists" => git["repo"] \in {"none", source}
    /\ at \in {"enter", "checkout", "clean", "pull", "leave", "prepared",
               "source", "insert", "name", "launch"} => git["repo"] = source
    /\ at \in {"clean", "pull", "leave", "prepared", "source", "insert"} =>
           \A f \in RepoFlavors : file[f] = head[f]

EditsAt(at) ==
    /\ at \in {"source", "insert", "name", "launch"} => env = AllSetValues(source, cfg.on)
    /\ FlavorTree \in RepoFlavors =>
           /\ at = "insert" => orig = SourceArray(head[FlavorTree])
           /\ at = "name" => file[FlavorTree] = Inserted(FlavorTree)
           /\ at = "launch" => /\ CanRename(Inserted(FlavorTree), cfg.name)
                               /\ file[FlavorTree] = Rename(Inserted(FlavorTree), cfg.name)

\* What is left of the click: all of it until the flavors are refreshed.
AskedAt(at) ==
    /\ at \in Preparing \cup {"prepared"} => asked.page = cfg /\ asked.list = list
    /\ at \in {"source", "insert", "name", "launch"} /\ FlavorTree \in RepoFlavors =>
           cfg.name = asked.page.name /\ cfg.on = Taken.on /\ list = Taken.list

Undisturbed == pc["ui"] # "idle" /\ "ui" \notin crowd \cup kept /\ ~ failed

BuildInv ==
    /\ RepoKnown /\ EnvNamed /\ UrlSaved
    /\ Undisturbed => RepoAt(pc["ui"]) /\ EditsAt(pc["ui"]) /\ AskedAt(pc["ui"])

LEMMA BuildInitInv == Init => BuildInv
<1> SUFFICES ASSUME Init PROVE BuildInv
  OBVIOUS
<1>1. pc["ui"] = "idle" /\ git["repo"] \in {"none", "plain"} /\ env = {}
  BY DEF Init, Threads, Places, Trees
<1> QED
  BY <1>1 DEF BuildInv, RepoKnown, EnvNamed, UrlSaved, Undisturbed, Preparing, Trees

\* While another thread moves, an Execute is idle or disturbed.
LEMMA OthersDisturb ==
    ASSUME PrepareInv, NEW t \in Threads, t # "ui", pc[t] # "idle",
           pc' = [pc EXCEPT ![t] = pc'[t]], crowd' = crowd \/ crowd' = crowd \ {t}
    PROVE  pc'["ui"] = pc["ui"] /\ ~ Undisturbed'
<1>1. pc'["ui"] = pc["ui"] /\ "ui" \in Threads
  BY DEF PrepareInv, Types, ThreadTypes, Threads
<1>2. CASE pc["ui"] = "idle" \/ "ui" \in crowd
  BY <1>1, <1>2 DEF Undisturbed
<1>3. CASE pc["ui"] # "idle" /\ "ui" \notin crowd
  <2>1. Running = {"ui"}
    BY <1>1, <1>3 DEF PrepareInv, Placed, AloneAtWork, Running
  <2>2. t \in Running
    BY DEF Running
  <2> QED
    BY <2>1, <2>2
<1> QED
  BY <1>2, <1>3

LEMMA RepoStaysKnown ==
    ASSUME PrepareInv, BuildInv, NEW t \in Threads, PrepareSteps(t)
    PROVE  RepoKnown'
<1> USE DEF treeVars
<1>1. RepoKnown /\ git \in [Places -> {"none", "plain", "own"} \cup Sources]
      /\ "repo" \in Places /\ Trees \subseteq Places
  BY DEF BuildInv, PrepareInv, Types, TreeTypes, Places, Trees
<1>2. CASE UNCHANGED git
  BY <1>1, <1>2 DEF RepoKnown
<1>3. CASE RemoveRepo
  <2>1. git'["repo"] = "none"
    BY <1>1, <1>3 DEF RemoveRepo
  <2> QED
    BY <2>1 DEF RepoKnown
<1>4. CASE StartClone(t)
  BY <1>1, <1>4 DEF StartClone, RepoKnown
<1>5. CASE EndClone(t)
  <2>1. url[t] \in Sources
    BY <1>5 DEF EndClone, Preparing, PrepareInv, Types, ThreadTypes
  <2> QED
    BY <1>1, <1>5, <2>1 DEF EndClone, RepoKnown
<1>6. \/ UNCHANGED git \/ RemoveRepo \/ StartClone(t) \/ EndClone(t)
  BY DEF PrepareSteps, EnterParent, DropPlain, VisitRepo, ReadOrigin, BackToParent, WipeRepo,
         EnterRepo, Checkout, Clean, Pull, Leave
<1> QED
  BY <1>2, <1>3, <1>4, <1>5, <1>6

LEMMA PrepareFrame ==
    ASSUME PrepareInv, NEW t \in Threads, PrepareSteps(t)
    PROVE  /\ UNCHANGED <<source, list, orig, cfg, env, previous, crowd, asked>> /\ kept \subseteq kept'
           /\ pc[t] \in Preparing /\ pc' = [pc EXCEPT ![t] = pc'[t]]
           /\ pc'[t] \in Preparing => UNCHANGED url
           /\ ~ UNCHANGED failed => Fails(t)
<1> USE DEF uiVars, histVars
<1>1. PrepareInv' /\ DOMAIN pc = Threads
  BY PrepareStepsInv DEF PrepareInv, Types, ThreadTypes
<1>2. UNCHANGED <<source, list, orig, cfg, env, previous, crowd, asked>> /\ kept \subseteq kept'
  BY DEF PrepareSteps, EnterParent, DropPlain, VisitRepo, ReadOrigin, BackToParent, WipeRepo,
         StartClone, EndClone, EnterRepo, Checkout, Clean, Pull, Leave
<1>3. pc[t] \in Preparing
  BY DEF PrepareSteps, EnterParent, DropPlain, VisitRepo, ReadOrigin, BackToParent, WipeRepo,
         StartClone, EndClone, EnterRepo, Checkout, Clean, Pull, Leave, Preparing, Trees
<1>4. pc' = [pc EXCEPT ![t] = pc'[t]]
  <2>1. \E q : pc' = [pc EXCEPT ![t] = q]
    BY DEF PrepareSteps, EnterParent, DropPlain, VisitRepo, ReadOrigin, BackToParent, WipeRepo,
           StartClone, EndClone, EnterRepo, Checkout, Clean, Pull, Leave
  <2> QED
    BY <1>1, <2>1
<1>5. pc'[t] \in Preparing => UNCHANGED url
  <2>1. Leave(t) => pc'[t] = "prepared"
    BY <1>1 DEF Leave
  <2>2. ~ Leave(t) => UNCHANGED url
    BY DEF PrepareSteps, EnterParent, DropPlain, VisitRepo, ReadOrigin, BackToParent, WipeRepo,
           StartClone, EndClone, EnterRepo, Checkout, Clean, Pull
  <2>3. "prepared" \notin Preparing
    BY DEF Preparing, Trees
  <2> QED
    BY <2>1, <2>2, <2>3
<1>6. ~ UNCHANGED failed => Fails(t)
  BY DEF PrepareSteps, EnterParent, DropPlain, VisitRepo, ReadOrigin, BackToParent, WipeRepo,
         StartClone, EndClone, EnterRepo, Checkout, Clean, Pull, Leave
<1> QED
  BY <1>2, <1>3, <1>4, <1>5, <1>6


\* A commit that is fetched into a work tree without changes leaves none.
LEMMA CommitSame ==
    ASSUME NEW p, NEW u, CommitIn(p, u), DOMAIN head = FlavorTrees, DOMAIN file = FlavorTrees,
           \A f \in RepoFlavors : file[f] = head[f]
    PROVE  \A f \in RepoFlavors : file'[f] = head'[f]
<1>1. "repo" \in FlavorTrees /\ "second" \in FlavorTrees /\ RepoFlavors = {"repo", "second"}
  BY DEF FlavorTrees, RepoFlavors
<1>2. /\ head' = Commit(p, u)
      /\ file' = [f \in FlavorTrees |->
                     IF p = (IF f = "second" THEN "repo" ELSE f) THEN head'[f] ELSE file[f]]
  BY DEF CommitIn, CheckedOut
<1>3. CASE p = "repo"
  BY <1>1, <1>2, <1>3
<1>4. CASE p # "repo"
  <2>1. head'["repo"] = head["repo"] /\ head'["second"] = head["second"]
    BY <1>1, <1>2, <1>4 DEF Commit
  <2> QED
    BY <1>1, <1>2, <1>4, <2>1
<1> QED
  BY <1>3, <1>4

LEMMA RepoSteps ==
    ASSUME PrepareInv, BuildInv, PrepareSteps("ui"), Undisturbed'
    PROVE  RepoAt(pc["ui"])'
<1> USE DEF treeVars, cwdVars
<1>u. "ui" \in Threads
  BY DEF Threads
<1>1. /\ DOMAIN pc = Threads /\ DOMAIN git = Places /\ DOMAIN origin = Threads
      /\ "repo" \in Places /\ RepoFlavors \subseteq FlavorTrees
      /\ DOMAIN file = FlavorTrees /\ DOMAIN head = FlavorTrees
  BY DEF PrepareInv, Types, ThreadTypes, TreeTypes, Places, Trees, FlavorTrees
<1>2. /\ UNCHANGED <<source, crowd>> /\ pc["ui"] \in Preparing /\ ~ failed'
      /\ "ui" \notin crowd \cup kept \cup kept'
      /\ (~ UNCHANGED failed => Fails("ui"))
  BY <1>u, PrepareFrame DEF Undisturbed
<1>3. ~ failed /\ ~ Fails("ui")
  <2>1. Fails("ui") => failed' = TRUE
    BY Zenon DEF Fails
  <2>2. ~ Fails("ui")
    BY <1>2, <2>1
  <2> QED
    BY <1>2, <2>2
<1>4. pc["ui"] # "idle"
  BY <1>2 DEF Preparing, Trees
<1>5. RepoAt(pc["ui"]) /\ RepoKnown /\ url["ui"] = source
  BY <1>2, <1>3, <1>4 DEF BuildInv, Undisturbed, UrlSaved
<1>6. Expected(pc["ui"], cwd)
  BY <1>2, <1>4, <1>u DEF PrepareInv, Placed, AloneAtWork, Running
<1>7. source \in Sources /\ {"", "none", "plain"} \cap Sources = {}
  BY NameAssumption DEF PrepareInv, Types, WindowTypes
<1>c. git["repo"] \in Sources /\ cwd = "repo" => WorkTree = "repo"
  BY <1>1, <1>7, RepoWorkTree DEF IsCheckout
<1> DEFINE at == pc["ui"]
<1>8. CASE EnterParent("ui")
  <2>1. pc'["ui"] = "plain"
    BY <1>1, <1>3, <1>8, <1>u DEF EnterParent
  <2> QED
    BY <2>1 DEF RepoAt
<1>9. CASE DropPlain("ui")
  <2>1. CASE IsCheckout("repo")
    <3>1. pc'["ui"] = "visit" /\ UNCHANGED git
      BY <1>1, <1>9, <1>u, <2>1 DEF DropPlain, IsCheckout
    <3>2. git["repo"] \in Sources
      BY <1>5, <2>1 DEF IsCheckout, RepoKnown
    <3> QED
      BY <3>1, <3>2 DEF RepoAt
  <2>2. CASE ~ IsCheckout("repo")
    <3>1. pc'["ui"] = "exists" /\ git'["repo"] = "none"
      BY <1>1, <1>2, <1>9, <1>u, <2>2 DEF DropPlain, IsCheckout, RemoveRepo
    <3> QED
      BY <3>1 DEF RepoAt
  <2> QED
    BY <2>1, <2>2
<1>10. CASE VisitRepo("ui")
  <2>1. git["repo"] \in Sources /\ git["repo"] # "none"
    BY <1>5, <1>7, <1>10 DEF VisitRepo, RepoAt
  <2>2. pc'["ui"] = "origin" /\ cwd' = "repo" /\ UNCHANGED git
    BY <1>1, <1>10, <1>u, <2>1 DEF VisitRepo
  <2> QED
    BY <2>1, <2>2 DEF RepoAt
<1>11. CASE ReadOrigin("ui")
  <2>1. git["repo"] \in Sources /\ cwd = "repo"
    BY <1>5, <1>11 DEF ReadOrigin, RepoAt
  <2>2. Origin = git["repo"]
    BY <1>c, <2>1 DEF Origin
  <2>3. pc'["ui"] = "back" /\ origin'["ui"] = git["repo"] /\ UNCHANGED git
    BY <1>1, <1>11, <1>u, <2>2 DEF ReadOrigin
  <2> QED
    BY <2>1, <2>3 DEF RepoAt
<1>12. CASE BackToParent("ui")
  <2>1. git["repo"] \in Sources /\ origin["ui"] = git["repo"] /\ UNCHANGED git
    BY <1>5, <1>12 DEF BackToParent, RepoAt
  <2>2. CASE SourceChanged("ui")
    <3>1. pc'["ui"] = "wipe"
      BY <1>1, <1>12, <1>u, <2>2 DEF BackToParent
    <3> QED
      BY <3>1 DEF RepoAt
  <2>3. CASE ~ SourceChanged("ui")
    <3>1. pc'["ui"] = "exists"
      BY <1>1, <1>12, <1>u, <2>3 DEF BackToParent
    <3>2. git["repo"] = source
      BY <1>5, <1>7, <2>1, <2>3 DEF SourceChanged
    <3> QED
      BY <1>2, <2>1, <3>1, <3>2 DEF RepoAt
  <2> QED
    BY <2>2, <2>3
<1>13. CASE WipeRepo("ui")
  <2>1. RemoveRepo /\ Goto("ui", "exists")
    BY <1>3, <1>13 DEF WipeRepo
  <2>2. pc'["ui"] = "exists" /\ git'["repo"] = "none"
    BY <1>1, <1>u, <2>1 DEF RemoveRepo
  <2> QED
    BY <2>2 DEF RepoAt
<1>14. CASE StartClone("ui")
  <2>1. cwd = "parent" /\ git["repo"] \in {"none", source}
    BY <1>5, <1>6, <1>14 DEF StartClone, Expected, RepoAt
  <2>2. CASE git["repo"] # "none"
    <3>1. pc'["ui"] = "enter" /\ UNCHANGED git
      BY <1>1, <1>14, <1>u, <2>2 DEF StartClone
    <3> QED
      BY <1>2, <2>1, <2>2, <3>1 DEF RepoAt
  <2>3. CASE git["repo"] = "none"
    <3>1. CloneTarget = "repo"
      BY <2>1 DEF CloneTarget
    <3>2. pc'["ui"] = "repo"
      BY <1>1, <1>3, <1>14, <1>u, <2>3, <3>1 DEF StartClone
    <3> QED
      BY <3>2 DEF RepoAt
  <2> QED
    BY <2>2, <2>3
<1>15. CASE EndClone("ui")
  <2>1. at = "repo"
    BY <1>5, <1>15 DEF EndClone, RepoAt, Trees
  <2>2. pc'["ui"] = "enter" /\ git'["repo"] = source
    BY <1>1, <1>3, <1>5, <1>15, <1>u, <2>1 DEF EndClone
  <2> QED
    BY <1>2, <2>2 DEF RepoAt
<1>16. CASE EnterRepo("ui")
  <2>1. git["repo"] = source /\ UNCHANGED git
    BY <1>5, <1>16 DEF EnterRepo, RepoAt
  <2>2. pc'["ui"] = "checkout"
    BY <1>1, <1>3, <1>16, <1>u DEF EnterRepo
  <2> QED
    BY <1>2, <2>1, <2>2 DEF RepoAt
<1>17. CASE Checkout("ui")
  <2>1. git["repo"] = source /\ UNCHANGED <<git, head>> /\ cwd = "repo"
    BY <1>5, <1>6, <1>17 DEF Checkout, RepoAt, Expected
  <2>2. pc'["ui"] = "clean" /\ file' = CheckedOut("repo", head)
    BY <1>1, <1>3, <1>7, <1>17, <1>c, <1>u, <2>1 DEF Checkout
  <2>3. \A f \in RepoFlavors : file'[f] = head[f]
    BY <1>1, <2>2 DEF CheckedOut, RepoFlavors
  <2> QED
    BY <1>2, <2>1, <2>2, <2>3 DEF RepoAt
<1>18. CASE Clean("ui")
  <2>1. /\ git["repo"] = source /\ cwd = "repo" /\ UNCHANGED git
        /\ \A f \in RepoFlavors : file[f] = head[f]
    BY <1>5, <1>6, <1>18 DEF Clean, RepoAt, Expected
  <2>3. UNCHANGED <<head, file>>
    BY <1>3, <1>7, <1>18, <1>c, <2>1 DEF Clean
  <2>2. pc'["ui"] = "pull"
    BY <1>1, <1>3, <1>18, <1>u DEF Clean
  <2> QED
    BY <1>2, <2>1, <2>2, <2>3 DEF RepoAt
<1>19. CASE Pull("ui")
  <2>1. git["repo"] = source /\ (\A f \in RepoFlavors : file[f] = head[f]) /\ UNCHANGED git
    BY <1>5, <1>19 DEF Pull, RepoAt
  <2>2. pc'["ui"] = "leave"
    BY <1>1, <1>19, <1>u DEF Pull
  <2>3. PICK u \in Upstreams : CommitIn(WorkTree, u)
    BY <1>3, <1>19 DEF Pull
  <2>4. \A f \in RepoFlavors : file'[f] = head'[f]
    BY <1>1, <2>1, <2>3, CommitSame
  <2> QED
    BY <1>2, <2>1, <2>2, <2>4 DEF RepoAt
<1>20. CASE Leave("ui")
  <2>1. /\ git["repo"] = source /\ UNCHANGED <<git, head, file>>
        /\ \A f \in RepoFlavors : file[f] = head[f]
    BY <1>5, <1>20 DEF Leave, RepoAt
  <2>2. pc'["ui"] = "prepared"
    BY <1>1, <1>20, <1>u DEF Leave
  <2> QED
    BY <1>2, <2>1, <2>2 DEF RepoAt
<1> QED
  BY <1>8, <1>9, <1>10, <1>11, <1>12, <1>13, <1>14, <1>15, <1>16, <1>17, <1>18, <1>19, <1>20
     DEF PrepareSteps

LEMMA PrepareStepsBuild ==
    ASSUME PrepareInv, BuildInv, NEW t \in Threads, PrepareSteps(t)
    PROVE  BuildInv'
<1>1. /\ UNCHANGED <<source, env, previous, crowd, list, cfg, asked>> /\ kept \subseteq kept'
      /\ (~ UNCHANGED failed => Fails(t))
      /\ pc[t] \in Preparing /\ pc' = [pc EXCEPT ![t] = pc'[t]]
      /\ pc'[t] \in Preparing => UNCHANGED url
  BY PrepareFrame
<1>2. RepoKnown' /\ EnvNamed'
  BY <1>1, RepoStaysKnown DEF BuildInv, EnvNamed
<1>3. pc[t] # "idle" /\ DOMAIN pc = Threads /\ "ui" \in Threads /\ DOMAIN url = Threads
  BY <1>1 DEF Preparing, Trees, PrepareInv, Types, ThreadTypes, Threads
<1>4. CASE t = "ui"
  <2>1. UrlSaved'
    BY <1>1, <1>4 DEF BuildInv, UrlSaved
  <2>2. Undisturbed' => RepoAt(pc["ui"])'
    BY <1>4, RepoSteps
  <2>3. EditsAt(pc["ui"])' /\ (Undisturbed' => AskedAt(pc["ui"])')
    <3>1. PrepareInv'
      BY PrepareStepsInv
    <3>2. pc'["ui"] \in Preparing \cup {"prepared"}
      BY <1>3, <1>4 DEF PrepareSteps, EnterParent, DropPlain, VisitRepo, ReadOrigin, BackToParent,
            WipeRepo, StartClone, EndClone, EnterRepo, Checkout, Clean, Pull, Leave, Preparing, Trees,
            AfterNoParent, CloneTarget
    <3>3. pc'["ui"] \notin {"source", "insert", "name", "launch"}
      BY <3>2 DEF Preparing, Trees
    <3>4. Undisturbed' => Undisturbed
      <4> SUFFICES ASSUME Undisturbed' PROVE Undisturbed
        OBVIOUS
      <4>1. Fails(t) => (t = "ui" => failed' = TRUE)
        BY Zenon DEF Fails
      <4>2. ~ failed' /\ ~ failed
        BY <1>1, <1>4, <4>1 DEF Undisturbed
      <4> QED
        BY <1>1, <1>3, <1>4, <4>2 DEF Undisturbed
    <3>5. Undisturbed' => AskedAt(pc["ui"])'
      <4> SUFFICES ASSUME Undisturbed' PROVE asked'.page = cfg' /\ asked'.list = list'
        BY <3>3 DEF AskedAt
      <4>1. AskedAt(pc["ui"]) /\ pc["ui"] \in Preparing
        BY <1>1, <1>4, <3>4 DEF BuildInv
      <4> QED
        BY <1>1, <4>1 DEF AskedAt
    <3> QED
      BY <3>3, <3>5 DEF EditsAt
  <2> QED
    BY <1>2, <2>1, <2>2, <2>3 DEF BuildInv
<1>5. CASE t # "ui"
  <2>1. pc'["ui"] = pc["ui"] /\ ~ Undisturbed'
    BY <1>1, <1>3, <1>5, OthersDisturb
  <2>2. UrlSaved'
    <3>1. url'["ui"] = url["ui"]
      <4>1. Leave(t) => url'["ui"] = url["ui"]
        BY <1>3, <1>5 DEF Leave
      <4>2. ~ Leave(t) => UNCHANGED url
        BY DEF PrepareSteps, EnterParent, DropPlain, VisitRepo, ReadOrigin, BackToParent, WipeRepo,
           StartClone, EndClone, EnterRepo, Checkout, Clean, Pull
      <4> QED
        BY <4>1, <4>2
    <3> QED
      BY <1>1, <2>1, <3>1 DEF BuildInv, UrlSaved
  <2> QED
    BY <1>2, <2>1, <2>2 DEF BuildInv
<1> QED
  BY <1>4, <1>5


LEMMA UserStepsBuild ==
    ASSUME PrepareInv, BuildInv, UserSteps
    PROVE  BuildInv'
<1> USE DEF treeVars, uiVars, cwdVars
<1>1. RepoKnown' /\ EnvNamed'
  BY DEF UserSteps, Configure, Execute, AddEntry, RemoveEntry, ResetList, SelectFlavor,
         CancelDialog, CloseWindow, BuildInv, RepoKnown, EnvNamed
<1>2. DOMAIN pc = Threads /\ DOMAIN url = Threads /\ "ui" \in Threads
  BY DEF PrepareInv, Types, ThreadTypes, Threads
<1>3. CASE \E s \in Sources, page \in Pages : Execute(s, page)
  <2>1. pc'["ui"] = "parent" /\ url'["ui"] = source'
    BY <1>2, <1>3 DEF Execute, BeginPrepare
  <2>2. asked'.page = cfg' /\ asked'.list = list'
    BY <1>3 DEF Execute
  <2> QED
    BY <1>1, <2>1, <2>2 DEF BuildInv, UrlSaved, RepoAt, EditsAt, AskedAt
<1>4. CASE ~ \E s \in Sources, page \in Pages : Execute(s, page)
  <2>1. pc'["ui"] = "idle"
    <3>1. \A t \in Pool : t # "ui"
      BY PrepareAssumption
    <3> QED
      BY <1>2, <1>4, <3>1 DEF UserSteps, Configure, AddEntry, RemoveEntry, ResetList, SelectFlavor,
            CancelDialog, CloseWindow, UserEdit
  <2> QED
    BY <1>1, <2>1 DEF BuildInv, UrlSaved, Undisturbed, Preparing, Trees
<1> QED
  BY <1>3, <1>4

LEMMA PoolDoneBuild ==
    ASSUME PrepareInv, BuildInv, NEW t \in Pool, PoolDone(t)
    PROVE  BuildInv'
<1>1. RepoKnown' /\ EnvNamed'
  BY DEF PoolDone, treeVars, BuildInv, RepoKnown, EnvNamed
<1>2. t # "ui" /\ t \in Threads /\ DOMAIN pc = Threads
  BY PrepareAssumption DEF Threads, PrepareInv, Types, ThreadTypes
<1>3. pc'["ui"] = pc["ui"] /\ ~ Undisturbed'
  <2>1. pc[t] # "idle" /\ pc' = [pc EXCEPT ![t] = pc'[t]] /\ crowd' = crowd \ {t}
    BY <1>2 DEF PoolDone, Rest
  <2> QED
    BY <1>2, <2>1, OthersDisturb
<1>4. UrlSaved'
  BY <1>3 DEF PoolDone, BuildInv, UrlSaved
<1> QED
  BY <1>1, <1>3, <1>4 DEF BuildInv

\* The environment is the last set of options, whatever it was before.
LEMMA EnvironmentSet ==
    ASSUME EnvNamed, SetEnvironment, Refreshed # "none"
    PROVE  /\ cfg' = Refilled /\ env' = AllSetValues(source, cfg'.on)
           /\ EnvNamed'
<1>1. CleanEnv = {}
  BY DEF EnvNamed, CleanEnv
<1>2. /\ env' = {v \in CleanEnv : v[1] \notin Names1(AllSetValues(source, Refilled.on))}
                  \cup AllSetValues(source, Refilled.on)
      /\ previous' = Names1(AllSetValues(source, Refilled.on))
      /\ cfg' = Refilled
  BY DEF SetEnvironment
<1>3. env' = AllSetValues(source, Refilled.on)
  BY <1>1, <1>2
<1> QED
  BY <1>2, <1>3 DEF EnvNamed, Names1

\* An edit of the selected PKGBUILD leaves the selection.
LEMMA FlavorStays ==
    ASSUME FilesInv, FlavorTree # "none", NEW g, g # NoFile, UNCHANGED second,
           file' = [file EXCEPT ![FlavorTree] = g]
    PROVE  FlavorTree' = FlavorTree /\ file'[FlavorTree] = g
<1>1. /\ DOMAIN file = FlavorTrees /\ FlavorTree \in FlavorTrees /\ file[FlavorTree] # NoFile
      /\ FlavorTrees = {"repo", "second", "nested"}
  BY FlavorThere DEF FilesInv, FileTypes, FlavorTrees, RepoFlavors
<1>2. file'[FlavorTree] = g /\ \A t \in FlavorTrees : t # FlavorTree => file'[t] = file[t]
  BY <1>1
<1>3. FlavorTree' = FlavorTree
  <2>1. CASE second
    BY <1>1, <1>2, <2>1 DEF FlavorTree
  <2>2. CASE ~ second
    <3>1. FlavorTree = FirstTree /\ FlavorTree' = FirstTree'
      BY <2>2 DEF FlavorTree
    <3>2. CASE FirstTree = "nested"
      BY <1>1, <1>2, <3>1, <3>2 DEF FirstTree
    <3>3. CASE FirstTree = "repo"
      <4>1. file["nested"] = NoFile
        BY <3>3 DEF FirstTree
      <4> QED
        BY <1>1, <1>2, <3>1, <3>3, <4>1 DEF FirstTree
    <3> QED
      BY <3>1, <3>2, <3>3 DEF FirstTree
  <2> QED
    BY <2>1, <2>2
<1> QED
  BY <1>2, <1>3

\* What the refresh of the flavors leaves of the click.
LEMMA RefreshTakes ==
    ASSUME PrepareInv, SetEnvironment, Refreshed # "none", cfg' = Refilled,
           file["second"] = head["second"], asked.page = cfg, asked.list = list
    PROVE  /\ FlavorTree' = Refreshed
           /\ cfg'.name = asked'.page.name /\ cfg'.on = Taken'.on /\ list' = Taken'.list
<1>1. UNCHANGED <<file, head, asked>> /\ second' = (Refreshed = "second") /\ RefreshFlavors
  BY DEF SetEnvironment, RefreshFlavors, treeVars
<1>2. cfg'.name = cfg.name
  BY RefilledType DEF PrepareInv, Types
<1>3. CASE Refreshed = "second"
  <2>1. file["second"] # NoFile
    BY <1>3 DEF Refreshed, FirstTree
  <2>2. FlavorTree' = "second"
    BY <1>1, <1>3, <2>1 DEF FlavorTree
  <2>3. list' = PatchList(head["second"])
    BY <1>1, <1>3 DEF RefreshFlavors, ResetPatches
  <2>4. cfg'.on = FlavorDefaults(cfg.on)
    BY <1>3 DEF Refilled, PrepareInv, Types, WindowTypes
  <2>5. Taken' = [list |-> PatchList(head["second"]), on |-> FlavorDefaults(asked.page.on)]
    BY <1>1, <2>2 DEF Taken
  <2> QED
    BY <1>1, <1>2, <1>3, <2>2, <2>3, <2>4, <2>5
<1>4. CASE Refreshed # "second"
  <2>1. Refreshed = FirstTree
    BY <1>4 DEF Refreshed
  <2>2. FlavorTree' = FirstTree
    BY <1>1, <1>4 DEF FlavorTree, FirstTree
  <2>3. UNCHANGED list /\ cfg' = cfg
    BY <1>1, <1>4 DEF RefreshFlavors, Refilled
  <2>4. Taken' = [list |-> asked.list, on |-> asked.page.on]
    BY <1>1, <1>4, <2>1, <2>2 DEF Taken
  <2> QED
    BY <1>1, <2>1, <2>2, <2>3, <2>4
<1> QED
  BY <1>3, <1>4

LEMMA ExecuteStepsBuild ==
    ASSUME PrepareInv, FilesInv, BuildInv, ExecuteSteps
    PROVE  BuildInv'
<1> USE DEF treeVars, uiVars, cwdVars
<1>1. /\ DOMAIN pc = Threads /\ "ui" \in Threads
      /\ failed \in BOOLEAN /\ Refreshed \in FlavorTrees \cup {"none"}
      /\ "second" \in RepoFlavors
  BY FlavorsKnown DEF PrepareInv, Types, ThreadTypes, Threads, Flags, RepoFlavors
<1>2. UNCHANGED <<git, head, source, url>>
  BY DEF ExecuteSteps, SetEnvironment, ReadSourceArray, InsertSourceArray, SetCustomName, Launch
<1>3. RepoKnown'
  BY <1>2 DEF BuildInv, RepoKnown
<1>4. EnvNamed'
  <2>1. CASE SetEnvironment
    BY <2>1, EnvironmentSet DEF BuildInv, EnvNamed, SetEnvironment
  <2>2. CASE ~ SetEnvironment
    BY <2>2 DEF ExecuteSteps, ReadSourceArray, InsertSourceArray, SetCustomName, Launch, BuildInv,
                EnvNamed
  <2> QED
    BY <2>1, <2>2
<1>f. ASSUME ~ failed' PROVE ~ failed /\ ~ Fails("ui")
  <2>1. Fails("ui") => failed' = TRUE
    BY Zenon DEF Fails
  <2>2. ~ Fails("ui")
    BY <1>f, <2>1
  <2>3. UNCHANGED failed \/ Fails("ui")
    BY DEF ExecuteSteps, SetEnvironment, ReadSourceArray, InsertSourceArray, SetCustomName, Edit,
           Launch
  <2> QED
    BY <1>f, <2>2, <2>3
<1>5. UrlSaved'
  <2>1. pc'["ui"] \in {"idle", "source", "insert", "name", "launch"}
    BY <1>1 DEF ExecuteSteps, SetEnvironment, ReadSourceArray, InsertSourceArray, SetCustomName, Edit,
           Launch, Rest
  <2>2. pc'["ui"] \notin Preparing
    BY <2>1 DEF Preparing, Trees
  <2> QED
    BY <2>2 DEF UrlSaved
<1>6. ASSUME Undisturbed' PROVE (RepoAt(pc["ui"]) /\ EditsAt(pc["ui"]) /\ AskedAt(pc["ui"]))'
  <2>0. pc["ui"] # "idle" /\ pc'["ui"] # "idle"
    BY <1>6 DEF ExecuteSteps, SetEnvironment, ReadSourceArray, InsertSourceArray, SetCustomName, Edit,
           Launch, Undisturbed
  <2>p. {"source", "insert", "name", "launch"} \cap (Preparing \cup {"prepared"}) = {}
    BY DEF Preparing, Trees
  <2>1. /\ UNCHANGED <<crowd, kept, asked>> /\ ~ Fails("ui")
        /\ RepoAt(pc["ui"]) /\ EditsAt(pc["ui"]) /\ AskedAt(pc["ui"])
    <3>1. UNCHANGED <<crowd, kept, asked>>
      BY <1>1, <2>0 DEF ExecuteSteps, SetEnvironment, ReadSourceArray, InsertSourceArray,
            SetCustomName, Edit, Launch, Rest, histVars
    <3> QED
      BY <1>6, <1>f, <2>0, <3>1 DEF Undisturbed, BuildInv
  <2>2. CASE SetEnvironment
    <3>1. Refreshed # "none" /\ pc["ui"] = "prepared" /\ pc'["ui"] = "source" /\ UNCHANGED file
      BY <1>1, <2>0, <2>2 DEF SetEnvironment, Rest
    <3>2. cfg' = Refilled /\ env' = AllSetValues(source, cfg'.on)
      BY <2>2, <3>1, EnvironmentSet DEF BuildInv
    <3>3. git["repo"] = source /\ \A f \in RepoFlavors : file[f] = head[f]
      BY <2>1, <3>1 DEF RepoAt
    <3>4. asked.page = cfg /\ asked.list = list
      BY <2>1, <3>1 DEF AskedAt
    <3>5. cfg'.name = asked'.page.name /\ cfg'.on = Taken'.on /\ list' = Taken'.list
      BY <1>1, <2>2, <3>1, <3>2, <3>3, <3>4, RefreshTakes
    <3>6. RepoAt(pc["ui"])'
      BY <1>2, <3>1, <3>3 DEF RepoAt
    <3>7. EditsAt(pc["ui"])'
      BY <1>2, <3>1, <3>2 DEF EditsAt, AllSetValues
    <3>8. AskedAt(pc["ui"])'
      BY <2>p, <3>1, <3>5 DEF AskedAt
    <3> QED
      BY <3>6, <3>7, <3>8
  <2>3. CASE ReadSourceArray
    <3>1. pc["ui"] = "source" /\ pc'["ui"] = "insert" /\ UNCHANGED <<file, cfg, env, list, second>>
          /\ orig' = SourceArray(file[FlavorTree])
      BY <1>1, <2>1, <2>3 DEF ReadSourceArray, winVars
    <3>2. UNCHANGED FlavorTree
      BY <3>1 DEF FlavorTree, FirstTree
    <3>3. /\ git["repo"] = source /\ env = AllSetValues(source, cfg.on)
          /\ \A f \in RepoFlavors : file[f] = head[f]
      BY <2>1, <3>1 DEF RepoAt, EditsAt
    <3>4. RepoAt(pc["ui"])'
      BY <1>2, <3>1, <3>3 DEF RepoAt
    <3>5. AllSetValues(source, cfg.on)' = AllSetValues(source, cfg.on)
      BY <1>2, <3>1 DEF AllSetValues
    <3>6. EditsAt(pc["ui"])'
      BY <1>2, <3>1, <3>2, <3>3, <3>5 DEF EditsAt
    <3>7. AskedAt(pc["ui"])'
      BY <1>2, <2>1, <2>p, <3>1, <3>2 DEF AskedAt, Taken
    <3> QED
      BY <3>4, <3>6, <3>7
  <2>4. CASE InsertSourceArray
    <3> DEFINE g == InsertSources(file[FlavorTree], orig, list)
    <3>1. /\ pc["ui"] = "insert" /\ pc'["ui"] = "name" /\ UNCHANGED <<cfg, env, list, second>>
          /\ FlavorTree # "none" /\ file' = [file EXCEPT ![FlavorTree] = g]
      BY <1>1, <2>1, <2>4 DEF InsertSourceArray, Edit, Rest, winVars
    <3>2. g # NoFile
      BY <3>1, InsertStep
    <3>3. FlavorTree' = FlavorTree /\ file'[FlavorTree] = g
      <4> HIDE DEF g
      <4> QED
        BY <3>1, <3>2, FlavorStays
    <3>4. /\ git["repo"] = source /\ env = AllSetValues(source, cfg.on)
          /\ \A f \in RepoFlavors : file[f] = head[f]
          /\ (FlavorTree \in RepoFlavors => orig = SourceArray(head[FlavorTree]))
      BY <2>1, <3>1 DEF RepoAt, EditsAt
    <3>5. RepoAt(pc["ui"])'
      BY <1>2, <3>1, <3>4 DEF RepoAt
    <3>6. AllSetValues(source, cfg.on)' = AllSetValues(source, cfg.on)
      BY <1>2, <3>1 DEF AllSetValues
    <3>7. FlavorTree \in RepoFlavors => file'[FlavorTree] = Inserted(FlavorTree)'
      BY <1>2, <3>1, <3>3, <3>4 DEF Inserted
    <3>8. EditsAt(pc["ui"])'
      BY <1>2, <3>1, <3>3, <3>4, <3>6, <3>7 DEF EditsAt
    <3>9. AskedAt(pc["ui"])'
      BY <1>2, <2>1, <2>p, <3>1, <3>3 DEF AskedAt, Taken
    <3> QED
      BY <3>5, <3>8, <3>9
  <2>5. CASE SetCustomName
    <3> DEFINE g == Rename(file[FlavorTree], cfg.name)
    <3>1. /\ pc["ui"] = "name" /\ pc'["ui"] = "launch" /\ UNCHANGED <<cfg, env, list, second>>
          /\ FlavorTree # "none" /\ file' = [file EXCEPT ![FlavorTree] = g]
          /\ CanRename(file[FlavorTree], cfg.name)
      BY <1>1, <2>1, <2>5 DEF SetCustomName, Edit, Rest, winVars
    <3>2. g # NoFile
      BY <3>1, RenameStep
    <3>3. FlavorTree' = FlavorTree /\ file'[FlavorTree] = g
      <4> HIDE DEF g
      <4> QED
        BY <3>1, <3>2, FlavorStays
    <3>4. git["repo"] = source /\ env = AllSetValues(source, cfg.on)
          /\ (FlavorTree \in RepoFlavors => file[FlavorTree] = Inserted(FlavorTree))
      BY <2>1, <3>1 DEF RepoAt, EditsAt
    <3>5. RepoAt(pc["ui"])'
      BY <1>2, <3>1, <3>4 DEF RepoAt
    <3>6. AllSetValues(source, cfg.on)' = AllSetValues(source, cfg.on)
          /\ Inserted(FlavorTree)' = Inserted(FlavorTree)
      BY <1>2, <3>1, <3>3 DEF AllSetValues, Inserted
    <3>7. FlavorTree \in RepoFlavors =>
              /\ CanRename(Inserted(FlavorTree), cfg.name)
              /\ file'[FlavorTree] = Rename(Inserted(FlavorTree), cfg.name)
      BY <3>1, <3>3, <3>4
    <3>8. EditsAt(pc["ui"])'
      BY <1>2, <3>1, <3>3, <3>4, <3>6, <3>7 DEF EditsAt
    <3>9. AskedAt(pc["ui"])'
      BY <1>2, <2>1, <2>p, <3>1, <3>3 DEF AskedAt, Taken
    <3> QED
      BY <3>5, <3>8, <3>9
  <2>6. CASE Launch
    BY <1>1, <2>0, <2>6 DEF Launch, Rest
  <2> QED
    BY <2>2, <2>3, <2>4, <2>5, <2>6 DEF ExecuteSteps
<1> QED
  BY <1>3, <1>4, <1>5, <1>6 DEF BuildInv

LEMMA BuildInductive ==
    ASSUME PrepareInv, FilesInv, BuildInv, [Next]_vars
    PROVE  BuildInv'
<1>1. CASE UNCHANGED vars
  <2> USE DEF vars, treeVars, uiVars, cwdVars, winVars, histVars
  <2>1. /\ UNCHANGED FlavorTree /\ AllSetValues(source, cfg.on)' = AllSetValues(source, cfg.on)
        /\ \A f : Inserted(f)' = Inserted(f)
    BY <1>1 DEF FlavorTree, FirstTree, Inserted, AllSetValues
  <2>2. UNCHANGED <<pc, git, url, source, cwd, origin, file, head, env, previous, cfg, orig, list>>
        /\ UNCHANGED <<asked, crowd, kept, failed>>
    BY <1>1
  <2>3. UNCHANGED Taken
    BY <2>1, <2>2 DEF Taken
  <2>4. RepoKnown' /\ EnvNamed' /\ UrlSaved' /\ (Undisturbed' => Undisturbed)
    BY <2>2 DEF BuildInv, RepoKnown, EnvNamed, UrlSaved, Undisturbed
  <2>5. Undisturbed' => RepoAt(pc["ui"])' /\ EditsAt(pc["ui"])' /\ AskedAt(pc["ui"])'
    <3> SUFFICES ASSUME Undisturbed'
                 PROVE  RepoAt(pc["ui"])' /\ EditsAt(pc["ui"])' /\ AskedAt(pc["ui"])'
      OBVIOUS
    <3>1. RepoAt(pc["ui"]) /\ EditsAt(pc["ui"]) /\ AskedAt(pc["ui"])
      BY <2>4 DEF BuildInv
    <3>2. RepoAt(pc["ui"])'
      BY <2>2, <3>1 DEF RepoAt
    <3>3. EditsAt(pc["ui"])'
      BY <2>1, <2>2, <3>1 DEF EditsAt
    <3>4. AskedAt(pc["ui"])'
      BY <2>1, <2>2, <2>3, <3>1 DEF AskedAt
    <3> QED
      BY <3>2, <3>3, <3>4
  <2> QED
    BY <2>4, <2>5 DEF BuildInv
<1> QED
  BY <1>1, UserStepsBuild, ExecuteStepsBuild, PrepareStepsBuild, PoolDoneBuild DEF Next

\* At the launch the edits are all done.
LEMMA BuildMeans ==
    ASSUME PrepareInv, FilesInv, BuildInv
    PROVE  BuildsWhatIsConfigured
<1> SUFFICES ASSUME pc["ui"] = "launch", "ui" \notin crowd \cup kept, ~ failed,
                    FlavorTree \in RepoFlavors
             PROVE  LET up == head[FlavorTree]
                        done == file[FlavorTree]
                        name == asked.page.name
                    IN /\ git["repo"] = source
                       /\ up.prep => SourceArray(done) = NonPatches(SourceArray(up)) \o Taken.list
                       /\ Inner(name, up.base) = {} =>
                              done.base = IF IsIdentity(name) THEN up.base
                                          ELSE Expand(name, up.base)
                       /\ env = AllSetValues(source, Taken.on)
  BY DEF BuildsWhatIsConfigured
<1> DEFINE up == head[FlavorTree]
           done == file[FlavorTree]
           mid == InsertSources(up, SourceArray(up), list)
<1>0. asked.page.name = cfg.name /\ Taken.on = cfg.on /\ Taken.list = list
  BY DEF BuildInv, Undisturbed, AskedAt
<1>1. /\ git["repo"] = source /\ env = AllSetValues(source, cfg.on)
      /\ CanRename(mid, cfg.name) /\ done = Rename(mid, cfg.name)
  BY DEF BuildInv, Undisturbed, RepoAt, EditsAt, Inserted
<1>2. up \in Files /\ (up.prep => up \in Layouts) /\ list \in Seq(Names) /\ cfg.name \in Bases
  <2>1. up \in Layouts \cup {NoFile}
    BY DEF FilesInv, FileTypes, FlavorTrees
  <2>2. ~ NoFile.prep
    BY DEF NoFile
  <2> QED
    BY <2>1, <2>2, LayoutTypes DEF FilesInv, ListTypes
<1>3. SourceArray(up) \in Seq(Names)
  BY <1>2, ArrayType DEF Files
<1>4. mid \in Files /\ mid.base = up.base
  BY <1>2, <1>3, InsertKeeps
<1>5. up.prep => SourceArray(mid) = NonPatches(SourceArray(up)) \o list
  <2> SUFFICES ASSUME up.prep PROVE SourceArray(mid) = NonPatches(SourceArray(up)) \o list
    OBVIOUS
  <2>1. \E i \in DOMAIN up.head : up.head[i].k = "stmt"
    BY <1>2, LayoutAssumption
  <2> QED
    BY <1>2, <1>3, <2>1, InsertedIsRead
<1> HIDE DEF mid
<1>6. /\ done.head = mid.head
      /\ done.base = IF IsIdentity(cfg.name) THEN mid.base
                     ELSE Expand(cfg.name, Unapply(cfg.name, mid.base))
  BY <1>1, <1>2, <1>4, RenameKeeps
<1>7. SourceArray(done) = SourceArray(mid)
  BY <1>6 DEF SourceArray
<1>8. Inner(cfg.name, up.base) = {} => Unapply(cfg.name, up.base) = up.base
  BY <1>2, UnapplyEquation DEF Files, Bases
<1> QED
  BY <1>0, <1>1, <1>4, <1>5, <1>6, <1>7, <1>8


-----------------------------------------------------------------------------
(* What an Execute finds of the last one's edits.                          *)

\* The edits with this list and name change nothing any more.
Settled(f, entries, name) ==
    f \in Files /\ entries \in Seq(Names) /\ HasBlock(f, entries) /\ Rename(f, name) = f

RepeatInv ==
    ~ overlap =>
        /\ last # NoEdit => Settled(last.file, last.list, last.name)
        /\ FlavorTree # "none" =>
               /\ pc["ui"] = "name" => HasBlock(file[FlavorTree], list)
               /\ pc["ui"] = "launch" => Settled(file[FlavorTree], list, cfg.name)

LEMMA RepeatInitInv == Init => RepeatInv
BY DEF Init, RepeatInv, Threads

\* A step that brings Execute to none of the two keeps the last edits settled.
LEMMA NotEditing ==
    ASSUME RepeatInv, UNCHANGED last, ~ overlap' => ~ overlap, pc'["ui"] \notin {"name", "launch"}
    PROVE  RepeatInv'
BY DEF RepeatInv

\* Without an overlap Execute is not editing while another thread is at work.
LEMMA NobodyEdits ==
    ASSUME PrepareInv, NEW t \in Pool, pc[t] # "idle", ~ overlap
    PROVE  pc["ui"] = "idle"
<1>1. t # "ui" /\ t \in Threads /\ "ui" \in Threads
  BY PrepareAssumption DEF Threads
<1> QED
  BY <1>1 DEF PrepareInv, Placed, OneAtWork, Running

LEMMA EditsSettle ==
    ASSUME PrepareInv, FilesInv, RepeatInv, InsertSourceArray \/ SetCustomName
    PROVE  RepeatInv'
<1> USE DEF uiVars
<1>1. DOMAIN pc = Threads /\ "ui" \in Threads /\ UNCHANGED <<last, list, second, overlap>>
  BY DEF PrepareInv, Types, ThreadTypes, Threads, InsertSourceArray, SetCustomName, winVars
<1>2. CASE pc'["ui"] = "idle"
  BY <1>1, <1>2, NotEditing
<1>3. CASE InsertSourceArray /\ pc'["ui"] # "idle"
  <2> DEFINE g == InsertSources(file[FlavorTree], orig, list)
  <2>1. /\ pc'["ui"] = "name" /\ FlavorTree # "none" /\ UNCHANGED cfg
        /\ file' = [file EXCEPT ![FlavorTree] = g]
    BY <1>1, <1>3 DEF InsertSourceArray, Edit, Rest
  <2>2. g # NoFile /\ HasBlock(g, list)
    BY <2>1, InsertStep
  <2> HIDE DEF g
  <2>3. FlavorTree' = FlavorTree /\ file'[FlavorTree] = g
    BY <1>1, <2>1, <2>2, FlavorStays
  <2> QED
    BY <1>1, <2>1, <2>2, <2>3 DEF RepeatInv
<1>4. CASE SetCustomName /\ pc'["ui"] # "idle"
  <2> DEFINE f == file[FlavorTree]
             g == Rename(f, cfg.name)
  <2>1. /\ pc["ui"] = "name" /\ pc'["ui"] = "launch" /\ FlavorTree # "none" /\ UNCHANGED cfg
        /\ CanRename(f, cfg.name) /\ file' = [file EXCEPT ![FlavorTree] = g]
    BY <1>1, <1>4 DEF SetCustomName, Edit, Rest
  <2>2. g \in Files /\ g # NoFile /\ g.head = f.head /\ g.prep = f.prep
    BY <2>1, RenameStep
  <2>3. Rename(g, cfg.name) = g
    BY <2>1, FlavorThere, RenameAgain DEF FilesInv, ListTypes
  <2> HIDE DEF f, g
  <2>4. FlavorTree' = FlavorTree /\ file'[FlavorTree] = g
    BY <1>1, <2>1, <2>2, FlavorStays
  <2>5. ~ overlap => HasBlock(f, list)
    BY <2>1 DEF RepeatInv, f
  <2>6. ~ overlap => Settled(g, list, cfg.name)
    BY <2>2, <2>3, <2>5 DEF Settled, HasBlock, FilesInv, ListTypes
  <2> QED
    BY <1>1, <2>1, <2>4, <2>6 DEF RepeatInv
<1> QED
  BY <1>2, <1>3, <1>4

LEMMA RepeatInductive ==
    ASSUME PrepareInv, FilesInv, RepeatInv, [Next]_vars
    PROVE  RepeatInv'
<1> USE DEF uiVars, histVars, treeVars
<1>0. DOMAIN pc = Threads /\ "ui" \in Threads /\ overlap \in BOOLEAN
  BY DEF PrepareInv, Types, ThreadTypes, Threads, Flags
<1>1. CASE UserSteps
  <2>1. UNCHANGED last /\ (~ overlap' => ~ overlap)
    BY <1>0, <1>1 DEF UserSteps, Configure, Execute, BeginPrepare, AddEntry, RemoveEntry,
          ResetList, SelectFlavor, CancelDialog, CloseWindow
  <2>2. pc'["ui"] \in {"idle", "parent"}
    BY <1>0, <1>1 DEF UserSteps, Configure, Execute, AddEntry, RemoveEntry, ResetList,
          SelectFlavor, CancelDialog, CloseWindow, UserEdit
  <2> QED
    BY <2>1, <2>2, NotEditing
<1>2. CASE SetEnvironment \/ ReadSourceArray
  <2>1. UNCHANGED <<last, overlap>> /\ pc'["ui"] \notin {"name", "launch"}
    BY <1>0, <1>2 DEF SetEnvironment, ReadSourceArray, Rest
  <2> QED
    BY <2>1, NotEditing
<1>3. CASE InsertSourceArray \/ SetCustomName
  BY <1>3, EditsSettle
<1>4. CASE Launch
  <2>1. pc["ui"] = "launch" /\ pc'["ui"] = "idle" /\ UNCHANGED overlap
    BY <1>0, <1>4 DEF Launch, Rest
  <2>2. CASE FlavorTree = "none"
    BY <1>4, <2>1, <2>2, NotEditing DEF Launch
  <2>3. CASE FlavorTree # "none"
    <3>1. last'.name = cfg.name /\ last'.list = list /\ last'.file = file[FlavorTree]
      BY <1>4, <2>3 DEF Launch
    <3> QED
      BY <2>1, <2>3, <3>1 DEF RepeatInv
  <2> QED
    BY <2>2, <2>3
<1>5. CASE \E t \in Threads : PrepareSteps(t)
  <2>1. PICK t \in Threads : PrepareSteps(t)
    BY <1>5
  <2>2. UNCHANGED <<last, overlap>>
    BY <2>1 DEF PrepareSteps, EnterParent, DropPlain, VisitRepo, ReadOrigin, BackToParent, WipeRepo,
         StartClone, EndClone, EnterRepo, Checkout, Clean, Pull, Leave
  <2>3. ~ overlap => pc'["ui"] \notin {"name", "launch"}
    <3>1. CASE t = "ui"
      <4>1. pc'["ui"] \in Preparing \cup {"prepared"}
        BY <1>0, <2>1, <3>1 DEF PrepareSteps, EnterParent, DropPlain, VisitRepo, ReadOrigin,
              BackToParent, WipeRepo, StartClone, EndClone, EnterRepo, Checkout, Clean, Pull, Leave,
              Preparing, Trees, AfterNoParent, CloneTarget
      <4> QED
        BY <4>1 DEF Preparing, Trees
    <3>2. CASE t # "ui"
      <4>1. pc[t] \in Preparing /\ pc' = [pc EXCEPT ![t] = pc'[t]]
        BY <2>1, PrepareFrame
      <4>2. pc[t] # "idle" /\ t \in Pool /\ pc'["ui"] = pc["ui"]
        BY <1>0, <3>2, <4>1 DEF Preparing, Trees, Threads
      <4> QED
        BY <4>2, NobodyEdits
    <3> QED
      BY <3>1, <3>2
  <2> QED
    BY <2>2, <2>3 DEF RepeatInv
<1>6. CASE \E t \in Pool : PoolDone(t)
  <2>1. PICK t \in Pool : PoolDone(t)
    BY <1>6
  <2>2. UNCHANGED <<last, overlap>> /\ pc[t] # "idle" /\ pc'["ui"] = pc["ui"]
    BY <1>0, <2>1, PrepareAssumption DEF PoolDone, Rest
  <2>3. ~ overlap => pc'["ui"] = "idle"
    BY <2>2, NobodyEdits
  <2> QED
    BY <2>2, <2>3 DEF RepeatInv
<1>7. CASE UNCHANGED vars
  <2>1. UNCHANGED <<FlavorTree, last, overlap, pc, list, cfg, file>>
    BY <1>7 DEF vars, winVars, FlavorTree, FirstTree
  <2> QED
    BY <2>1 DEF RepeatInv
<1> QED
  BY <1>1, <1>2, <1>3, <1>4, <1>5, <1>6, <1>7 DEF Next, ExecuteSteps

\* The steps out of the two edits are the edits' own.
LEMMA RepeatMeans ==
    ASSUME PrepareInv, FilesInv, RepeatInv, [Next]_vars,
           ~ overlap, pc["ui"] \in {"insert", "name"}, pc'["ui"] # pc["ui"],
           FlavorTree # "none", last # NoEdit, last.file = file[FlavorTree],
           last.list = list, ToSet(list) \subseteq Patches, last.name = cfg.name,
           pc["ui"] = "name" \/ orig = SourceArray(last.file)
    PROVE  UNCHANGED file
<1> USE DEF uiVars, treeVars
<1>1. Settled(file[FlavorTree], list, cfg.name)
  BY DEF RepeatInv
<1>2. file \in [FlavorTrees -> Files] /\ FlavorTree \in FlavorTrees
  BY FlavorThere DEF FilesInv, FileTypes
<1>3. [file EXCEPT ![FlavorTree] = file[FlavorTree]] = file
  BY <1>2
<1>4. DOMAIN pc = Threads /\ "ui" \in Threads
  BY DEF PrepareInv, Types, ThreadTypes, Threads
<1>5. CASE InsertSourceArray
  <2>1. pc["ui"] = "insert"
    BY <1>5 DEF InsertSourceArray, Edit
  <2>2. \A i \in 1..Len(list) : list[i] \in Patches
    <3>1. list \in Seq(Names)
      BY <1>1 DEF Settled
    <3>2. DOMAIN list = 1..Len(list)
      BY <3>1
    <3> QED
      BY <3>2 DEF ToSet
  <2>3. InsertSources(file[FlavorTree], orig, list) = file[FlavorTree]
    <3>1. orig = SourceArray(file[FlavorTree])
      BY <2>1
    <3> QED
      BY <1>1, <2>2, <3>1, InsertAgain DEF Settled
  <2> QED
    BY <1>3, <1>5, <2>3 DEF InsertSourceArray, Edit
<1>6. CASE SetCustomName
  <2>1. Rename(file[FlavorTree], cfg.name) = file[FlavorTree]
    BY <1>1 DEF Settled
  <2> QED
    BY <1>3, <1>6, <2>1 DEF SetCustomName, Edit
<1>7. CASE ~ InsertSourceArray /\ ~ SetCustomName
  <2>1. CASE \E t \in Threads : PrepareSteps(t)
    <3>1. PICK t \in Threads : PrepareSteps(t)
      BY <2>1
    <3>2. pc[t] \in Preparing /\ pc' = [pc EXCEPT ![t] = pc'[t]]
      BY <3>1, PrepareFrame
    <3>3. t = "ui"
      BY <1>4, <3>2
    <3> QED
      BY <3>2, <3>3 DEF Preparing, Trees
  <2>2. CASE \E t \in Pool : PoolDone(t)
    BY <1>4, <2>2, PrepareAssumption DEF PoolDone, Rest
  <2>3. CASE UserSteps
    BY <2>3 DEF UserSteps, Configure, Execute, AddEntry, RemoveEntry, ResetList, SelectFlavor,
          CancelDialog, CloseWindow, UserEdit
  <2>4. CASE UNCHANGED vars
    BY <2>4 DEF vars
  <2>5. CASE SetEnvironment \/ ReadSourceArray \/ Launch
    BY <2>5 DEF SetEnvironment, ReadSourceArray, Launch
  <2> QED
    BY <1>7, <2>1, <2>2, <2>3, <2>4, <2>5 DEF Next, ExecuteSteps
<1> QED
  BY <1>5, <1>6, <1>7

-----------------------------------------------------------------------------
\* The inductive invariants of the PKGBUILDs, of a lone Execute and of its repetition.
THEOREM ExecuteInvariant == Spec => [](PrepareInv /\ FilesInv /\ BuildInv /\ RepeatInv)
<1>1. Init => PrepareInv /\ FilesInv /\ BuildInv /\ RepeatInv
  BY PrepareInitInv, FilesInitInv, BuildInitInv, RepeatInitInv
<1>2. /\ PrepareInv /\ FilesInv /\ BuildInv /\ RepeatInv
      /\ [Next]_vars
      => (PrepareInv /\ FilesInv /\ BuildInv /\ RepeatInv)'
  BY PrepareInductive, FilesInductive, BuildInductive, RepeatInductive
<1> QED
  BY <1>1, <1>2, PTL DEF Spec

\* Whatever the pages and upstream's PKGBUILDs hold, the launch after an Execute
\* without an error builds the selected source: the first flavor with the patches, name
\* and options of the click, another with what the flavor's handler, which
\* refresh_flavors triggers (conf-window.cpp), leaves of them.
THEOREM LaunchIsConfigured == Spec => []BuildsWhatIsConfigured
<1>1. PrepareInv /\ FilesInv /\ BuildInv => BuildsWhatIsConfigured
  BY BuildMeans
<1> QED
  BY <1>1, ExecuteInvariant, PTL

\* The edits of on_execute keep every line of a PKGBUILD that is not the source
\* array's, in its place, whoever runs and whatever overlaps.
THEOREM EditsKeepForeign == Spec => []ForeignKept
<1>1. FilesInv => ForeignKept
  BY FilesMean
<1> QED
  BY <1>1, ExecuteInvariant, PTL

\* insert_new_source_array_into_pkgbuild and apply_pkgbuild_custom_name are
\* idempotent: an Execute over the last one's edits changes nothing.
THEOREM ExecuteRepeats == Spec => RepeatIsStable
<1>1. PrepareInv /\ FilesInv /\ RepeatInv /\ [Next]_vars =>
        [/\ ~overlap /\ pc["ui"] \in {"insert", "name"} /\ pc'["ui"] # pc["ui"]
         /\ FlavorTree # "none" /\ last # NoEdit
         /\ last.file = file[FlavorTree]
         /\ last.list = list /\ ToSet(list) \subseteq Patches
         /\ last.name = cfg.name
         /\ pc["ui"] = "name" \/ orig = SourceArray(last.file)
         => UNCHANGED file]_vars
  BY RepeatMeans
<1> QED
  BY <1>1, ExecuteInvariant, PTL DEF Spec, RepeatIsStable
=============================================================================
