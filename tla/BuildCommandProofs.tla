--------------------------- MODULE BuildCommandProofs ---------------------------
(***************************************************************************)
(* The build's command proved for any keys, any ways of reporting them and *)
(* any launch of terminal-helper around it.                                *)
(***************************************************************************)
EXTENDS BuildCommand, TerminalHelperProofs

USE DEF helperVars, wrapperVars, fileVars, launchVars, keyVars, scriptVars, histVars, buildVars

-----------------------------------------------------------------------------
LEMMA StepIsLaunchStep == [BuildNext]_allVars => [Next]_vars
<1> SUFFICES ASSUME [BuildNext]_allVars PROVE [Next]_vars
  OBVIOUS
<1>1. CASE LaunchSteps
  BY <1>1 DEF LaunchSteps, Next
<1>2. CASE StartsBuild \/ EndsOther \/ Closes
  BY <1>2 DEF StartsBuild, EndsOther, Closes, Next, WrapperSteps
<1>3. CASE (Opens \/ WritesCode \/ TouchesDone \/ Refused) /\ UNCHANGED buildVars
  BY <1>3 DEF Next, WrapperSteps
<1>4. CASE PressEnter \/ Interrupt
  <2>1. last' \in Codes
    BY <1>4, BuildAssumption DEF PressEnter, Interrupt
  <2>2. CommandEnds
    BY <1>4, <2>1 DEF PressEnter, Interrupt, At, CommandEnds
  <2> QED
    BY <2>2 DEF Next, WrapperSteps
<1>5. CASE EnterFlavor \/ Makepkg \/ ImportKeys \/ HintKey \/ Propagate \/ TouchMarker
  BY <1>5 DEF EnterFlavor, Makepkg, ImportKeys, HintKey, Propagate, TouchMarker, vars
<1>6. CASE UNCHANGED allVars
  BY <1>6 DEF allVars, vars
<1> QED
  BY <1>1, <1>2, <1>3, <1>4, <1>5, <1>6 DEF BuildNext, TerminalSteps, BuildSteps

\* A build's command is a command like any other to terminal-helper: all that is
\* proved of a launch holds of a build's.
THEOREM BuildIsLaunch == BuildSpec => Spec
<1>1. BuildInit => Init
  BY DEF BuildInit
<1>2. [BuildNext]_allVars => [Next]_vars
  BY StepIsLaunchStep
<1> QED
  BY <1>1, <1>2, PTL DEF BuildSpec, Spec

\* The exit code of a build's launch is its command's, or the helper's own for a
\* deadline or a missing terminal.
THEOREM BuildCodeIsReal == BuildSpec => []CodeIsReal
BY BuildIsLaunch, CodeStaysReal, PTL

\* No build begins once terminal-helper has answered.
THEOREM NoLateBuild == BuildSpec => NoLateStart
BY BuildIsLaunch, NothingStartsLate, PTL

-----------------------------------------------------------------------------
(* Why a build fails.                                                      *)

Excused ==
    \/ other \/ hindered
    \/ \E k \in Keys : form[k] = "bare"
    \/ \E j, k \in Keys : form[j] # form[k]

\* Without an excuse a first failure has every missing key in the log, under the
\* one needle that finds them; then they are all fetched, and makepkg succeeds.
AttemptsMean ==
    /\ log \subseteq {<<form[k], k>> : k \in Keys}
    /\ bpc = "cd" => tries = 0
    /\ ~ Excused =>
          /\ bpc = "make" /\ tries # 0 => Keys \subseteq ring
          /\ bpc = "scan" => /\ tries = 1
                             /\ Keys \ ring # {}
                             /\ \A k \in Keys \ ring : <<form[k], k>> \in log
          /\ bpc = "touch" => ret = 0

ScriptTypes ==
    /\ form \in [Keys -> Forms]
    /\ tries \in Nat /\ other \in BOOLEAN /\ hindered \in BOOLEAN

BuildInv == ScriptTypes /\ AttemptsMean

\* One way of reporting keys: the needles find them all.
LEMMA NeedlesFindAll ==
    ASSUME BuildInv, ~ Excused, bpc = "scan"
    PROVE  Keys \ ring \subseteq KeyIds /\ KeyIds # {}
<1>1. PICK k \in Keys \ ring : TRUE
  BY DEF BuildInv, AttemptsMean
<1>2. form[k] \in {"unknown", "keyring", "paired"}
  BY DEF BuildInv, ScriptTypes, Forms, Excused
<1>3. \A j \in Keys : form[j] = form[k]
  BY DEF Excused
<1>4. \A j \in Keys \ ring : j \in Named(form[k])
  BY <1>3 DEF BuildInv, AttemptsMean, Named
<1>5. \A f : f # form[k] => Named(f) = {}
  <2> SUFFICES ASSUME NEW f, NEW j \in Keys, <<f, j>> \in log PROVE f = form[k]
    BY DEF Named
  <2>1. PICK i \in Keys : <<f, j>> = <<form[i], i>>
    BY DEF BuildInv, AttemptsMean
  <2> QED
    BY <2>1, <1>3
<1>6. Named(form[k]) # {}
  BY <1>1, <1>4
<1>7. KeyIds = Named(form[k])
  BY <1>2, <1>5, <1>6 DEF KeyIds
<1> QED
  BY <1>4, <1>6, <1>7

LEMMA BuildInitInv == BuildInit => BuildInv
<1> SUFFICES ASSUME BuildInit PROVE BuildInv
  OBVIOUS
<1>1. other \in BOOLEAN /\ hindered \in BOOLEAN
  BY DEF BuildInit
<1> QED
  BY <1>1 DEF BuildInit, BuildInv, ScriptTypes, AttemptsMean

LEMMA BuildStepInv == BuildInv /\ [BuildNext]_allVars => BuildInv'
<1> SUFFICES ASSUME BuildInv, [BuildNext]_allVars PROVE BuildInv'
  OBVIOUS
<1> USE DEF At
<1>0. ASSUME UNCHANGED <<keyVars, ring, tries, log, histVars>>,
             bpc' \in {"none", "read"} \/ UNCHANGED <<bpc, ret>>
      PROVE  BuildInv'
  BY <1>0 DEF BuildInv, ScriptTypes, AttemptsMean, Excused
<1>1. CASE LaunchSteps \/ EndsOther \/ Closes \/ PressEnter \/ Interrupt \/ TouchMarker
           \/ UNCHANGED allVars \/ ((Opens \/ WritesCode \/ TouchesDone \/ Refused)
                                    /\ UNCHANGED buildVars)
  BY <1>1, <1>0 DEF LaunchSteps, EndsOther, Closes, PressEnter, Interrupt, TouchMarker, allVars
<1>2. CASE StartsBuild
  <2>1. CASE kind = "build"
    BY <1>2, <2>1 DEF StartsBuild, BuildInv, ScriptTypes, AttemptsMean, Excused
  <2>2. CASE kind # "build"
    BY <1>2, <2>2, <1>0 DEF StartsBuild
  <2> QED
    BY <2>1, <2>2
<1>3. CASE EnterFlavor
  BY <1>3 DEF EnterFlavor, BuildInv, ScriptTypes, AttemptsMean, Excused
<1>4. CASE Makepkg
  <2>b. other' \in BOOLEAN
    BY <1>4 DEF Makepkg, BuildInv, ScriptTypes
  <2>t. ScriptTypes'
    BY <1>4, <2>b DEF Makepkg, BuildInv, ScriptTypes
  <2>1. CASE bpc' = "touch" /\ ret' = 0 /\ UNCHANGED log
    BY <1>4, <2>t, <2>1 DEF Makepkg, BuildInv, AttemptsMean
  <2>2. CASE /\ ~ (Keys \subseteq ring)
             /\ log' = log \cup {<<form[k], k>> : k \in Keys \ ring}
             /\ bpc' = "scan" /\ UNCHANGED other
    <3>1. ~ Excused' => tries = 0
      BY <1>4, <2>2 DEF Makepkg, BuildInv, AttemptsMean, Excused
    <3> QED
      BY <1>4, <2>t, <2>2, <3>1 DEF Makepkg, BuildInv, AttemptsMean, ScriptTypes
  <2>3. CASE bpc' = "scan" /\ other' /\ UNCHANGED log
    BY <1>4, <2>t, <2>3 DEF Makepkg, BuildInv, AttemptsMean, Excused
  <2> QED
    BY <1>4, <2>1, <2>2, <2>3 DEF Makepkg
<1>5. CASE ImportKeys
  <2>1. PICK got \in SUBSET KeyIds :
            /\ ring' = ring \cup got
            /\ hindered' = (hindered \/ ~ (KeyIds \subseteq ring'))
    BY <1>5 DEF ImportKeys
  <2>t. ScriptTypes'
    BY <1>5, <2>1 DEF ImportKeys, BuildInv, ScriptTypes
  <2>2. CASE Excused
    BY <1>5, <2>t, <2>1, <2>2 DEF ImportKeys, Retried, BuildInv, AttemptsMean, Excused
  <2>3. CASE ~ Excused
    <3>1. tries = 1 /\ Keys \ ring \subseteq KeyIds
      BY <1>5, <2>3, NeedlesFindAll DEF ImportKeys, BuildInv, AttemptsMean
    <3>2. ~ Excused' => Keys \subseteq ring'
      BY <2>1, <3>1 DEF Excused
    <3>3. bpc' = "make"
      BY <1>5, <3>1 DEF ImportKeys, Retried, MayRetry
    <3> QED
      BY <1>5, <2>t, <3>2, <3>3 DEF ImportKeys, BuildInv, AttemptsMean
  <2> QED
    BY <2>2, <2>3
<1>6. CASE HintKey \/ Propagate
  <2>t. ScriptTypes'
    BY <1>6 DEF HintKey, Propagate, BuildInv, ScriptTypes
  <2>1. Excused
    BY <1>6, NeedlesFindAll DEF HintKey, Propagate
  <2> QED
    BY <1>6, <2>t, <2>1 DEF HintKey, Propagate, Retried, BuildInv, AttemptsMean, Excused
<1> QED
  BY <1>1, <1>2, <1>3, <1>4, <1>5, <1>6 DEF BuildNext, TerminalSteps, BuildSteps

\* build_helper.sh gives up on a build that lacks nothing but keys only when a key
\* could not be fetched, has no ID in the log, or two keys were reported in two
\* ways (build_helper.sh:56).
THEOREM FailureHasReason == BuildSpec => []FailsForAReason
<1>1. BuildInv => FailsForAReason
  BY DEF BuildInv, AttemptsMean, Excused, FailsForAReason
<1>2. BuildInit => BuildInv
  BY BuildInitInv
<1>3. BuildInv /\ [BuildNext]_allVars => BuildInv'
  BY BuildStepInv
<1> QED
  BY <1>1, <1>2, <1>3, PTL DEF BuildSpec

-----------------------------------------------------------------------------
(* The job that ConfWindow's handlers reckon with.                         *)

\* The marker, and the code that sets it, mean packages; a begun command has run.
JobMeans ==
    /\ marker => made /\ runs > 0
    /\ bpc = "touch" /\ ret = 0 => made
    /\ bpc = "scan" => ret # 0
    /\ wpc \in Begun => runs > 0
    /\ made \in BOOLEAN /\ marker \in BOOLEAN

JobInv == IInv /\ JobMeans

LEMMA JobInitInv == BuildInit => JobInv
<1> SUFFICES ASSUME BuildInit PROVE JobInv
  OBVIOUS
<1>1. IInv
  BY InitInv DEF BuildInit
<1>2. JobMeans
  <2>1. made \in BOOLEAN /\ marker \in BOOLEAN
    BY DEF BuildInit
  <2> QED
    BY <2>1 DEF BuildInit, JobMeans, Init, Begun
<1> QED
  BY <1>1, <1>2 DEF JobInv

LEMMA JobStepInv == JobInv /\ [BuildNext]_allVars => JobInv'
<1> SUFFICES ASSUME JobInv, [BuildNext]_allVars PROVE JobInv'
  OBVIOUS
<1>1. IInv'
  BY StepIsLaunchStep, NextInv DEF JobInv
<1>r. runs \in 0..2
  BY DEF JobInv, IInv, TypeOK
<1>2. (wpc \in Begun => runs > 0)'
  <2>1. CASE LaunchSteps
    BY <2>1 DEF LaunchSteps, HelperSteps, NoTerminal, Launch, EvalReturns, SeesStarted, StartExpires,
                SeesDone, DoneExpires, Cleanup, RemoveRunDir, RemovalFails, Exit, JobInv, JobMeans,
                Begun
  <2>2. CASE StartsBuild
    BY <2>2, <1>r DEF StartsBuild, Starts
  <2>3. CASE ~ LaunchSteps /\ ~ StartsBuild
    BY <2>3 DEF BuildNext, TerminalSteps, BuildSteps, EndsOther, CommandEnds, Closes, WindowCloses,
                Opens, WritesCode, TouchesDone, TouchedFrom, Refused, EnterFlavor, Makepkg, ImportKeys,
                HintKey, Propagate, TouchMarker, PressEnter, Interrupt, At, allVars, vars,
                JobInv, JobMeans, Begun
  <2> QED
    BY <2>1, <2>2, <2>3
<1>3. runs > 0 => runs' > 0
  <2>1. CASE Starts
    BY <2>1, <1>r DEF Starts
  <2>2. CASE UNCHANGED runs
    BY <2>2
  <2> QED
    BY <2>1, <2>2, StepIsLaunchStep
       DEF Next, HelperSteps, NoTerminal, Launch, EvalReturns, SeesStarted, StartExpires, SeesDone,
           DoneExpires, Cleanup, RemoveRunDir, RemovalFails, Exit, WrapperSteps, Opens, CommandEnds, WritesCode, TouchesDone, Refused,
           WindowCloses, vars
<1>4. made' \in BOOLEAN /\ marker' \in BOOLEAN
  <2>1. made \in BOOLEAN /\ marker \in BOOLEAN
    BY DEF JobInv, JobMeans
  <2>2. CASE Makepkg
    BY <2>1, <2>2 DEF Makepkg
  <2>3. CASE TouchMarker
    BY <2>1, <2>3 DEF TouchMarker
  <2>4. CASE UNCHANGED <<made, marker>>
    BY <2>1, <2>4
  <2> QED
    BY <2>2, <2>3, <2>4 DEF BuildNext, TerminalSteps, BuildSteps, LaunchSteps, EndsOther, Closes,
       StartsBuild, EnterFlavor, ImportKeys, HintKey, Propagate, PressEnter, Interrupt, allVars
<1>s. (bpc = "scan" => ret # 0)'
  BY DEF BuildNext, TerminalSteps, BuildSteps, LaunchSteps, EndsOther, Closes, StartsBuild, EnterFlavor,
         Makepkg, ImportKeys, HintKey, Propagate, Retried, TouchMarker, PressEnter, Interrupt, At,
         allVars, JobInv, JobMeans
<1>5. (marker => made /\ runs > 0)' /\ (bpc = "touch" /\ ret = 0 => made)'
  <2>0. (marker => made /\ runs > 0) /\ (bpc = "touch" /\ ret = 0 => made)
    BY DEF JobInv, JobMeans
  <2>1. CASE UNCHANGED <<made, marker, bpc, ret>>
    BY <2>0, <2>1, <1>3
  <2>2. CASE UNCHANGED <<made, marker>> /\ bpc' # "touch"
    BY <2>0, <2>2, <1>3
  <2>3. CASE Makepkg
    BY <2>0, <2>3, <1>3 DEF Makepkg
  <2>4. CASE ImportKeys \/ HintKey \/ Propagate
    <3>1. UNCHANGED <<made, marker>>
      BY <2>4 DEF ImportKeys, HintKey, Propagate
    <3>2. bpc' = "touch" => ret' # 0
      BY <2>4 DEF ImportKeys, HintKey, Propagate, Retried, At, JobInv, JobMeans
    <3> QED
      BY <2>0, <3>1, <3>2, <1>3
  <2>5. CASE TouchMarker
    <3>1. runs > 0
      BY <2>5 DEF TouchMarker, At, JobInv, JobMeans, Begun
    <3> QED
      BY <2>0, <2>5, <3>1, <1>3 DEF TouchMarker, Touched, At
  <2> QED
    BY <2>1, <2>2, <2>3, <2>4, <2>5
       DEF BuildNext, TerminalSteps, BuildSteps, LaunchSteps, EndsOther, Closes, StartsBuild,
           EnterFlavor, PressEnter, Interrupt, allVars
<1> QED
  BY <1>1, <1>2, <1>4, <1>5, <1>s DEF JobInv, JobMeans

\* What a job's state depends on.
LEMMA JobStateStays ==
    ASSUME UNCHANGED <<wpc, hpc, terminal, attempts, script, runs, marker>>
    PROVE  UNCHANGED JobState
BY DEF JobState, Started, CanStart

LEMMA HelperIsJob ==
    ASSUME JobInv, JobInv', LaunchSteps
    PROVE  [Job!Next]_(Job!vars)
<1> USE DEF JobState, Started, CanStart, Job!Next, Job!vars
<1>u. UNCHANGED <<made, marker>>
  BY DEF LaunchSteps
<1>x. hpc # "exited"
  BY DEF LaunchSteps, HelperSteps, NoTerminal, Launch, EvalReturns, SeesStarted, StartExpires,
         SeesDone, DoneExpires, Cleanup, RemoveRunDir, RemovalFails, Exit
<1>1. CASE NoTerminal
  <2>1. runs = 0 /\ wpc = "none" /\ ~ marker
    BY <1>1 DEF NoTerminal, JobInv, IInv, EvalDone, StartsCounted, JobMeans, TypeOK
  <2> QED
    BY <1>1, <1>u, <1>x, <2>1 DEF NoTerminal, Job!Answer
<1>2. CASE Launch
  BY <1>2, <1>u, <1>x DEF Launch, JobInv, IInv, TypeOK, StartsCounted
<1>3. CASE EvalReturns
  BY <1>3, <1>u, <1>x DEF EvalReturns, Job!End, JobInv, IInv, EvalDone
<1>4. CASE SeesStarted \/ SeesDone \/ DoneExpires \/ StartExpires \/ Cleanup \/ RemoveRunDir
  BY <1>4, <1>u, <1>x DEF SeesStarted, SeesDone, DoneExpires, StartExpires, Cleanup, RemoveRunDir
<1>a. hpc # "eval" /\ wpc = "asked" => runs = 0 /\ ~ marker
  BY DEF JobInv, IInv, TypeOK, StartsCounted, EvalDone, Over, JobMeans
\* The answer: a script that is gone and not yet opened is a job that is over.
<1>5. CASE Exit
  <2>1. hpc = "unlink" /\ hpc' = "exited" /\ script' = FALSE
        /\ UNCHANGED <<wpc, runs, terminal, attempts>>
    BY <1>5 DEF Exit, ScriptAfter
  <2>2. wpc = "command" => runs > 0
    BY DEF JobInv, JobMeans, Begun
  <2>3. CASE wpc = "asked"
    BY <1>u, <1>a, <2>1, <2>3 DEF Job!Answer, JobInv, IInv, HelperKnows
  <2>4. CASE wpc = "opened"
    BY <1>u, <2>1, <2>4 DEF Job!Answer
  <2>5. CASE wpc \notin {"asked", "opened"}
    BY <1>u, <2>1, <2>2, <2>5 DEF Job!Answer
  <2> QED
    BY <2>3, <2>4, <2>5
<1>6. CASE RemovalFails
  <2>1. hpc = "rmdir" /\ hpc' = "exited" /\ out' = 1
        /\ UNCHANGED <<wpc, runs, terminal, attempts, script>>
    BY <1>6 DEF RemovalFails
  <2>2. runs > 0 /\ wpc # "asked"
    BY <1>6, <1>a, <2>1, RemovalNeedsCommand DEF JobInv
  <2> QED
    BY <1>u, <2>1, <2>2 DEF Job!Answer
<1> QED
  BY <1>1, <1>2, <1>3, <1>4, <1>5, <1>6 DEF LaunchSteps, HelperSteps

\* The command at work: the job runs or, once marked, is built.
LEMMA WorkingState ==
    ASSUME JobInv, wpc = "command"
    PROVE  JobState = IF marker THEN "built" ELSE "running"
BY DEF JobState, Started, JobInv, JobMeans, Begun

LEMMA CommandIsJob ==
    ASSUME JobInv, JobInv', BuildSteps \/ Interrupt
    PROVE  [Job!Next]_(Job!vars)
<1> USE DEF At, Job!Next, Job!vars
<1>0. wpc = "command"
  BY DEF BuildSteps, EnterFlavor, Makepkg, ImportKeys, HintKey, Propagate, TouchMarker, PressEnter,
         Interrupt
<1>1. CASE EnterFlavor \/ ImportKeys \/ HintKey \/ Propagate
  <2>1. UNCHANGED <<wpc, hpc, terminal, attempts, script, runs, marker, made>>
    BY <1>1 DEF EnterFlavor, ImportKeys, HintKey, Propagate
  <2> QED
    BY <2>1, JobStateStays
<1>2. CASE Makepkg
  <2>1. UNCHANGED <<wpc, hpc, terminal, attempts, script, runs, marker>>
    BY <1>2 DEF Makepkg
  <2>2. UNCHANGED JobState /\ UNCHANGED hpc
    BY <2>1, JobStateStays
  <2>3. made' = made \/ made' = TRUE
    BY <1>2 DEF Makepkg
  <2>4. marker => made = TRUE
    BY DEF JobInv, JobMeans
  <2>5. JobState = IF marker THEN "built" ELSE "running"
    BY <1>0, WorkingState
  <2> QED
    BY <2>1, <2>2, <2>3, <2>4, <2>5 DEF Job!Make
<1>3. CASE TouchMarker
  <2>1. /\ UNCHANGED <<wpc, hpc, terminal, attempts, script, runs, made>>
        /\ marker' = (marker \/ ret = 0)
    BY <1>3 DEF TouchMarker, Touched
  <2>2. CASE marker \/ ret # 0
    <3>1. UNCHANGED marker
      BY <2>1, <2>2 DEF JobInv, JobMeans
    <3> QED
      BY <2>1, <3>1, JobStateStays
  <2>3. CASE ~ marker /\ ret = 0
    <3>1. marker' = TRUE /\ made
      BY <1>3, <2>1, <2>3 DEF TouchMarker, JobInv, JobMeans
    <3>2. JobState = "running" /\ JobState' = "built"
      BY <1>0, <2>1, <2>3, <3>1, WorkingState DEF JobState, Started
    <3> QED
      BY <2>1, <3>1, <3>2 DEF Job!Mark
  <2> QED
    BY <2>2, <2>3
\* The command ends: the job is over, or alacritty runs it again.
<1>4. CASE PressEnter \/ Interrupt
  <2>1. UNCHANGED <<hpc, terminal, attempts, script, runs, made, marker>> /\ wpc' = "ended"
    BY <1>4 DEF PressEnter, Interrupt
  <2>2. JobState' = JobState \/ JobState' = "over"
    BY <1>0, <2>1 DEF JobState, Started, CanStart, JobInv, JobMeans, Begun
  <2> QED
    BY <2>1, <2>2 DEF Job!End
<1> QED
  BY <1>1, <1>2, <1>3, <1>4 DEF BuildSteps

LEMMA TerminalIsJob ==
    ASSUME JobInv, JobInv', StartsBuild \/ EndsOther \/ Closes
           \/ ((Opens \/ WritesCode \/ TouchesDone \/ Refused) /\ UNCHANGED buildVars)
    PROVE  [Job!Next]_(Job!vars)
<1> USE DEF JobState, Started, CanStart, Job!Next, Job!vars
<1>u. UNCHANGED <<made, marker, hpc, terminal, attempts, script>>
  BY DEF StartsBuild, Starts, EndsOther, CommandEnds, Closes, WindowCloses, Opens, WritesCode,
         TouchesDone, Refused
<1>1. CASE StartsBuild
  <2>1. wpc = "opened" /\ wpc' = "command" /\ runs' = runs + 1
    BY <1>1 DEF StartsBuild, Starts
  <2>2. runs' > 0
    BY <2>1 DEF JobInv, JobMeans, Begun
  <2>3. JobState' = IF marker THEN "built" ELSE "running"
    BY <1>u, <2>1, <2>2
  <2>4. JobState \in {"pending", "running", "built"} /\ (marker <=> JobState = "built")
    BY <2>1
  <2> QED
    BY <1>u, <2>3, <2>4 DEF Job!Start
<1>2. CASE EndsOther
  <2>1. wpc = "command" /\ wpc' = "ended" /\ UNCHANGED runs
    BY <1>2 DEF EndsOther, CommandEnds
  <2>2. JobState' = JobState \/ JobState' = "over"
    BY <1>u, <2>1 DEF JobInv, JobMeans, Begun
  <2> QED
    BY <1>u, <2>2 DEF Job!End
<1>3. CASE Closes
  <2>1. /\ wpc' = "killed" /\ UNCHANGED runs
        /\ wpc \in {"asked", "opened", "command", "ended", "coded"}
    BY <1>3 DEF Closes, WindowCloses
  <2>2. hpc = "exited" /\ script => wpc # "asked"
    BY DEF JobInv, IInv, TypeOK, HelperKnows, EvalDone, StartsCounted, Over
  <2>3. JobState' = JobState \/ JobState' = "over"
    BY <1>u, <2>1, <2>2 DEF JobInv, JobMeans, Begun, IInv, EvalDone, StartsCounted
  <2> QED
    BY <1>u, <2>3 DEF Job!End
<1>4. CASE (Opens \/ WritesCode \/ TouchesDone \/ Refused) /\ UNCHANGED buildVars
  <2>1. UNCHANGED runs
    BY <1>4 DEF Opens, WritesCode, TouchesDone, Refused
  <2>2. JobState' = JobState \/ JobState' = "over"
    BY <1>4, <1>u, <2>1 DEF Opens, WritesCode, TouchesDone, TouchedFrom, Refused, JobInv, JobMeans,
                            Begun, IInv, HelperKnows, EvalDone, StartsCounted, TypeOK
  <2> QED
    BY <1>u, <2>2 DEF Job!End
<1> QED
  BY <1>1, <1>2, <1>3, <1>4

\* A launch of terminal-helper with a build's command is the job BuildSession takes
\* it for: the marker means packages, and an answered launch begins nothing.
THEOREM BuildImplementsJob == BuildSpec => JobSpec
<1>1. BuildInit => Job!Init
  <2> SUFFICES ASSUME BuildInit PROVE Job!Init
    OBVIOUS
  <2>1. script /\ hpc = "eval" /\ attempts = 0 /\ wpc = "none" /\ runs = 0
    BY DEF BuildInit, Init
  <2>2. made = FALSE /\ marker = FALSE
    BY DEF BuildInit
  <2>3. JobState = "pending"
    BY <2>1, <2>2 DEF JobState, Started, CanStart
  <2> QED
    BY <2>1, <2>2, <2>3 DEF Job!Init
<1>2. BuildInit => JobInv
  BY JobInitInv
<1>3. JobInv /\ [BuildNext]_allVars => JobInv'
  BY JobStepInv
<1>4. JobInv /\ JobInv' /\ [BuildNext]_allVars => [Job!Next]_(Job!vars)
  <2> SUFFICES ASSUME JobInv, JobInv', [BuildNext]_allVars PROVE [Job!Next]_(Job!vars)
    OBVIOUS
  <2>1. CASE UNCHANGED allVars
    <3>1. UNCHANGED <<wpc, hpc, terminal, attempts, script, runs, marker, made>>
      BY <2>1 DEF allVars, vars
    <3> QED
      BY <3>1, JobStateStays DEF Job!vars
  <2>2. CASE BuildNext
    BY <2>2, HelperIsJob, CommandIsJob, TerminalIsJob DEF BuildNext, TerminalSteps
  <2> QED
    BY <2>1, <2>2
<1> QED
  BY <1>1, <1>2, <1>3, <1>4, PTL DEF BuildSpec, JobSpec, Job!Spec
=============================================================================
