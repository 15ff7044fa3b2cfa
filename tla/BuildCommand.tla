----------------------------- MODULE BuildCommand -----------------------------
(***************************************************************************)
(* The command of a build inside the launch that TerminalHelper models:    *)
(*                                                                         *)
(*   cd <flavor> && build_helper.sh -scf --cleanbuild                      *)
(*               && touch .done-status; read -p 'Press enter to exit'      *)
(*                                                                         *)
(* as run_cmd_async of conf-window.cpp puts it together, with the loop of  *)
(* build_helper.sh: makepkg, the keys its log asks for, makepkg once more. *)
(* A launch of any other command is one whose kind is "any".               *)
(***************************************************************************)
EXTENDS TerminalHelper, FiniteSets

CONSTANT Keys   \* the keys the sources are signed with

\* Codes the build's command ends with: read's, and Ctrl-C's.
ASSUME BuildAssumption == {0, 1, 130} \subseteq Codes

\* How makepkg's log speaks of a missing key: one of the two lines that name it,
\* "No public key" beside a line with its ID, or without one.
Forms == {"unknown", "keyring", "paired", "bare"}

VARIABLES
    kind,      \* "build" or "any"
    form,      \* how a missing key is reported, for each key
    ring,      \* the user's gpg keyring
    bpc,       \* where the build's command is, "none" when it does not run
    tries,     \* attempt of build_helper.sh
    log,       \* the lines about keys in LOG_FILE: pairs of a form and a key
    ret,       \* the exit code of makepkg, then of build_helper.sh
    made,      \* the packages of this launch are in the build directory
    marker,    \* .done-status is there
    other,     \* history: makepkg failed without a word about a key
    hindered   \* history: a key could not be fetched

launchVars == <<terminal, helperVars, wrapperVars, fileVars>>
keyVars    == <<kind, form>>
scriptVars == <<bpc, tries, log, ret>>
histVars   == <<other, hindered>>
buildVars  == <<keyVars, ring, scriptVars, made, marker, histVars>>

-----------------------------------------------------------------------------
(* Variants with one planted fault each, not part of Next.                 *)

AlwaysTouched(code) == TRUE     \* Touched: ";" in place of "&&"
OnlyOnce(n)         == FALSE    \* MayRetry: max_attempts is 1
-----------------------------------------------------------------------------
(* build_helper.sh.                                                        *)

At(place) == wpc = "command" /\ bpc = place
Named(f) == {k \in Keys : <<f, k>> \in log}

\* The needles, over the whole log of both attempts: the first that finds an ID wins.
KeyIds == IF Named("unknown") # {} THEN Named("unknown")
          ELSE IF Named("keyring") # {} THEN Named("keyring")
          ELSE Named("paired")
NoPublicKey == Named("paired") \cup Named("bare") # {}
MayRetry(n) == n < 2

\* The directory may be gone: the background prepare removes a stale repository.
EnterFlavor ==
    /\ At("cd")
    /\ bpc' \in {"make", "read"}
    /\ UNCHANGED <<launchVars, keyVars, ring, tries, log, ret, made, marker, histVars>>

\* makepkg checks every signature, and says which keys it lacks; or it fails for a
\* reason of its own, or makes the packages.
Makepkg ==
    /\ At("make")
    /\ tries' = tries + 1
    /\ \/ /\ Keys \subseteq ring
          /\ ret' = 0 /\ made' = TRUE /\ bpc' = "touch"
          /\ UNCHANGED <<log, other>>
       \/ /\ ~ (Keys \subseteq ring)
          /\ log' = log \cup {<<form[k], k>> : k \in Keys \ ring}
          /\ ret' = 1 /\ bpc' = "scan"
          /\ UNCHANGED <<made, other>>
       \/ /\ ret' = 4 /\ bpc' = "scan" /\ other' = TRUE
          /\ UNCHANGED <<log, made>>
    /\ UNCHANGED <<launchVars, keyVars, ring, marker, hindered>>

\* What a failed attempt leads to: another one, or the code 1 when there were two,
\* whatever makepkg's own code was.
Retried ==
    IF MayRetry(tries) THEN bpc' = "make" /\ UNCHANGED ret ELSE bpc' = "touch" /\ ret' = 1

\* gpg --recv-keys fetches the keys found, or some of them.
ImportKeys ==
    /\ At("scan") /\ KeyIds # {}
    /\ \E got \in SUBSET KeyIds :
          /\ ring' = ring \cup got
          /\ hindered' = (hindered \/ ~ (KeyIds \subseteq ring'))
    /\ Retried
    /\ UNCHANGED <<launchVars, keyVars, tries, log, made, marker, other>>

\* A key without an ID: a hint, and a second attempt all the same; the user may
\* have imported the key by then.
HintKey ==
    /\ At("scan") /\ KeyIds = {} /\ NoPublicKey
    /\ ring' \in {ring, ring \cup Named("bare")}
    /\ Retried
    /\ UNCHANGED <<launchVars, keyVars, tries, log, made, marker, histVars>>

\* Any other failure: makepkg's own code.
Propagate ==
    /\ At("scan") /\ KeyIds = {} /\ ~ NoPublicKey
    /\ bpc' = "touch"
    /\ UNCHANGED <<launchVars, keyVars, ring, tries, log, ret, made, marker, histVars>>

Touched(code) == code = 0

TouchMarker ==
    /\ At("touch")
    /\ marker' = (marker \/ Touched(ret))
    /\ bpc' = "read"
    /\ UNCHANGED <<launchVars, keyVars, ring, tries, log, ret, made, histVars>>

\* The command's code is the one of read: 0 for Enter, 1 at the end of the input.
PressEnter ==
    /\ At("read")
    /\ last' \in {0, 1}
    /\ wpc' = "ended" /\ bpc' = "none"
    /\ UNCHANGED <<terminal, helperVars, fileVars, runs, keyVars, ring, tries, log, ret, made,
                   marker, histVars>>

\* Ctrl-C ends the whole subshell.
Interrupt ==
    /\ wpc = "command" /\ bpc # "none"
    /\ last' = 130
    /\ wpc' = "ended" /\ bpc' = "none"
    /\ UNCHANGED <<terminal, helperVars, fileVars, runs, keyVars, ring, tries, log, ret, made,
                   marker, histVars>>

BuildSteps == EnterFlavor \/ Makepkg \/ ImportKeys \/ HintKey \/ Propagate \/ TouchMarker
              \/ PressEnter
-----------------------------------------------------------------------------
(* The launch around it.                                                   *)

\* Every start of the command is a run of build_helper.sh with a log of its own.
StartsBuild ==
    /\ Starts
    /\ IF kind = "build"
       THEN bpc' = "cd" /\ tries' = 0 /\ log' = {} /\ ret' = 0
       ELSE UNCHANGED scriptVars
    /\ UNCHANGED <<keyVars, ring, made, marker, histVars>>

EndsOther == kind = "any" /\ CommandEnds /\ UNCHANGED buildVars

Closes ==
    /\ WindowCloses
    /\ bpc' = "none"
    /\ UNCHANGED <<keyVars, ring, tries, log, ret, made, marker, histVars>>

LaunchSteps == HelperSteps /\ UNCHANGED buildVars

TerminalSteps ==
    \/ StartsBuild \/ EndsOther \/ BuildSteps
    \/ (Opens \/ WritesCode \/ TouchesDone) /\ UNCHANGED buildVars

BuildInit ==
    /\ Init
    /\ kind \in {"build", "any"}
    /\ form \in [Keys -> Forms] /\ ring \in SUBSET Keys
    /\ bpc = "none" /\ tries = 0 /\ log = {} /\ ret = 0
    /\ made = FALSE /\ marker = FALSE
    /\ other = FALSE /\ hindered = FALSE

BuildNext ==
    \/ LaunchSteps \/ TerminalSteps \/ Interrupt \/ Closes
    \/ Refused /\ UNCHANGED buildVars

allVars == <<vars, buildVars>>

BuildSpec == BuildInit /\ [][BuildNext]_allVars

\* The fairness of TerminalHelper.
FairBuildSpec == BuildSpec /\ WF_allVars(LaunchSteps) /\ WF_allVars(TerminalSteps)
-----------------------------------------------------------------------------
(* Properties.                                                             *)

\* build_helper.sh gives up on a build that lacks nothing but keys only when one
\* could not be fetched, has no ID in the log, or the keys were reported in two
\* ways: then the needle that found the first ones hides the rest, on the second
\* attempt too, as the log still holds the first failure (build_helper.sh:56).
FailsForAReason ==
    bpc = "touch" /\ ret # 0 =>
        \/ other \/ hindered
        \/ \E k \in Keys : form[k] = "bare"
        \/ \E j, k \in Keys : form[j] # form[k]

\* A job is over when nothing can start its command any more: what alacritty's
\* "||" runs again is the same job.
Started == wpc \in {"opened", "command"}
CanStart == /\ script
            /\ \/ wpc = "asked"
               \/ hpc = "eval" /\ terminal # "none" /\ attempts = 0
               \/ hpc = "eval" /\ attempts = 1 /\ terminal = "retrying"
                  /\ wpc \in {"none", "ended", "coded", "killed"}
               \/ hpc = "eval" /\ terminal = "none"

JobState == IF ~ (Started \/ CanStart) THEN "over"
            ELSE IF marker THEN "built"
            ELSE IF runs > 0 \/ (wpc = "opened" /\ hpc = "exited") THEN "running"
            ELSE "pending"

Job == INSTANCE BuildJob WITH st <- JobState, answered <- (hpc = "exited")

\* A launch of terminal-helper with its terminal, its deadlines and the build's
\* command is the job that ConfWindow's handlers reckon with (BuildSession): the
\* marker stands for packages that were made, and an answered launch begins nothing.
JobSpec == Job!Spec
=============================================================================
