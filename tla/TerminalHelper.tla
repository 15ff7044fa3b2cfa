---------------------------- MODULE TerminalHelper ----------------------------
(***************************************************************************)
(* One launch of src/terminal-helper: the helper script the program waits  *)
(* for, and the wrapper script that the terminal emulator runs.  The two   *)
(* talk through files in a run directory: started, rc and done.            *)
(*                                                                         *)
(* Time is not counted: a deadline passes when it may, and the two         *)
(* constants say whether it may.  A second attempt is the "||" of the      *)
(* alacritty line, which runs the same wrapper again when the terminal     *)
(* exits with an error.                                                    *)
(***************************************************************************)
EXTENDS Naturals

CONSTANTS
    Codes,            \* exit codes of commands
    Terminals,        \* the kinds of terminal that may be installed
    StartMayExpire,   \* whether KMH_START_TIMEOUT (120 s) may pass
    DoneMayExpire,    \* whether KMH_DONE_TIMEOUT (1800 s) may pass
    WindowMayClose    \* whether the terminal may be closed, or crash, under the wrapper

\* "blocking" terminals exit with the wrapper; "singleton" ones (konsole, ptyxis)
\* pass the request to a running instance and exit at once; "retrying" is
\* alacritty, blocking and started again after an error exit; "none" is a machine
\* where command -v finds no terminal.
\* A command that itself exits with 124 or 126 cannot be told from the helper.
ASSUME HelperAssumption ==
    /\ Codes \subseteq 0..255 \ {124, 126}
    /\ Terminals \subseteq {"blocking", "singleton", "retrying", "none"}
    /\ {StartMayExpire, DoneMayExpire, WindowMayClose} \subseteq BOOLEAN

NoCode == 999   \* no rc file, or no exit yet

VARIABLES
    terminal,   \* which kind of terminal this machine has
    hpc,        \* the helper, see HelperPlaces
    wpc,        \* the wrapper, see WrapperPlaces
    attempts,   \* terminals launched by the eval line
    script,     \* $file exists
    runDir,     \* the files of $run_dir; "dir" stands for the directory itself
    rcFile,     \* the contents of $run_dir/rc
    rc,         \* the code the helper goes to exit with; 0 until it knows
    out,        \* the helper's exit code
    runs,       \* history: how often the command was started
    last,       \* history: how the last command ended
    expired     \* history: a deadline passed

vars == <<terminal, hpc, wpc, attempts, script, runDir, rcFile, rc, out, runs, last, expired>>
helperVars  == <<hpc, attempts, script, rc, out, expired>>
wrapperVars == <<wpc, runs, last>>
fileVars    == <<runDir, rcFile>>

HelperPlaces == {"eval", "started?", "done?", "cleanup", "rmdir", "unlink", "exited"}

\* "asked" is the time from the terminal's start (for an escalated command: the
\* Polkit dialog) to bash opening $file.
WrapperPlaces == {"none", "asked", "opened", "command", "ended", "coded", "finished", "killed"}
Over == {"none", "finished", "killed"}
-----------------------------------------------------------------------------
(* Variants with one planted fault each, not part of Next.                 *)

DoneBeforeCode  == {"ended"}   \* TouchedFrom: done touched before rc is written
KeepScript(c)   == c = 126     \* ScriptAfter: $file removed after a real code only
WaitForEver     == FALSE       \* DonePasses: no deadline on done
ClockFirst      == TRUE        \* Unseen: the deadline tested before the sentinel
MakeRunDir(f)   == runDir \cup {f}   \* InRunDir: the directory made when it is gone
-----------------------------------------------------------------------------
(* The helper.                                                             *)

\* No terminal: exit 1 before a run directory is made, and $file stays.
NoTerminal ==
    /\ hpc = "eval" /\ terminal = "none"
    /\ out' = 1
    /\ hpc' = "exited"
    /\ UNCHANGED <<terminal, wrapperVars, fileVars, attempts, script, rc, expired>>

\* The eval line returns: at once for a singleton, otherwise with the terminal.
EvalReturns ==
    /\ hpc = "eval"
    /\ attempts > 0
    /\ terminal = "singleton" \/ wpc \in Over
    /\ hpc' = "started?"
    /\ UNCHANGED <<terminal, wrapperVars, fileVars, attempts, script, rc, out, expired>>

\* The terminal is launched: first by the eval line, and again by its "||"
\* when an attempt left the wrapper unfinished.
Launch ==
    /\ hpc = "eval" /\ terminal # "none"
    /\ \/ attempts = 0
       \/ attempts = 1 /\ terminal = "retrying" /\ wpc \in {"none", "killed"}
    /\ attempts' = attempts + 1
    /\ wpc' = "asked"
    /\ UNCHANGED <<terminal, hpc, script, fileVars, rc, out, runs, last, expired>>

SeesStarted ==
    /\ hpc = "started?"
    /\ "started" \in runDir
    /\ hpc' = "done?"
    /\ UNCHANGED <<terminal, wrapperVars, fileVars, attempts, script, rc, out, expired>>

Unseen == "started" \notin runDir

\* A last look that finds no sentinel, and then the start deadline.  What follows
\* up to the exit with 126 are steps of their own: the wrapper may start the
\* command meanwhile.
StartExpires ==
    /\ hpc = "started?"
    /\ StartMayExpire \/ wpc \in Over
    /\ Unseen
    /\ rc' = 126
    /\ expired' = TRUE
    /\ hpc' = "cleanup"
    /\ UNCHANGED <<terminal, wrapperVars, fileVars, attempts, script, out>>

\* done is there: read rc, where a missing or non-numeric one counts as 124.
SeesDone ==
    /\ hpc = "done?"
    /\ "done" \in runDir
    /\ rc' = IF rcFile = NoCode THEN 124 ELSE rcFile
    /\ hpc' = "cleanup"
    /\ UNCHANGED <<terminal, wrapperVars, fileVars, attempts, script, out, expired>>

DonePasses == DoneMayExpire \/ wpc \in Over

DoneExpires ==
    /\ hpc = "done?"
    /\ DonePasses
    /\ "done" \notin runDir
    /\ rc' = 124
    /\ expired' = TRUE
    /\ hpc' = "cleanup"
    /\ UNCHANGED <<terminal, wrapperVars, fileVars, attempts, script, out>>

\* rm -rf "$run_dir" removes the files it finds ...
Cleanup ==
    /\ hpc = "cleanup"
    /\ runDir' = runDir \cap {"dir"}
    /\ rcFile' = NoCode
    /\ hpc' = "rmdir"
    /\ UNCHANGED <<terminal, wrapperVars, attempts, script, rc, out, expired>>

\* ... and then the directory.
RemoveRunDir ==
    /\ hpc = "rmdir"
    /\ runDir = {"dir"} /\ rcFile = NoCode
    /\ runDir' = {}
    /\ hpc' = "unlink"
    /\ UNCHANGED <<terminal, wrapperVars, rcFile, attempts, script, rc, out, expired>>

\* The wrapper has written a file in between: rm fails, and set -e ends the helper
\* with rm's code 1 before $file is removed.
RemovalFails ==
    /\ hpc = "rmdir"
    /\ runDir # {"dir"} \/ rcFile # NoCode
    /\ out' = 1
    /\ hpc' = "exited"
    /\ UNCHANGED <<terminal, wrapperVars, fileVars, attempts, script, rc, expired>>

ScriptAfter(code) == FALSE

\* rm -f "$file" and exit.
Exit ==
    /\ hpc = "unlink"
    /\ script' = ScriptAfter(rc)
    /\ out' = rc
    /\ hpc' = "exited"
    /\ UNCHANGED <<terminal, wrapperVars, fileVars, attempts, rc, expired>>
-----------------------------------------------------------------------------
(* The wrapper.  Its writes into a run directory that is gone do nothing.  *)

InRunDir(f) == IF "dir" \in runDir THEN runDir \cup {f} ELSE runDir

\* The user rejects Polkit, the window never opens, or bash no longer finds $file.
Refused ==
    /\ wpc = "asked"
    /\ wpc' = "none"
    /\ UNCHANGED <<terminal, helperVars, fileVars, runs, last>>

Opens ==
    /\ wpc = "asked"
    /\ script
    /\ wpc' = "opened"
    /\ UNCHANGED <<terminal, helperVars, fileVars, runs, last>>

\* touch started, then the command in its subshell.
Starts ==
    /\ wpc = "opened"
    /\ runDir' = InRunDir("started")
    /\ runs' = runs + 1
    /\ wpc' = "command"
    /\ UNCHANGED <<terminal, helperVars, rcFile, last>>

CommandEnds ==
    /\ wpc = "command"
    /\ last' \in Codes
    /\ wpc' = "ended"
    /\ UNCHANGED <<terminal, helperVars, fileVars, runs>>

\* echo $rc > rc.  The INT and TERM traps write the same file before: bash runs
\* a trap after the subshell ended, so this write overrides theirs.
WritesCode ==
    /\ wpc = "ended"
    /\ rcFile' = IF "dir" \in runDir THEN last ELSE rcFile
    /\ wpc' = "coded"
    /\ UNCHANGED <<terminal, helperVars, runDir, runs, last>>

TouchedFrom == {"coded"}

TouchesDone ==
    /\ wpc \in TouchedFrom
    /\ runDir' = InRunDir("done")
    /\ wpc' = "finished"
    /\ UNCHANGED <<terminal, helperVars, rcFile, runs, last>>

\* The window is closed or the terminal crashes: no trap for SIGHUP.
WindowCloses ==
    /\ WindowMayClose
    /\ wpc \in {"asked", "opened", "command", "ended", "coded"}
    /\ wpc' = "killed"
    /\ UNCHANGED <<terminal, helperVars, fileVars, runs, last>>
-----------------------------------------------------------------------------
Init ==
    /\ terminal \in Terminals
    /\ hpc = "eval"
    /\ wpc = "none"
    /\ attempts = 0
    /\ script = TRUE
    /\ runDir = IF terminal = "none" THEN {} ELSE {"dir"}
    /\ rcFile = NoCode
    /\ rc = 0
    /\ out = NoCode
    /\ runs = 0
    /\ last = NoCode
    /\ expired = FALSE

HelperSteps  == NoTerminal \/ Launch \/ EvalReturns \/ SeesStarted \/ StartExpires 
                \/ SeesDone \/ DoneExpires \/ Cleanup \/ RemoveRunDir \/ RemovalFails \/ Exit
WrapperSteps == Opens \/ Starts \/ CommandEnds \/ WritesCode \/ TouchesDone

Next == HelperSteps \/ WrapperSteps \/ Refused \/ WindowCloses

Spec == Init /\ [][Next]_vars

\* The scripts run on; a command ends and its "Press enter" is answered.
FairSpec == Spec /\ WF_vars(HelperSteps) /\ WF_vars(WrapperSteps)
-----------------------------------------------------------------------------
(* Properties.                                                             *)

Files == {"dir", "started", "done"}

\* Every variable keeps its type, and $file, the run directory and its contents
\* go together.
TypeOK ==
    /\ terminal \in Terminals
    /\ hpc \in HelperPlaces
    /\ wpc \in WrapperPlaces
    /\ attempts \in 0..2 /\ runs \in 0..2
    /\ script \in BOOLEAN /\ expired \in BOOLEAN
    /\ runDir \subseteq Files /\ ("dir" \notin runDir => runDir = {} /\ rcFile = NoCode)
    /\ rcFile \in Codes \cup {NoCode} /\ last \in Codes \cup {NoCode}
    /\ rc \in Codes \cup {0, 124, 126} /\ out \in Codes \cup {1, 124, 126, NoCode}

\* "The helper's exit code IS the command's real rc" (the header of
\* terminal-helper): a code of its own means that a deadline passed or that there
\* is no terminal, any other is the one the last command ended with.  After a
\* deadline the code is 1 when the wrapper wrote under the helper's rm.
CodeIsReal ==
    hpc = "exited" => \/ out = last /\ wpc = "finished"
                      \/ out = 124 /\ expired /\ runs > 0
                      \/ out = 126 /\ expired
                      \/ out = 1 /\ expired /\ runs > 0
                      \/ out = 1 /\ runs = 0 /\ terminal = "none"

\* Once the helper has answered, bash finds no script to open, however late Polkit
\* is answered, even where it was left behind; only a script that bash had opened
\* before runs on.
NoLateStart == [][hpc = "exited" /\ wpc' = "opened" => wpc = "opened"]_vars

\* runCmdTerminal waits for the helper for ever, so the helper must end whatever
\* happens to the terminal.
HelperEnds == (hpc # "exited") ~> (hpc = "exited")

Command == CASE wpc \in {"none", "asked", "opened"}       -> "pending"
             [] wpc = "command"                           -> "running"
             [] wpc \in {"ended", "coded", "finished"}    -> "ended"
             [] wpc = "killed"                            -> "dead"
Answered == CASE out = NoCode /\ rc # 126         -> "none"
              [] out = NoCode /\ rc = 126         -> "refusing"
              [] out = 124 \/ (out = 1 /\ expired) -> "unknown"
              [] out = 126 \/ (out = 1 /\ terminal = "none") -> "refused"
              [] OTHER -> "real"

Contract == INSTANCE LaunchContract WITH command <- Command, answer <- Answered

\* The helper and the wrapper implement the contract the program relies on.
ContractSpec == Contract!Spec
-----------------------------------------------------------------------------
(* The inductive invariant.                                                *)

Begun == {"command", "ended", "coded", "finished"}

\* Every attempt starts the command at most once, and a begun command is counted.
StartsCounted ==
    /\ attempts = 0 => wpc = "none"
    /\ attempts <= 1 \/ terminal = "retrying"
    /\ runs + (IF wpc \in {"asked", "opened"} THEN 1 ELSE 0) <= attempts
    /\ wpc \in Begun => runs > 0

\* The run directory is the helper's until it exits, and what its files mean.
FilesMean ==
    /\ hpc \notin {"unlink", "exited"} /\ terminal # "none" => "dir" \in runDir
    /\ "started" \in runDir => runs > 0
    /\ rcFile # NoCode => runs > 0
    /\ hpc \in {"eval", "started?", "done?"} /\ "dir" \in runDir /\ wpc \in Begun
          => "started" \in runDir
    /\ wpc \in {"ended", "coded", "finished"} => last \in Codes
    /\ hpc \in {"eval", "started?", "done?"} /\ "dir" \in runDir /\ wpc \in {"coded", "finished"}
          => rcFile = last
    /\ "done" \in runDir => wpc = "finished"

\* A terminal that blocks is over when the eval line returns; without a terminal
\* nothing is launched.
EvalDone ==
    /\ hpc # "eval" /\ terminal # "singleton" => wpc \in Over
    /\ terminal = "none" => hpc \in {"eval", "exited"} /\ wpc = "none" /\ attempts = 0

\* What the helper knows of the command at each of its places.
HelperKnows ==
    /\ hpc \in {"eval", "started?", "done?"} => rc = 0 /\ ~ expired
    /\ hpc = "done?" => runs > 0
    /\ hpc \in {"cleanup", "rmdir", "unlink"} =>
          \/ rc = last /\ wpc = "finished" /\ ~ expired
          \/ rc = 124 /\ expired /\ runs > 0
          \/ rc = 126 /\ expired
    /\ hpc = "rmdir" /\ ~ expired => runDir = {"dir"} /\ rcFile = NoCode
    /\ hpc # "exited" <=> out = NoCode
    /\ hpc = "exited" /\ script => terminal = "none" \/ (out = 1 /\ expired /\ runs > 0)
    /\ terminal = "none" => runs = 0 /\ ~ expired

IInv == TypeOK /\ StartsCounted /\ FilesMean /\ EvalDone /\ HelperKnows /\ CodeIsReal
=============================================================================
