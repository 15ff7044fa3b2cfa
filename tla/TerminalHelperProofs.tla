------------------------- MODULE TerminalHelperProofs -------------------------
(* One launch of terminal-helper, proved for any exit codes, any kinds of   *)
(* terminal, and any of the two deadlines and the window's closing.         *)
EXTENDS TerminalHelper, TLAPS

USE DEF helperVars, wrapperVars, fileVars, Over, NoCode

LEMMA InitInv == Init => IInv
<1> SUFFICES ASSUME Init PROVE IInv
  OBVIOUS
<1>1. /\ runDir \subseteq {"dir"}
      /\ terminal # "none" => "dir" \in runDir
      /\ "dir" \notin runDir => runDir = {}
  BY DEF Init
<1>2. TypeOK
  <2>1. script \in BOOLEAN /\ expired \in BOOLEAN
    BY DEF Init
  <2> QED
    BY <1>1, <2>1 DEF Init, TypeOK, Files, WrapperPlaces, HelperPlaces
<1>3. StartsCounted /\ FilesMean
  BY <1>1 DEF Init, StartsCounted, FilesMean, Begun
<1>4. EvalDone /\ HelperKnows /\ CodeIsReal
  BY DEF Init, EvalDone, HelperKnows, CodeIsReal
<1> QED
  BY <1>2, <1>3, <1>4 DEF IInv

LEMMA HelperStepsType ==
    ASSUME IInv, HelperSteps
    PROVE  TypeOK'
<1> USE HelperAssumption DEF TypeOK, Files, WrapperPlaces, HelperPlaces
<1>1. CASE NoTerminal
  BY <1>1 DEF NoTerminal, IInv
<1>2. CASE Launch
  BY <1>2 DEF Launch, IInv
<1>3. CASE EvalReturns
  BY <1>3 DEF EvalReturns, IInv
<1>4. CASE SeesStarted
  BY <1>4 DEF SeesStarted, IInv
<1>5. CASE StartExpires
  BY <1>5 DEF StartExpires, IInv
<1>6. CASE SeesDone
  BY <1>6 DEF SeesDone, IInv
<1>7. CASE DoneExpires
  BY <1>7 DEF DoneExpires, IInv
<1>8. CASE Cleanup
  <2>1. runDir' \subseteq Files /\ ("dir" \notin runDir' => runDir' = {}) /\ rcFile' = NoCode
    BY <1>8 DEF Cleanup
  <2> QED
    BY <1>8, <2>1 DEF Cleanup, IInv
<1>9. CASE RemoveRunDir
  <2>1. runDir' = {} /\ rcFile' = NoCode
    BY <1>9 DEF RemoveRunDir
  <2>2. runDir' \subseteq Files /\ "dir" \notin runDir'
    BY <2>1
  <2> QED
    BY <1>9, <2>1, <2>2 DEF RemoveRunDir, IInv
<1>10. CASE RemovalFails
  BY <1>10 DEF RemovalFails, IInv
<1>11. CASE Exit
  <2>1. rc \in Codes \cup {124, 126}
    BY <1>11 DEF Exit, IInv, HelperKnows, FilesMean
  <2>2. script' \in BOOLEAN
    BY <1>11 DEF Exit, ScriptAfter
  <2> QED
    BY <1>11, <2>1, <2>2 DEF Exit, IInv
<1> QED
  BY <1>1, <1>2, <1>3, <1>4, <1>5, <1>6, <1>7, <1>8, <1>9, <1>10, <1>11 DEF HelperSteps

\* rm finds a file in the directory only when the command has begun.
LEMMA RemovalNeedsCommand ==
    ASSUME IInv, RemovalFails
    PROVE  runs > 0
<1>1. terminal # "none" /\ "dir" \in runDir /\ runDir \subseteq Files
  BY DEF RemovalFails, IInv, TypeOK, EvalDone, FilesMean
<1>2. rcFile # NoCode \/ "started" \in runDir \/ "done" \in runDir
  <2>1. CASE rcFile # NoCode
    BY <2>1
  <2>2. CASE runDir # {"dir"}
    <3>1. PICK f \in runDir : f # "dir"
      BY <2>2, <1>1
    <3> QED
      BY <3>1, <1>1 DEF Files
  <2> QED
    BY <2>1, <2>2 DEF RemovalFails
<1> QED
  BY <1>2 DEF IInv, FilesMean, StartsCounted, Begun

LEMMA HelperStepsInv ==
    ASSUME IInv, HelperSteps
    PROVE  IInv'
<1> USE HelperAssumption DEF StartsCounted, FilesMean, EvalDone, HelperKnows, CodeIsReal, Begun
<1>1. CASE NoTerminal
  BY <1>1, HelperStepsType DEF NoTerminal, IInv, TypeOK
<1>2. CASE Launch
  BY <1>2, HelperStepsType DEF Launch, IInv, TypeOK
<1>3. CASE EvalReturns
  BY <1>3, HelperStepsType DEF EvalReturns, IInv, TypeOK
<1>4. CASE SeesStarted
  BY <1>4, HelperStepsType DEF SeesStarted, IInv, TypeOK
<1>5. CASE StartExpires
  BY <1>5, HelperStepsType DEF StartExpires, IInv, TypeOK
<1>6. CASE SeesDone
  BY <1>6, HelperStepsType DEF SeesDone, IInv, TypeOK
<1>7. CASE DoneExpires
  BY <1>7, HelperStepsType DEF DoneExpires, IInv, TypeOK
<1>8. CASE Cleanup
  BY <1>8, HelperStepsType DEF Cleanup, IInv, TypeOK
<1>9. CASE RemoveRunDir
  <2>1. runDir' = {}
    BY <1>9 DEF RemoveRunDir
  <2> QED
    BY <1>9, <2>1, HelperStepsType DEF RemoveRunDir, IInv, TypeOK
<1>10. CASE RemovalFails
  <2>1. runs > 0
    BY <1>10, RemovalNeedsCommand
  <2> QED
    BY <1>10, <2>1, HelperStepsType DEF RemovalFails, IInv, TypeOK
<1>11. CASE Exit
  BY <1>11, HelperStepsType DEF Exit, ScriptAfter, IInv, TypeOK
<1> QED
  BY <1>1, <1>2, <1>3, <1>4, <1>5, <1>6, <1>7, <1>8, <1>9, <1>10, <1>11 DEF HelperSteps

\* What the wrapper, Polkit and the terminal do: none of it when the helper has
\* left the eval line of a blocking terminal.
LEMMA WrapperStepsInv ==
    ASSUME IInv, WrapperSteps \/ Refused \/ WindowCloses
    PROVE  IInv'
<1> USE HelperAssumption
    DEF IInv, TypeOK, StartsCounted, FilesMean, EvalDone, HelperKnows, CodeIsReal, Begun,
        WrapperPlaces, HelperPlaces, Files
<1>1. CASE Opens
  BY <1>1 DEF Opens
<1>2. CASE Starts
  BY <1>2 DEF Starts, InRunDir
<1>3. CASE CommandEnds
  BY <1>3 DEF CommandEnds
<1>4. CASE WritesCode
  BY <1>4 DEF WritesCode
<1>5. CASE TouchesDone
  BY <1>5 DEF TouchesDone, TouchedFrom, InRunDir
<1>6. CASE Refused
  BY <1>6 DEF Refused
<1>7. CASE WindowCloses
  BY <1>7 DEF WindowCloses
<1> QED
  BY <1>1, <1>2, <1>3, <1>4, <1>5, <1>6, <1>7 DEF WrapperSteps

LEMMA NextInv == IInv /\ [Next]_vars => IInv'
<1> SUFFICES ASSUME IInv, [Next]_vars PROVE IInv'
  OBVIOUS
<1>1. CASE Next
  BY <1>1, HelperStepsInv, WrapperStepsInv DEF Next
<1>2. CASE UNCHANGED vars
  BY <1>2 DEF vars, IInv, TypeOK, StartsCounted, FilesMean, EvalDone, HelperKnows, CodeIsReal
<1> QED
  BY <1>1, <1>2

\* The inductive invariant: what the files mean, how often the command was
\* started, and what the helper knows at each of its places.
THEOREM Invariant == Spec => []IInv
BY InitInv, NextInv, PTL DEF Spec

\* Every variable keeps its type: of terminal-helper's two scripts and the files
\* between them.
THEOREM TypeCorrect == Spec => []TypeOK
<1>1. IInv => TypeOK
  BY DEF IInv
<1> QED
  BY <1>1, Invariant, PTL

\* The exit code is the command's own, or one the helper gives when a deadline
\* passed or there is no terminal (the end of terminal-helper).
THEOREM CodeStaysReal == Spec => []CodeIsReal
<1>1. IInv => CodeIsReal
  BY DEF IInv
<1> QED
  BY <1>1, Invariant, PTL

\* After the helper's exit bash opens no script any more: the 126 exit and the
\* clean-up both remove it.
THEOREM NothingStartsLate == Spec => NoLateStart
<1>1. IInv /\ [Next]_vars => [hpc = "exited" /\ wpc' = "opened" => wpc = "opened"]_vars
  <2> SUFFICES ASSUME IInv, Next, hpc = "exited", wpc' = "opened"
               PROVE  wpc = "opened"
    BY DEF vars
  <2>1. Opens \/ UNCHANGED wpc
    BY DEF Next, HelperSteps, WrapperSteps, NoTerminal, Launch, EvalReturns, SeesStarted,
           StartExpires, SeesDone, DoneExpires, Cleanup, RemoveRunDir, RemovalFails, Exit,
           Starts, CommandEnds, WritesCode, TouchesDone, Refused, WindowCloses
  <2>2. ~Opens
    <3>1. CASE terminal = "none"
      BY <3>1 DEF Opens, IInv, EvalDone
    <3>2. CASE out = 1 /\ expired /\ runs > 0
      <4>1. terminal # "singleton" => wpc # "asked"
        BY DEF IInv, EvalDone
      <4>2. terminal = "singleton" => attempts <= 1
        BY DEF IInv, StartsCounted
      <4>3. runs \in Nat /\ attempts \in Nat
        BY DEF IInv, TypeOK
      <4>4. wpc = "asked" => runs + 1 <= attempts
        BY DEF IInv, StartsCounted
      <4> QED
        <5>1. wpc # "asked"
          BY <3>2, <4>1, <4>2, <4>3, <4>4
        <5> QED
          BY <5>1 DEF Opens
    <3> QED
      BY <3>1, <3>2 DEF Opens, IInv, HelperKnows
  <2> QED
    BY <2>1, <2>2
<1> QED
  BY <1>1, Invariant, PTL DEF Spec, NoLateStart

LEMMA CommandCases ==
    ASSUME TypeOK
    PROVE  /\ wpc \in {"none", "asked", "opened"} => Command = "pending"
           /\ wpc = "command" => Command = "running"
           /\ wpc \in {"ended", "coded", "finished"} => Command = "ended"
           /\ wpc = "killed" => Command = "dead"
BY DEF TypeOK, WrapperPlaces, Command

LEMMA AnsweredCases ==
    /\ out = NoCode /\ rc # 126 => Answered = "none"
    /\ out = NoCode /\ rc = 126 => Answered = "refusing"
    /\ out = 124 \/ (out = 1 /\ expired /\ terminal # "none") => Answered = "unknown"
    /\ out = 126 \/ (out = 1 /\ ~ expired /\ terminal = "none") => Answered = "refused"
    /\ out \in 0..255 \ {124, 126} /\ ~(out = 1 /\ (expired \/ terminal = "none"))
         => Answered = "real"
<1>1. out \in 0..255 => out # NoCode
  OBVIOUS
<1>2. ASSUME out # NoCode, out # 124, out # 126, ~(out = 1 /\ (expired \/ terminal = "none"))
      PROVE  Answered = "real"
  <2>1. CASE out = 1
    BY <1>2, <2>1 DEF Answered
  <2>2. CASE out # 1
    BY <1>2, <2>2 DEF Answered
  <2> QED
    BY <2>1, <2>2
<1>3. out = 1 /\ expired /\ terminal # "none" => Answered = "unknown"
  BY DEF Answered
<1>4. out = 1 /\ ~ expired /\ terminal = "none" => Answered = "refused"
  BY DEF Answered
<1>5. /\ out = NoCode /\ rc # 126 => Answered = "none"
      /\ out = NoCode /\ rc = 126 => Answered = "refusing"
      /\ out = 124 => Answered = "unknown"
      /\ out = 126 => Answered = "refused"
  BY DEF Answered
<1> QED
  BY <1>1, <1>2, <1>3, <1>4, <1>5

\* Steps of the helper before it decides leave the answer open: they start a
\* terminal (again), or change nothing the contract speaks of.
LEMMA HelperRefines ==
    ASSUME IInv, IInv', HelperSteps
    PROVE  Contract!Next \/ UNCHANGED <<Command, Answered>>
<1> USE CommandCases, AnsweredCases, HelperAssumption
<1>t. TypeOK /\ TypeOK'
  BY DEF IInv
<1>n. hpc # "exited" /\ out = NoCode
  BY DEF HelperSteps, NoTerminal, Launch, EvalReturns, SeesStarted, StartExpires, SeesDone,
         DoneExpires, Cleanup, RemoveRunDir, RemovalFails, Exit, IInv, HelperKnows
<1>o. hpc \in {"eval", "started?", "done?"} => Answered = "none"
  BY <1>n DEF IInv, HelperKnows
<1>1. CASE NoTerminal
  <2>1. Command = "pending" /\ Command' = Command /\ Answered = "none"
    BY <1>1, <1>t, <1>o DEF NoTerminal, IInv, EvalDone, Command
  <2>2. Answered' = "refused"
    BY <1>1, <1>o DEF NoTerminal, Answered, IInv, HelperKnows
  <2> QED
    BY <2>1, <2>2 DEF Contract!Next, Contract!Answer
<1>2. CASE Launch
  <2>1. Answered = "none" /\ Answered' = "none"
    BY <1>2, <1>n, <1>o DEF Launch, Answered
  <2>2. Command' = "pending"
    BY <1>2 DEF Launch, Command
  <2>3. wpc \in {"none", "killed"}
    BY <1>2 DEF Launch, IInv, StartsCounted
  <2>4. Command \in {"pending", "dead"}
    BY <2>3, <1>t
  <2> QED
    BY <2>1, <2>2, <2>4 DEF Contract!Next, Contract!Relaunch
<1>3. CASE EvalReturns \/ SeesStarted \/ Cleanup \/ RemoveRunDir
  <2>1. UNCHANGED <<wpc, out, terminal, rc, expired>>
    BY <1>3 DEF EvalReturns, SeesStarted, Cleanup, RemoveRunDir, wrapperVars
  <2> QED
    BY <2>1 DEF Command, Answered
<1>4. CASE SeesDone \/ DoneExpires
  <2>1. UNCHANGED <<wpc, out, terminal>> /\ hpc = "done?"
    BY <1>4 DEF SeesDone, DoneExpires, wrapperVars
  <2>2. rc' # 126
    BY <1>4 DEF SeesDone, DoneExpires, IInv, TypeOK
  <2>3. Answered = "none" /\ Answered' = "none"
    BY <1>n, <1>o, <2>1, <2>2 DEF Answered
  <2> QED
    BY <2>1, <2>3 DEF Command
<1>5. CASE StartExpires
  <2>1. Answered = "none" /\ Answered' = "refusing" /\ Command' = Command
    BY <1>5, <1>n, <1>o DEF StartExpires, Answered, Command, NoCode
  <2>2. wpc \notin Begun
    BY <1>5 DEF StartExpires, Unseen, IInv, FilesMean, EvalDone
  <2>3. Command \in {"pending", "dead"}
    BY <2>2, <1>t DEF Begun, TypeOK, WrapperPlaces, Command
  <2> QED
    BY <2>1, <2>3 DEF Contract!Next, Contract!Refuse
<1>6. CASE RemovalFails
  <2>1. Answered \in {"none", "refusing"} /\ Command' = Command
    BY <1>6, <1>n DEF RemovalFails, Answered, Command
  <2>2. terminal # "none"
    BY <1>6 DEF RemovalFails, IInv, EvalDone
  <2>3. expired
    BY <1>6 DEF RemovalFails, IInv, HelperKnows
  <2>4. Answered' = "unknown"
    BY <1>6, <2>2, <2>3 DEF RemovalFails, Answered, NoCode
  <2> QED
    BY <2>1, <2>4 DEF Contract!Next, Contract!Answer
<1>7. CASE Exit
  <2>1. /\ Command' = Command /\ out' = rc /\ terminal' = terminal /\ expired' = expired
        /\ terminal # "none"
    BY <1>7 DEF Exit, Command, IInv, EvalDone
  <2>2. CASE rc = 124
    <3>1. Answered = "none" /\ Answered' = "unknown"
      BY <1>n, <2>1, <2>2 DEF Answered, NoCode
    <3> QED
      BY <3>1, <2>1 DEF Contract!Next, Contract!Answer
  <2>3. CASE rc = 126
    <3>1. Answered = "refusing" /\ Answered' = "refused"
      BY <1>n, <2>1, <2>3 DEF Answered, NoCode
    <3> QED
      BY <3>1, <2>1 DEF Contract!Next, Contract!Answer
  <2>4. CASE rc = last /\ wpc = "finished" /\ ~ expired
    <3>1. rc \in 0..255 \ {124, 126}
      BY <2>4 DEF IInv, FilesMean
    <3>2. Answered = "none" /\ Answered' = "real"
      BY <1>n, <2>1, <2>4, <3>1 DEF Answered, NoCode
    <3>3. Command = "ended"
      BY <2>4 DEF Command
    <3> QED
      BY <3>2, <3>3, <2>1 DEF Contract!Next, Contract!Answer
  <2> QED
    BY <1>7, <2>2, <2>3, <2>4 DEF Exit, IInv, HelperKnows
<1> QED
  BY <1>1, <1>2, <1>3, <1>4, <1>5, <1>6, <1>7 DEF HelperSteps

\* The command's life, whatever has been answered meanwhile: only the start of a
\* command depends on it.
LEMMA WrapperRefines ==
    ASSUME IInv, IInv', WrapperSteps \/ Refused \/ WindowCloses
    PROVE  Contract!Next \/ UNCHANGED <<Command, Answered>>
<1>t. TypeOK /\ TypeOK'
  BY DEF IInv
<1>a. UNCHANGED Answered
  BY DEF WrapperSteps, Opens, Starts, CommandEnds, WritesCode, TouchesDone, Refused,
         WindowCloses, Answered
<1>1. CASE Opens \/ WritesCode \/ TouchesDone \/ Refused
  BY <1>1, <1>a DEF Opens, WritesCode, TouchesDone, TouchedFrom, Refused, Command
<1>2. CASE Starts
  <2>1. Command = "pending" /\ Command' = "running"
    BY <1>2 DEF Starts, Command
  <2>2. terminal # "none"
    BY <1>2 DEF Starts, IInv, EvalDone
  <2>3. out = NoCode \/ out = 126
    <3>1. CASE hpc = "exited"
      BY <3>1, <1>2, <2>2 DEF Starts, IInv, CodeIsReal, EvalDone, StartsCounted, TypeOK
    <3>2. CASE hpc # "exited"
      BY <3>2 DEF IInv, HelperKnows
    <3> QED
      BY <3>1, <3>2
  <2>4. Answered \in {"none", "refusing", "refused"}
    BY <2>3, AnsweredCases DEF IInv, HelperKnows, TypeOK
  <2> QED
    BY <2>1, <2>4, <1>a DEF Contract!Next, Contract!Begin
<1>3. CASE CommandEnds
  BY <1>3, <1>a DEF CommandEnds, Command, Contract!Next, Contract!End
<1>4. CASE WindowCloses
  <2>1. Command # "dead" /\ Command' = "dead"
    BY <1>4 DEF WindowCloses, Command
  <2> QED
    BY <2>1, <1>a DEF Contract!Next, Contract!Die
<1> QED
  BY <1>1, <1>2, <1>3, <1>4 DEF WrapperSteps

\* The helper and its wrapper implement the launch contract that runCmdTerminal
\* and ConfWindow rely on.
THEOREM HelperImplementsContract == Spec => ContractSpec
<1>1. Init => Contract!Init
  BY DEF Init, Contract!Init, Command, Answered
<1>2. IInv /\ IInv' /\ [Next]_vars => [Contract!Next]_(Contract!vars)
  <2> SUFFICES ASSUME IInv, IInv', [Next]_vars
               PROVE  [Contract!Next]_(Contract!vars)
    OBVIOUS
  <2>1. CASE Next
    BY <2>1, HelperRefines, WrapperRefines DEF Next, Contract!vars
  <2>2. CASE UNCHANGED vars
    BY <2>2 DEF vars, Contract!vars, Command, Answered
  <2> QED
    BY <2>1, <2>2
<1> QED
  BY <1>1, <1>2, Invariant, PTL DEF Spec, ContractSpec, Contract!Spec
=============================================================================
