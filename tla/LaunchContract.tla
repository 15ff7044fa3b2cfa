---------------------------- MODULE LaunchContract ----------------------------
(***************************************************************************)
(* What a caller of terminal-helper may rely on: the answer is the         *)
(* command's own exit code only after the command has ended; a refusal     *)
(* (126) is decided on while the command is not running, but by the time   *)
(* it is given the command may have begun, or ended; a time-out (124, or 1 *)
(* when the clean-up fails) says nothing of the command, which may run on; *)
(* and once the helper has decided nothing is launched again: at most the  *)
(* one command that was asked for before still begins.                     *)
(***************************************************************************)
VARIABLES command,   \* "pending", "running", "ended" or "dead"
          answer     \* "none", "refusing", "real", "refused" or "unknown"

vars == <<command, answer>>

Init == command = "pending" /\ answer = "none"

Begin == /\ command = "pending"
         /\ answer \in {"none", "refusing", "refused"}
         /\ command' = "running"
         /\ UNCHANGED answer

End == /\ command = "running"
       /\ command' = "ended"
       /\ UNCHANGED answer

\* The terminal goes away under the command, or before or after it.
Die == /\ command # "dead"
       /\ command' = "dead"
       /\ UNCHANGED answer

\* A terminal that failed is launched once more.
Relaunch == /\ command = "dead"
            /\ answer = "none"
            /\ command' = "pending"
            /\ UNCHANGED answer

Refuse == /\ answer = "none"
          /\ command \in {"pending", "dead"}
          /\ answer' = "refusing"
          /\ UNCHANGED command

Answer == /\ \/ answer = "none" /\ command = "ended" /\ answer' = "real"
             \/ answer = "none" /\ command = "pending" /\ answer' = "refused"
             \/ answer = "refusing" /\ answer' = "refused"
             \/ answer \in {"none", "refusing"} /\ answer' = "unknown"
          /\ UNCHANGED command

Next == Begin \/ End \/ Die \/ Relaunch \/ Refuse \/ Answer

Spec == Init /\ [][Next]_vars
=============================================================================
