------------------------------- MODULE BuildJob -------------------------------
(***************************************************************************)
(* What BuildSession takes for granted of a command it has launched: the   *)
(* job runs at most once, .done-status appears only while it runs and only *)
(* beside packages it has made, and after the helper's answer a job runs   *)
(* on or is over, but is never still to come.  BuildSession takes Make and *)
(* Mark as one step, and an answer for a pending job as two: it begins, or *)
(* ends, and the helper answers.                                           *)
(***************************************************************************)
VARIABLES st,         \* "pending", "running", "built" or "over"
          made,       \* the packages are there
          marker,     \* .done-status is there
          answered    \* terminal-helper has exited

vars == <<st, made, marker, answered>>

Init == st = "pending" /\ made = FALSE /\ marker = FALSE /\ answered = FALSE

Start == st = "pending" /\ st' = "running" /\ UNCHANGED <<made, marker, answered>>

Make == st = "running" /\ made' = TRUE /\ UNCHANGED <<st, marker, answered>>

Mark == /\ st = "running" /\ made
        /\ st' = "built" /\ marker' = TRUE
        /\ UNCHANGED <<made, answered>>

End == st # "over" /\ st' = "over" /\ UNCHANGED <<made, marker, answered>>

Answer == /\ ~ answered
          /\ answered' = TRUE
          /\ IF st = "pending" THEN st' \in {"running", "over"} ELSE UNCHANGED st
          /\ UNCHANGED <<made, marker>>

Next == Start \/ Make \/ Mark \/ End \/ Answer

Spec == Init /\ [][Next]_vars
=============================================================================
