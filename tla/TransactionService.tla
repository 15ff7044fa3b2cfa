------------------------- MODULE TransactionService -------------------------
(***************************************************************************)
(* What the main window's worker promises the UI thread: a request is      *)
(* served at most once and one at a time, a service works on the batch of  *)
(* kernels selected when it began, asks pacman to change nothing outside   *)
(* that batch, and leaves no target behind for the next request.           *)
(***************************************************************************)
CONSTANT Kernels

VARIABLES
    phase,    \* "idle", "requested" or "serving"
    batch,    \* the kernels selected when the service began
    targets   \* the kernels pacman is asked to install or remove

vars == <<phase, batch, targets>>

Init == phase = "idle" /\ batch = {} /\ targets = {}

Request == /\ phase = "idle"
           /\ phase' = "requested"
           /\ UNCHANGED <<batch, targets>>

Begin == /\ phase = "requested"
         /\ phase' = "serving"
         /\ batch' \subseteq Kernels
         /\ UNCHANGED targets

Commit == /\ phase = "serving"
          /\ targets' \subseteq batch
          /\ UNCHANGED <<phase, batch>>

Finish == /\ phase = "serving"
          /\ targets = {}
          /\ phase' = "idle"
          /\ batch' = {}
          /\ UNCHANGED targets

Next == Request \/ Begin \/ Commit \/ Finish

Spec == Init /\ [][Next]_vars
=============================================================================
