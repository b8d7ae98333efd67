------------------------- MODULE CheckpointRegister -------------------------
(***************************************************************************)
(* What save_daemon_state and load_daemon_state promise together: the     *)
(* checkpoint is an atomic register that the daemon, the stop command and  *)
(* the readers in other processes share, until a fault damages a file.     *)
(***************************************************************************)
EXTENDS Naturals

CONSTANTS Procs,    \* processes that load or save the checkpoint
          Fresh     \* the state of a daemon that was never saved

VARIABLES value,    \* what the register holds
          view,     \* what each process got from its last load
          intact    \* no file was damaged from outside

vars == <<value, view, intact>>

Init == value = Fresh /\ view = [p \in Procs |-> Fresh] /\ intact = TRUE

Save == /\ value' \in Nat
        /\ UNCHANGED <<view, intact>>

Load(p) == /\ view' = [view EXCEPT ![p] = value]
           /\ UNCHANGED <<value, intact>>

\* The damage itself, and everything after it, is outside the promise.
Damaged == intact' = FALSE

Next == \/ intact = TRUE /\ (Save \/ \E p \in Procs : Load(p))
        \/ Damaged

Spec == Init /\ [][Next]_vars
=============================================================================
