--------------------------- MODULE SourceLifecycle ---------------------------
(***************************************************************************)
(* What the main loop promises about its data source, whatever the number  *)
(* of rounds, of restarts and of joins that time out: one source at a      *)
(* time, started when the outlets are up, told to stop before they go      *)
(* down, never revived, and gone before the next one starts.               *)
(* SerialHandover implements it.                                           *)
(***************************************************************************)

VARIABLES
    phase,      \* "none", "running", or "stopping" once it was told to exit
    outlets     \* the outlets are up

vars == <<phase, outlets>>

Init == phase = "none" /\ outlets = FALSE

OpenOutlets == phase = "none" /\ outlets' = TRUE /\ UNCHANGED phase

Start == phase = "none" /\ outlets /\ phase' = "running" /\ UNCHANGED outlets

Stop == phase = "running" /\ phase' = "stopping" /\ UNCHANGED outlets

End == phase = "stopping" /\ phase' = "none" /\ UNCHANGED outlets

CloseOutlets == phase # "running" /\ outlets' = FALSE /\ UNCHANGED phase

Next == OpenOutlets \/ Start \/ Stop \/ End \/ CloseOutlets

Spec == Init /\ [][Next]_vars

=============================================================================
