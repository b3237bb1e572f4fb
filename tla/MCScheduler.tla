----------------------------- MODULE MCScheduler -----------------------------
(* The four tasks of kernel_main: LEDs 0 and Monitor 1 of priority 1, Shell *)
(* 2 of priority 2, Idle 3 of priority 0.                                   *)
EXTENDS Scheduler, TLC

MCPrio == 0 :> 1 @@ 1 :> 1 @@ 2 :> 2 @@ 3 :> 0
=============================================================================
