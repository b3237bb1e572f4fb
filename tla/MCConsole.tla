------------------------------ MODULE MCConsole ------------------------------
(* The tasks of kernel_main, with the roles the programs play: LEDs 0,      *)
(* Monitor 1, Shell 2, Idle 3.                                              *)
EXTENDS Console, TLC

MCPrio == 0 :> 1 @@ 1 :> 1 @@ 2 :> 2 @@ 3 :> 0
=============================================================================
