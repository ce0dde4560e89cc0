-------------------------- MODULE MCSchedulerLoops --------------------------
(***************************************************************************)
(* Every table of four PCBs, for TLC.                                      *)
(***************************************************************************)
EXTENDS SchedulerLoops, TLC

CONSTANTS P3, P4, Locals

OnePriority == P4 :> 2
=============================================================================
