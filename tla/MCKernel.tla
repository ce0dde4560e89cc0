------------------------------ MODULE MCKernel ------------------------------
(***************************************************************************)
(* Small instances of the kernel for TLC.  SchedView drops the registers,  *)
(* the stack contents and pcb[].pid, on which the next value of no other   *)
(* variable depends under Spec and WellUsedSpec.  A run with it checks     *)
(* properties that read nothing else, and TypeOK, which KernelProofs       *)
(* proves of the rest.                                                     *)
(***************************************************************************)
EXTENDS KernelProperties, TLC

CONSTANTS
  P3, P4,   \* user/P3.c and user/P4.c
  Locals    \* what a program leaves on its stack

OnePriority == P4 :> 2
TwoPriorities == (P3 :> 1) @@ (P4 :> 2)

SchedView == <<tail_pid, executing, progs_running, scheduler_mode, status, age,
               base_priority, stack_top>>
=============================================================================
