------------------------------ MODULE MCDining ------------------------------
(***************************************************************************)
(* DPP executed as the first program: the waiter is pid 1.                 *)
(***************************************************************************)
EXTENDS Dining
=============================================================================
