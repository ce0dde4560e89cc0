------------------------------ MODULE MCSystem ------------------------------
(***************************************************************************)
(* A table with room for the console and two programs.                     *)
(***************************************************************************)
EXTENDS System, TLC

Priorities == ("P1" :> 1) @@ ("P2" :> 1)
=============================================================================
