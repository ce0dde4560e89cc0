----------------------------- MODULE MCLowLevel -----------------------------
(***************************************************************************)
(* Three contexts that differ in every register, at instructions between   *)
(* which there are svc instructions with different operands.               *)
(***************************************************************************)
EXTENDS LowLevel

SomeContexts == {[cpsr |-> 80 + i, pc |-> 100 + 4 * i, r0 |-> 10 + i,
                  r1 |-> 20 + i, rest |-> 30 + i] : i \in 1 .. 3}
SomeWords == {0, 1}
SomeAddresses == {100 + 4 * i : i \in 0 .. 4}
SomeCode == [a \in SomeAddresses |-> a % 7]
=============================================================================
