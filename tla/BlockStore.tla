----------------------------- MODULE BlockStore -----------------------------
(***************************************************************************)
(* What disk.h promises its caller: an array of blocks.  A call that       *)
(* succeeds has done what it says; a call that fails has done no more than *)
(* overwrite some bytes of the block it was to write.                      *)
(***************************************************************************)
EXTENDS Integers, Sequences

CONSTANTS BLOCK_NUM, BLOCK_LEN,
          Calls   \* what can be asked, and NoCall

VARIABLES blocks, call, result

vars == <<blocks, call, result>>

NoCall == [op |-> "none", a |-> 0, x |-> <<>>, n |-> 0]
Failure == [r |-> -1, x |-> <<>>]

Init == call = NoCall /\ result = Failure

\* A query, or a block that is on the disk and its length.
Possible(c) ==
  c.op \in {"wr", "rd"} => c.a \in 0 .. BLOCK_NUM - 1 /\ c.n = BLOCK_LEN

Begin(c) ==
  /\ call = NoCall
  /\ call' = c
  /\ UNCHANGED <<blocks, result>>

\* While a block is being written each of its bytes is the old or the new one.
Touch ==
  /\ call.op = "wr" /\ Possible(call)
  /\ \A a \in DOMAIN blocks \ {call.a} : blocks'[a] = blocks[a]
  /\ \A k \in 1 .. BLOCK_LEN : blocks'[call.a][k] \in {blocks[call.a][k], call.x[k]}
  /\ DOMAIN blocks' = DOMAIN blocks
  /\ UNCHANGED <<call, result>>

Return(r, x) ==
  /\ call' = NoCall
  /\ result' = [r |-> r, x |-> x]
  /\ UNCHANGED blocks

Succeed ==
  \/ call.op = "num" /\ Return(BLOCK_NUM, <<>>)
  \/ call.op = "len" /\ Return(BLOCK_LEN, <<>>)
  \/ call.op = "wr" /\ Possible(call) /\ blocks[call.a] = call.x /\ Return(0, <<>>)
  \/ call.op = "rd" /\ Possible(call) /\ Return(0, blocks[call.a])

Fail ==
  /\ call.op \in {"wr", "rd"}
  /\ Return(-1, <<>>)

Next == (\E c \in Calls : Begin(c)) \/ Touch \/ Succeed \/ Fail

Spec == Init /\ [][Next]_vars
=============================================================================
