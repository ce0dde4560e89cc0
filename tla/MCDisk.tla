------------------------------- MODULE MCDisk -------------------------------
(***************************************************************************)
(* A disk of two blocks of two bytes, and words of two bytes.  Addresses:  *)
(* both blocks, the first beyond, one whose bytes would be block 1 if      *)
(* swapped, and the least and the greatest that are negative when signed.  *)
(* The digits of 10 and 245 are 0A and F5.                                 *)
(***************************************************************************)
EXTENDS Disk

SomeAddresses == {0, 1, 2, 256, 32768, 65535}
SomeBlocks == [1 .. 2 -> {10, 245}]
SomeData == SomeBlocks \cup {<<>>, <<10>>, <<10, 245, 10>>}
=============================================================================
